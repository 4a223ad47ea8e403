-------------------------------- MODULE Vkbd --------------------------------
(****************************************************************************)
(* How an event reaches a PV guest: input_send of input.c passes each one   *)
(* through demultitouch, which turns the multitouch protocol of the kernel  *)
(* into that of a one-finger pointer, and on to the vkbd backend            *)
(* (xen_vkbd.c, xen_event.c), whose guest knows keys, buttons and places.   *)
(*                                                                          *)
(* The statics of demultitouch and of xen_event_send exist once: every      *)
(* device and every guest shares them.  An operator that stands for a C     *)
(* function has its name and takes those statics first.                     *)
(*                                                                          *)
(* An event is [kind, code, value]: "KEY" with a key or button; "REL" for a *)
(* step of a mouse; "MOVE" for a coordinate, a contact's too; "SLOT";       *)
(* "TRACK" (ABS_MT_TRACKING_ID, -1 when the contact lifts); "SHAPE" for the *)
(* pressure, width and so on of a contact; "SYN" and "MTSYN"                *)
(* (SYN_MT_REPORT).                                                         *)
(****************************************************************************)
EXTENDS Integers, Sequences

Event(kind, code, value) == [kind |-> kind, code |-> code, value |-> value]
Key(code, value) == Event("KEY", code, value)
SYN == Event("SYN", "none", 0)

-----------------------------------------------------------------------------
(* demultitouch.                                                           *)

MaxSlot == 1    \* contacts are told apart only as the first and another

Deferred == {"nope", "send_sync", "send_left", "send_left_up"}

\* Its statics.
MtState == [deferpressed : Deferred, draining : BOOLEAN, slot : 0..MaxSlot,
            pressed : BOOLEAN, had_slot0 : BOOLEAN]

MtInit == [deferpressed |-> "nope", draining |-> FALSE, slot |-> 0,
           pressed |-> FALSE, had_slot0 |-> FALSE]

\* What a call leaves: the statics, the event as rewritten, and whether the
\* caller drops it, sends it, or sends it and calls again.
Outcome(mt, e, ia) == [mt |-> mt, e |-> e, ia |-> ia]

\* The head of the branch for another contact and for the drain.
SlotFollows(mt, e) ==
    IF mt.draining THEN mt
    ELSE IF e.kind = "SYN"
         THEN [mt EXCEPT !.slot = 0, !.had_slot0 = FALSE]
    ELSE IF e.kind = "SLOT"
         THEN [mt EXCEPT !.slot = e.value,
                         !.had_slot0 = @ \/ e.value = 0]
    ELSE mt

\* In that branch an event is replaced by what was deferred, or dropped.
Replace(mt, e) ==
    CASE mt.deferpressed = "send_sync" ->
            Outcome([mt EXCEPT !.deferpressed = "nope", !.draining = FALSE],
                    SYN, "send")
      [] mt.deferpressed \in {"send_left", "send_left_up"} ->
            Outcome([mt EXCEPT !.deferpressed = "send_sync"],
                    Key("BTN_LEFT", IF mt.deferpressed = "send_left" THEN 1 ELSE 0),
                    IF mt.draining THEN "queued" ELSE "send")
      [] OTHER -> Outcome(mt, e, "discard")

\* Slip: while a press is deferred its contact is not looked at.
Contact_Slip(mt, e) ==
    LET now == e.value # -1 IN
    IF mt.pressed = now \/ mt.deferpressed # "nope" THEN Outcome(mt, e, "send")
    ELSE Outcome([mt EXCEPT !.pressed = now, !.deferpressed =
                                IF now THEN "send_left" ELSE "send_left_up"],
                 e, "discard")

\* A contact of slot 0 appears or lifts: the button is sent later, after the
\* place.
Contact(mt, e) ==
    LET now == e.value # -1 IN
    IF mt.pressed = now THEN Outcome(mt, e, "send")
    ELSE Outcome([mt EXCEPT !.pressed = now, !.had_slot0 = TRUE,
                            !.deferpressed =
                                IF now THEN "send_left" ELSE "send_left_up"],
                 e, "discard")

\* Leaving slot 0 ends the frame of the first contact.
Leave(mt, e) ==
    LET t == [mt EXCEPT !.slot = e.value] IN
    IF e.value = 0 THEN Outcome(t, e, "send")
    ELSE IF mt.had_slot0 THEN Outcome(t, SYN, "send")
    ELSE Outcome(t, e, "discard")

EndFrame(mt, e) ==
    LET t == [mt EXCEPT !.had_slot0 = FALSE] IN
    IF mt.deferpressed # "nope"
    THEN Outcome([t EXCEPT !.draining = TRUE], e, "queued")
    ELSE Outcome(t, e, "send")

demultitouch(mt, e) ==
    IF mt.slot # 0 \/ mt.draining THEN Replace(SlotFollows(mt, e), e)
    ELSE CASE e.kind = "SYN"   -> EndFrame(mt, e)
           [] e.kind = "MTSYN" -> Outcome([mt EXCEPT !.slot = 1], SYN, "send")
           [] e.kind = "TRACK" -> Contact(mt, e)
           [] e.kind = "SLOT"  -> Leave(mt, e)
           [] e.kind = "SHAPE" ->
                Outcome([mt EXCEPT !.had_slot0 = TRUE], e, "discard")
           [] e.kind = "MOVE"  -> Outcome(mt, e, "send")
           [] OTHER -> Outcome([mt EXCEPT !.had_slot0 = TRUE], e, "send")

-----------------------------------------------------------------------------
(* The backend.  "told" is what a guest has read from its ring: the keys   *)
(* and buttons it takes for held.                                          *)

\* xen_event_send_key, and the raw event an HVM guest gets over dmbus.
Told(told, e) ==
    IF e.kind # "KEY" THEN told
    ELSE IF e.value # 0 THEN told \cup {e.code} ELSE told \ {e.code}

\* A lock key toggles the guest's state; for a PV guest the daemon toggles the bit
\* of keyboard_led_code as well (xen_vkbd_handle_led).
Toggle(lights, light) ==
    IF light \in lights THEN lights \ {light} ELSE lights \cup {light}

\* What the guest has been told once a call's outcome has been sent.
Sent(o, told) == IF o.ia = "discard" THEN told ELSE Told(told, o.e)

Done(o, told) == [mt |-> o.mt, told |-> Sent(o, told)]

\* The queue that a call leaves behind its event is at most a place, a button and
\* a report long.
Following(o, told) ==
    IF o.ia = "queued" THEN Done(demultitouch(o.mt, o.e), Sent(o, told)) ELSE Done(o, told)

Outgoing(o, told) ==
    IF o.ia = "queued" THEN Following(demultitouch(o.mt, o.e), Sent(o, told)) ELSE Done(o, told)

\* input_send for a PV guest: an event, then whatever the call queues behind it.
input_send(mt, told, e) == Outgoing(demultitouch(mt, e), told)

=============================================================================
