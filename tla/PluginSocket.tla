---------------------------- MODULE PluginSocket ----------------------------
(***************************************************************************)
(* The plugin socket (socket.c): a client of a Unix socket takes the input *)
(* of one domain and may send input to another.                            *)
(*                                                                         *)
(* Everything the daemon writes to the plugin is one stream of records.    *)
(* An event means something only under the device slot announced before    *)
(* it, and the plugin learns the devices from the DEV_CONF and DEV_RESET   *)
(* records among the events.  Each write may be refused when the socket is *)
(* full; PluginWire shows that a write that is not refused arrives whole.  *)
(*                                                                         *)
(* The functions of socket.c nest, and every write in them has several     *)
(* outcomes, so an operator for one of them maps a state s to the set of   *)
(* states it may leave; those that return a value give a set of outcomes   *)
(* [ok, s].                                                                *)
(***************************************************************************)
EXTENDS Integers, Sequences

CONSTANTS
    N_DEVS,          \* numbers of /dev/input/event*, from 0
    NDOMAIN_MAX,     \* records in domains[]
    Domids,          \* domain ids
    PvDomains,       \* those served by the Xen virtual keyboard
    DeviceTypes,     \* what may be plugged in: "KEYBOARD", "POINTER"
    Destinations,    \* domain ids the plugin asks to send to
    PluginSlots,     \* device slots the plugin announces itself
    TakeWhenStale    \* may VM_TAKE_FROM come while input_dev.types[] still
                     \* lists a device that was removed?

ASSUME PluginAssumption ==
    /\ N_DEVS \in Nat /\ PluginSlots \subseteq Nat
    /\ NDOMAIN_MAX \in Nat
    /\ Domids \subseteq Nat /\ PvDomains \subseteq Domids
    /\ Destinations \subseteq Nat
    /\ DeviceTypes \subseteq {"KEYBOARD", "POINTER"}
    /\ TakeWhenStale \in BOOLEAN

DevSlots == 0..(N_DEVS - 1)
NULL == 0
Rec == 1..NDOMAIN_MAX
NoDomid == -1
INPUTSLOT_INVALID == -2
ALL == 255                      \* DEV_RESET of every device
Types == {"NONE"} \cup DeviceTypes    \* what input_dev.types[] tells apart

VARIABLE ps

DevEvent == [slot : DevSlots, remove : BOOLEAN, add : BOOLEAN]

\* struct domain, as far as the socket reads or writes it; a record whose
\* domid is NoDomid is not in use.
DomainRec == [domid : Domids \cup {NoDomid}, plugin : BOOLEAN, last_devslot : Int]

\* What the client has made of the stream: the slot it was told last and the
\* devices it knows.  The rest is history: the slots of which it has missed an
\* event since it last read SYN_DROPPED under them, when the slot was announced
\* (lost) and when it could not be (skipped), and what it has got wrong:
\* "slot", it took an event for one of another slot; "lost" and "skipped", it
\* took an event for the next of its slot when some had been lost in between.
View == [slot : Int, devices : SUBSET DevSlots, lost : SUBSET DevSlots,
         skipped : SUBSET DevSlots, wrong : SUBSET {"slot", "lost", "skipped"}]

\* struct sock_plugin (open is s # -1), the devices, the domains, the view.
\* asked and crossed are history: the domid of the last VM_SEND_TO; an event
\* of the plugin reached its destination under another slot than the plugin's.
State ==
    [open         : BOOLEAN,
     src          : Rec \cup {NULL},
     dest         : Rec \cup {NULL},
     slot         : Int,
     recived_slot : Int,
     dropped      : BOOLEAN,
     slot_dropped : BOOLEAN,
     resetall     : BOOLEAN,
     dev_events   : Seq(DevEvent),
     error        : BOOLEAN,
     fds          : SUBSET DevSlots,
     types        : [DevSlots -> Types],
     domains      : [Rec -> DomainRec],
     view         : View,
     asked        : Destinations \cup {NoDomid},
     crossed      : BOOLEAN]

NewView == [slot |-> INPUTSLOT_INVALID, devices |-> {}, lost |-> {},
            skipped |-> {}, wrong |-> {}]

Live(s) == {r \in Rec : s.domains[r].domid # NoDomid}

domain_with_domid(s, id) ==
    LET R == {r \in Live(s) : s.domains[r].domid = id}
    IN  IF R = {} THEN NULL ELSE CHOOSE r \in R : \A q \in R : r <= q

-----------------------------------------------------------------------------
(* Writing one record.                                                     *)

Mistakes(v, slot) ==
    IF v.slot # slot THEN {"slot"}
    ELSE {w \in {"lost", "skipped"} : slot \in IF w = "lost" THEN v.lost ELSE v.skipped}

\* What a client does with a record; "EVENT" carries the slot it came from.
Read(v, m) ==
    CASE m.op = "SET"     -> [v EXCEPT !.slot = m.slot]
      [] m.op = "CONF"    -> [v EXCEPT !.devices = @ \cup {m.slot}]
      [] m.op = "RESET"   -> [v EXCEPT !.devices =
                                 IF m.slot = ALL THEN {} ELSE @ \ {m.slot}]
      [] m.op = "DROPPED" -> [v EXCEPT !.lost = @ \ {v.slot},
                                       !.skipped = @ \ {v.slot}]
      [] m.op = "EVENT"   -> [v EXCEPT !.wrong = @ \cup Mistakes(v, m.slot)]
      [] OTHER            -> v

Msg(op, slot) == [op |-> op, slot |-> slot]

\* The source of the plugin loses it.
Detach(s) ==
    [s EXCEPT !.domains = [r \in Rec |-> [s.domains[r] EXCEPT !.plugin = @ /\ r # s.src]]]

\* The client is gone, and with it its view.
kill_connection(s) ==
    [Detach(s) EXCEPT !.open = FALSE, !.src = NULL, !.dev_events = <<>>,
                      !.view = NewView]

\* A write goes through, is refused, or finds the connection broken: then it
\* returns true, but false when a tail of the last record was still to go.
\* A closed socket always takes the third way.
send_to_plugin(s, m) ==
    {[ok |-> b, s |-> kill_connection(s)] : b \in BOOLEAN}
    \cup IF s.open THEN {[ok |-> TRUE,  s |-> [s EXCEPT !.view = Read(@, m)]],
                         [ok |-> FALSE, s |-> s]}
                   ELSE {}

send_error(s) ==
    {IF o.ok THEN o.s ELSE [o.s EXCEPT !.error = TRUE] :
        o \in send_to_plugin(s, Msg("ERROR", 0))}

-----------------------------------------------------------------------------
(* Device configuration.                                                   *)

EntriesOf(s, slot) == {i \in DOMAIN s.dev_events : s.dev_events[i].slot = slot}

add_queue_dev_event_conf(s, slot) ==
    IF EntriesOf(s, slot) # {}
    THEN [s EXCEPT !.dev_events = [i \in DOMAIN @ |->
             IF i \in EntriesOf(s, slot) THEN [@[i] EXCEPT !.add = TRUE]
                                         ELSE @[i]]]
    ELSE [s EXCEPT !.dev_events =
             Append(@, [slot |-> slot, remove |-> FALSE, add |-> TRUE])]

\* Slip: a reset of a device whose configuration waits is not queued.
add_queue_dev_event_reset_Slip(s, slot) ==
    IF slot = ALL THEN [s EXCEPT !.resetall = TRUE]
    ELSE IF EntriesOf(s, slot) # {} THEN s
    ELSE [s EXCEPT !.dev_events =
             Append(@, [slot |-> slot, remove |-> TRUE, add |-> FALSE])]

\* Slip: a reset of all is queued like any other.
add_queue_dev_event_reset_SlipAll(s, slot) ==
    IF EntriesOf(s, slot) # {} THEN s
    ELSE [s EXCEPT !.dev_events =
             Append(@, [slot |-> slot, remove |-> TRUE, add |-> FALSE])]

add_queue_dev_event_reset(s, slot) ==
    IF slot = ALL THEN [s EXCEPT !.resetall = TRUE]
    ELSE IF EntriesOf(s, slot) # {}
    THEN [s EXCEPT !.dev_events = [i \in DOMAIN @ |->
             IF i \notin EntriesOf(s, slot) THEN @[i]
             ELSE IF @[i].add THEN [@[i] EXCEPT !.add = FALSE]
             ELSE [@[i] EXCEPT !.remove = TRUE]]]
    ELSE [s EXCEPT !.dev_events =
             Append(@, [slot |-> slot, remove |-> TRUE, add |-> FALSE])]

\* The devices the client knows once the entries I of the queue have been
\* written: a reset goes before the configuration of the same slot.
Devices(s, I) ==
    (s.view.devices \ {s.dev_events[i].slot : i \in {j \in I : s.dev_events[j].remove}})
    \cup {s.dev_events[i].slot : i \in {j \in I : s.dev_events[j].add}}

Written(s, I) == [s EXCEPT !.view.devices = Devices(s, I)]

\* A write of entry j may be refused before its reset, or half done, after it.
Stops(s, j, half) ==
    LET e == s.dev_events[j]
    IN  IF half THEN e.remove /\ e.add ELSE e.remove \/ e.add

Stopped(s, j, half) ==
    LET t == Written(s, (j + 1)..Len(s.dev_events))
        e == s.dev_events[j]
    IN  IF half
        THEN [t EXCEPT !.view.devices = @ \ {e.slot},
                       !.dev_events = Append(SubSeq(@, 1, j - 1), [e EXCEPT !.remove = FALSE])]
        ELSE [t EXCEPT !.dev_events = SubSeq(@, 1, j)]

\* The queue is written from its end; an entry leaves it when it has been
\* written.
flush_queued_dev_events(s) ==
    LET n == Len(s.dev_events)
        Entries(half) == {j \in 1..n : Stops(s, j, half)}
    IN  IF n = 0 THEN {[ok |-> TRUE, s |-> s]}
        ELSE {[ok |-> b, s |-> kill_connection(s)] : b \in BOOLEAN}
             \cup IF ~s.open THEN {}
                  ELSE {[ok |-> TRUE, s |-> [Written(s, 1..n) EXCEPT !.dev_events = <<>>]]}
                       \cup {[ok |-> FALSE, s |-> Stopped(s, j, TRUE)] : j \in Entries(TRUE)}
                       \cup {[ok |-> FALSE, s |-> Stopped(s, j, FALSE)] : j \in Entries(FALSE)}

Requeue(s, code, slot) ==
    IF code = "CONF" THEN add_queue_dev_event_conf(s, slot)
                     ELSE add_queue_dev_event_reset(s, slot)

\* The queue goes first; a reset of all devices makes it pointless.
WriteDevEvent(s, code, slot, m) ==
    IF code = "RESET" /\ slot = ALL
    THEN send_to_plugin([s EXCEPT !.dev_events = <<>>], m)
    ELSE UNION {IF o.ok THEN send_to_plugin(o.s, m) ELSE {o} :
                   o \in flush_queued_dev_events(s)}

\* A reset of all that was refused goes before the record itself.
send_plugin_dev_event(s, code, slot) ==
    LET Alone(t) ==
            {IF o.ok THEN o.s ELSE Requeue(o.s, code, slot) :
                o \in WriteDevEvent(t, code, slot, Msg(code, slot))}
    IN  IF ~s.resetall THEN Alone(s)
        ELSE UNION {IF o.ok THEN Alone([o.s EXCEPT !.resetall = FALSE])
                    ELSE {Requeue(o.s, code, slot)} :
                       o \in WriteDevEvent(s, code, slot, Msg("RESET", ALL))}

\* Every device of the table, in order, after a reset of all.
sock_plugin_sendconfig(s) ==
    LET after[n \in 0..N_DEVS] ==
            IF n = 0 THEN send_plugin_dev_event(s, "RESET", ALL)
            ELSE UNION {IF s.types[n - 1] = "POINTER"
                        THEN send_plugin_dev_event(t, "CONF", n - 1) ELSE {t} :
                           t \in after[n - 1]}
    IN  after[N_DEVS]

-----------------------------------------------------------------------------
(* Events to the plugin.                                                   *)

\* Slip: nobody looks whether the report went through.
ReportDropped_Slip(s) ==
    IF s.dropped
    THEN {[ok |-> TRUE, s |-> [o.s EXCEPT !.dropped = FALSE]] :
             o \in send_to_plugin(s, Msg("DROPPED", 0))}
    ELSE {[ok |-> TRUE, s |-> s]}

\* Outcomes of reporting a loss under the slot that is announced.
ReportDropped(s) ==
    IF s.dropped
    THEN {[o EXCEPT !.s.dropped = ~o.ok] : o \in send_to_plugin(s, Msg("DROPPED", 0))}
    ELSE {[ok |-> TRUE, s |-> s]}

send_slot(s, slot) ==
    UNION {IF ~o.ok THEN {[o.s EXCEPT !.slot_dropped = TRUE]}
           ELSE {IF p.ok THEN [p.s EXCEPT !.slot = slot,
                                          !.dropped = p.s.slot_dropped,
                                          !.slot_dropped = FALSE]
                         ELSE [p.s EXCEPT !.slot_dropped = TRUE] :
                    p \in send_to_plugin(o.s, Msg("SET", slot))} :
              o \in ReportDropped(s)}

\* What must go before any event: an error, a reset of all, the queue.
Backlog(s) ==
    LET Errors == IF s.error
                  THEN {[o EXCEPT !.s.error = ~o.ok] : o \in send_to_plugin(s, Msg("ERROR", 0))}
                  ELSE {[ok |-> TRUE, s |-> s]}
        Resets(t) == IF t.resetall
                     THEN {[o EXCEPT !.s.resetall = ~o.ok] :
                              o \in send_to_plugin(t, Msg("RESET", ALL))}
                     ELSE {[ok |-> TRUE, s |-> t]}
    IN  UNION {IF ~o.ok THEN {o}
               ELSE UNION {IF p.ok THEN flush_queued_dev_events(p.s) ELSE {p} :
                              p \in Resets(o.s)} : o \in Errors}

Lose(s, slot) ==
    IF s.slot = slot THEN [s EXCEPT !.view.lost = @ \cup {slot}]
                     ELSE [s EXCEPT !.view.skipped = @ \cup {slot}]

\* A kill leaves a closed socket, which takes everything that is left.
send_plugin_event(s, slot) ==
    LET Cannot(t) == IF t.slot # slot THEN [t EXCEPT !.slot_dropped = TRUE]
                                      ELSE [t EXCEPT !.dropped = TRUE]
        Announced(t) == IF t.slot # slot THEN send_slot(t, slot) ELSE {t}
        Write(t) == {IF o.ok THEN o.s ELSE Lose([o.s EXCEPT !.dropped = TRUE], slot) :
                        o \in send_to_plugin(t, Msg("EVENT", slot))}
        Reported(t) == UNION {IF o.ok THEN Write(o.s) ELSE {Lose(o.s, slot)} :
                                 o \in ReportDropped(t)}
    IN  UNION {IF o.ok THEN UNION {Reported(t) : t \in Announced(o.s)}
                       ELSE {Lose(Cannot(o.s), slot)} : o \in Backlog(s)}
-----------------------------------------------------------------------------
(* The handlers.                                                           *)

Init ==
    ps = [open |-> FALSE, src |-> NULL, dest |-> NULL, slot |-> INPUTSLOT_INVALID,
          recived_slot |-> INPUTSLOT_INVALID, dropped |-> FALSE,
          slot_dropped |-> FALSE, resetall |-> FALSE, dev_events |-> <<>>,
          error |-> FALSE, fds |-> {}, types |-> [n \in DevSlots |-> "NONE"],
          domains |-> [r \in Rec |-> [domid |-> NoDomid, plugin |-> FALSE,
                                      last_devslot |-> INPUTSLOT_INVALID]],
          view |-> NewView, asked |-> NoDomid, crossed |-> FALSE]

\* A client connects; a second one is turned away.
server_accept ==
    /\ ~ps.open
    /\ ps' = [ps EXCEPT !.open = TRUE, !.src = NULL, !.dest = NULL,
                 !.slot = INPUTSLOT_INVALID, !.recived_slot = INPUTSLOT_INVALID,
                 !.dropped = FALSE, !.slot_dropped = FALSE, !.resetall = FALSE,
                 !.dev_events = <<>>, !.error = FALSE,
                 !.view = NewView, !.asked = NoDomid]

\* The client closes its end, or reading from it fails.
Hangup == ps.open /\ ps' = kill_connection(ps)

\* VM_SEND_TO: the destination also hears the slot the plugin is using.
SendTo(id) ==
    LET d == domain_with_domid(ps, id)
        t == [ps EXCEPT !.dest = d, !.asked = id]
    IN  /\ ps.open
        /\ IF d = NULL THEN ps' \in send_error(t)
           ELSE IF id \in PvDomains THEN \E u \in send_error(t) : ps' = [u EXCEPT !.dest = NULL]
           ELSE ps' = IF ps.recived_slot # INPUTSLOT_INVALID
                      THEN [t EXCEPT !.domains[d].last_devslot = ps.recived_slot]
                      ELSE t

\* No device was removed whose type is still in the table.
NoneStale(s) == \A n \in DevSlots : s.types[n] = "POINTER" => n \in s.fds

\* Slip: the previous source keeps the plugin.
TakeFrom_Slip(id) ==
    LET d == domain_with_domid(ps, id)
    IN  /\ ps.open
        /\ TakeWhenStale \/ NoneStale(ps)
        /\ IF d = NULL THEN ps' \in send_error(ps)
           ELSE ps' \in sock_plugin_sendconfig(
                           [ps EXCEPT !.src = d, !.domains[d].plugin = TRUE])

\* VM_TAKE_FROM: the previous source loses the plugin in any case.
TakeFrom(id) ==
    LET d == domain_with_domid(ps, id)
    IN  /\ ps.open
        /\ TakeWhenStale \/ NoneStale(ps)
        /\ IF d = NULL THEN ps' \in send_error(Detach(ps))
           ELSE ps' \in sock_plugin_sendconfig(
                           [Detach(ps) EXCEPT !.src = d, !.domains[d].plugin = TRUE])

\* An EV_VM record with an unknown code.
BadCode == ps.open /\ ps' \in send_error(ps)

\* Any other record: to the destination when there is one with a client.
PluginSetsSlot(slot) ==
    /\ ps.open
    /\ IF ps.dest = NULL THEN ps' \in send_error(ps)
       ELSE /\ ps.dest \in Live(ps)
            /\ ps' = [ps EXCEPT !.recived_slot = slot,
                                !.domains[ps.dest].last_devslot = slot]

\* The destination has been told another slot than the plugin's.
Crosses(s) ==
    LET told == s.domains[s.dest].last_devslot
    IN  INPUTSLOT_INVALID \notin {told, s.recived_slot} /\ told # s.recived_slot

PluginEvent ==
    /\ ps.open
    /\ IF ps.dest = NULL THEN ps' \in send_error(ps)
       ELSE /\ ps.dest \in Live(ps)
            /\ ps' = [ps EXCEPT !.crossed = @ \/ Crosses(ps)]

\* An event of a device goes to a domain, or to the plugin in its stead.
input_send(d, slot) ==
    /\ d \in Live(ps) /\ slot \in ps.fds
    /\ IF ps.domains[d].plugin THEN ps' \in send_plugin_event(ps, slot)
       ELSE ps' = IF ps.domains[d].domid \in PvDomains THEN ps
                  ELSE [ps EXCEPT !.domains[d].last_devslot = slot]

\* The configuration record that goes to the plugin of every domain.
Broadcast(s, code, slot) ==
    IF \E r \in Live(s) : s.domains[r].plugin
    THEN send_plugin_dev_event(s, code, slot) ELSE {s}

\* A device is found; keyboards are not announced.
consider_device(slot, type) ==
    /\ slot \notin ps.fds
    /\ LET t == [ps EXCEPT !.fds = @ \cup {slot}, !.types[slot] = type] IN
       ps' \in IF type = "POINTER" THEN Broadcast(t, "CONF", slot) ELSE {t}

\* Reading a device fails: it is dropped, its type stays in the table.
input_read(slot) ==
    /\ slot \in ps.fds
    /\ ps' \in Broadcast([ps EXCEPT !.fds = @ \ {slot}], "RESET", slot)

domain_create(id) ==
    LET Free == Rec \ Live(ps)
        d == CHOOSE r \in Free : \A q \in Free : r <= q
    IN  /\ Free # {} /\ domain_with_domid(ps, id) = NULL
        /\ ps' = [ps EXCEPT !.domains[d] = [domid |-> id, plugin |-> FALSE,
                                            last_devslot |-> INPUTSLOT_INVALID]]

\* Neither src nor dest of the plugin is cleared.
domain_gone(d) ==
    d \in Live(ps) /\ ps' = [ps EXCEPT !.domains[d].domid = NoDomid]

Socket ==
    \/ server_accept \/ Hangup \/ BadCode \/ PluginEvent
    \/ \E id \in Destinations : SendTo(id)
    \/ \E id \in Domids : TakeFrom(id)
    \/ \E slot \in PluginSlots : PluginSetsSlot(slot)

Daemon ==
    \/ \E d \in Rec : domain_gone(d) \/ \E slot \in DevSlots : input_send(d, slot)
    \/ \E id \in Domids : domain_create(id)
    \/ \E slot \in DevSlots : \/ input_read(slot)
                              \/ \E type \in DeviceTypes : consider_device(slot, type)

Next == Socket \/ Daemon

Spec == Init /\ [][Next]_ps

-----------------------------------------------------------------------------
(* Properties.                                                             *)

TypeOK == ps \in State

\* A domain in use that has a plugin is the source of the open connection:
\* kill_connection and VM_TAKE_FROM detach the plugin from src only, so a
\* domain that src no longer points at would send into a closed socket.
PluginPointsBack ==
    \A r \in Live(ps) : ps.domains[r].plugin => ps.open /\ ps.src = r

\* When an event is lost under the announced slot, dropped stays set until
\* SYN_DROPPED has been written under that slot: the plugin never takes the
\* next event of the slot for the one that follows what it has read.
LossReported == "lost" \notin ps.view.wrong

\* "we know we also dropped the first packet from that slot, hence we should
\* set dropped" (send_slot): the same of an event whose slot could not be
\* announced.
SkipReported == "skipped" \notin ps.view.wrong

\* "sends an event, on the given slot, to the plugin" (send_plugin_event): an
\* event is never read under the slot announced before.
SlotKept == "slot" \notin ps.view.wrong

\* The queue of configurations has been written and no reset is owed.
Settled ==
    /\ ps.open /\ ~ps.resetall /\ ps.dev_events = <<>>
    /\ \E r \in Live(ps) : ps.domains[r].plugin

Pointers == {n \in ps.fds : ps.types[n] = "POINTER"}

\* "Dropping device" (input_read): once everything owed has been written,
\* the plugin knows no device that is gone.
NoGhostDevices == Settled => ps.view.devices \subseteq Pointers

\* A configuration that was refused is queued to be written later
\* (send_plugin_dev_event): once nothing is owed, no device is unknown.
NoMissingDevices == Settled => Pointers \subseteq ps.view.devices

\* "Sends events to domain <d>" (VM_SEND_TO): the record the events go to is
\* still that of the domain that was asked for.
DestAsAsked ==
    ps.dest \in Live(ps) => ps.domains[ps.dest].domid = ps.asked

\* "Do we have the right dev slot?" (VM_SEND_TO): an event of the plugin
\* reaches its destination under the slot the plugin has set.
DestSlotKept == ~ps.crossed

=============================================================================
