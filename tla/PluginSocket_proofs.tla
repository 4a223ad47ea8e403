------------------------ MODULE PluginSocket_proofs ------------------------
(***************************************************************************)
(* Theorems about PluginSocket.                                            *)
(***************************************************************************)
EXTENDS PluginSocket, SequenceTheorems, WellFoundedInduction, TLAPS

USE DEF NULL, NoDomid, INPUTSLOT_INVALID, ALL

-----------------------------------------------------------------------------
(* The inductive invariant.                                                *)

\* PluginPointsBack of every record, in use or not: a record that is freed
\* keeps the plugin it had.
Attached(s) == \A r \in Rec : s.domains[r].plugin => s.open /\ s.src = r

\* The client knows the slot that was announced last, and has missed events of
\* no other; if of that, then dropped is set.
Heard(s) ==
    /\ "lost" \notin s.view.wrong
    /\ s.open => /\ s.view.slot = s.slot
                 /\ s.view.lost \subseteq IF s.dropped THEN {s.slot} ELSE {}

Safe == {s \in State : Attached(s) /\ Heard(s)}

\* What a function that returns a value may give.
Outcome == [ok : BOOLEAN, s : Safe]

IInv == ps \in Safe

-----------------------------------------------------------------------------
(* Types and lookups.                                                      *)

LEMMA Constants ==
  /\ Rec \subseteq Nat /\ 0 \notin Rec
  /\ DevSlots \subseteq Nat /\ Domids \subseteq Nat
  /\ "NONE" \in Types
BY PluginAssumption DEF Rec, DevSlots, Types

LEMMA StateFields ==
  ASSUME NEW s \in State
  PROVE  /\ s.open \in BOOLEAN /\ s.src \in Rec \cup {0} /\ s.dest \in Rec \cup {0}
         /\ s.slot \in Int /\ s.recived_slot \in Int
         /\ s.dropped \in BOOLEAN /\ s.slot_dropped \in BOOLEAN
         /\ s.resetall \in BOOLEAN /\ s.dev_events \in Seq(DevEvent)
         /\ s.error \in BOOLEAN /\ s.fds \in SUBSET DevSlots
         /\ s.types \in [DevSlots -> Types] /\ s.domains \in [Rec -> DomainRec]
         /\ s.view \in View /\ s.asked \in Destinations \cup {-1}
         /\ s.crossed \in BOOLEAN
BY DEF State

LEMMA DomainFields ==
  ASSUME NEW s \in State, NEW d \in Rec
  PROVE  /\ s.domains[d] \in DomainRec
         /\ s.domains[d].domid \in Domids \cup {NoDomid}
         /\ s.domains[d].plugin \in BOOLEAN
         /\ s.domains[d].last_devslot \in Int
BY DEF State, DomainRec

LEMMA OutcomeFields ==
  ASSUME NEW o \in Outcome
  PROVE  o.ok \in BOOLEAN /\ o.s \in Safe /\ o.s \in State
BY DEF Outcome, Safe

LEMMA OutcomeOf == \A b \in BOOLEAN, t \in Safe : [ok |-> b, s |-> t] \in Outcome
BY DEF Outcome

\* What the client has not mistaken in v but in s.
Milder(v, s) == "lost" \in v.wrong => "lost" \in s.view.wrong

\* The assignments that leave the plugin pointers and the slot alone.
LEMMA FieldSafe ==
  ASSUME NEW s \in Safe
  PROVE  /\ \A b \in BOOLEAN :
              /\ [s EXCEPT !.error = b] \in Safe
              /\ [s EXCEPT !.slot_dropped = b] \in Safe
              /\ [s EXCEPT !.resetall = b] \in Safe
              /\ [s EXCEPT !.crossed = b] \in Safe
         /\ [s EXCEPT !.dropped = TRUE] \in Safe
         /\ ~s.open \/ s.view.lost = {} => [s EXCEPT !.dropped = FALSE] \in Safe
         /\ \A v \in View :
              Milder(v, s) /\ (s.open => v.slot = s.slot /\ v.lost \subseteq s.view.lost) =>
                 [s EXCEPT !.view = v] \in Safe
         /\ \A q \in Seq(DevEvent) : [s EXCEPT !.dev_events = q] \in Safe
         /\ \A d \in Rec \cup {0} : [s EXCEPT !.dest = d] \in Safe
<1>0. s \in State /\ Attached(s) /\ Heard(s)
  BY DEF Safe
<1>1. ASSUME NEW t \in State, t.open = s.open, t.src = s.src, t.domains = s.domains,
             t.slot = s.slot, t.dropped = s.dropped, t.view = s.view
      PROVE  t \in Safe
  BY <1>0, <1>1 DEF Safe, Attached, Heard
<1>2. ASSUME NEW b \in BOOLEAN
      PROVE  /\ [s EXCEPT !.error = b] \in Safe
             /\ [s EXCEPT !.slot_dropped = b] \in Safe
             /\ [s EXCEPT !.resetall = b] \in Safe
             /\ [s EXCEPT !.crossed = b] \in Safe
  <2>1. [s EXCEPT !.error = b] \in Safe
    BY <1>0, <1>1 DEF State
  <2>2. [s EXCEPT !.slot_dropped = b] \in Safe
    BY <1>0, <1>1 DEF State
  <2>3. [s EXCEPT !.resetall = b] \in Safe
    BY <1>0, <1>1 DEF State
  <2>4. [s EXCEPT !.crossed = b] \in Safe
    BY <1>0, <1>1 DEF State
  <2> QED
    BY <2>1, <2>2, <2>3, <2>4
<1>3. ASSUME NEW b \in BOOLEAN, b \/ ~s.open \/ s.view.lost = {}
      PROVE  [s EXCEPT !.dropped = b] \in Safe
  <2> DEFINE t == [s EXCEPT !.dropped = b]
  <2>1. /\ t \in State /\ t.open = s.open /\ t.src = s.src /\ t.domains = s.domains
        /\ t.slot = s.slot /\ t.dropped = b /\ t.view = s.view
    BY <1>0 DEF State
  <2> HIDE DEF t
  <2>2. Attached(t) /\ Heard(t)
    BY <1>0, <1>3, <2>1 DEF Attached, Heard
  <2>3. t \in Safe
    BY <2>1, <2>2 DEF Safe
  <2> QED
    BY <2>3 DEF t
<1>4. ASSUME NEW v \in View, Milder(v, s),
             s.open => v.slot = s.slot /\ v.lost \subseteq s.view.lost
      PROVE  [s EXCEPT !.view = v] \in Safe
  <2> DEFINE t == [s EXCEPT !.view = v]
  <2>1. /\ t \in State /\ t.open = s.open /\ t.src = s.src /\ t.domains = s.domains
        /\ t.slot = s.slot /\ t.dropped = s.dropped /\ t.view = v
    BY <1>0 DEF State
  <2> HIDE DEF t
  <2>2. Attached(t)
    BY <1>0, <2>1 DEF Attached
  <2>3. Heard(t)
    BY <1>0, <1>4, <2>1 DEF Heard, Milder
  <2>4. t \in Safe
    BY <2>1, <2>2, <2>3 DEF Safe
  <2> QED
    BY <2>4 DEF t
<1>5. ASSUME NEW q \in Seq(DevEvent)
      PROVE  [s EXCEPT !.dev_events = q] \in Safe
  BY <1>0, <1>1 DEF State
<1>6. ASSUME NEW d \in Rec \cup {0}
      PROVE  [s EXCEPT !.dest = d] \in Safe
  BY <1>0, <1>1 DEF State
<1> QED
  BY <1>2, <1>3, <1>4, <1>5, <1>6

LEMMA OutcomeSafe ==
  ASSUME NEW o \in Outcome, NEW b \in BOOLEAN
  PROVE  /\ [o EXCEPT !.s.error = b] \in Outcome
         /\ [o EXCEPT !.s.resetall = b] \in Outcome
<1>1. o.s \in Safe /\ o \in [ok : BOOLEAN, s : Safe]
  BY DEF Outcome
<1>2. /\ [o EXCEPT !.s.error = b] = [o EXCEPT !.s = [o.s EXCEPT !.error = b]]
      /\ [o EXCEPT !.s.resetall = b] = [o EXCEPT !.s = [o.s EXCEPT !.resetall = b]]
  BY <1>1
<1>3. \A t \in Safe : [o EXCEPT !.s = t] \in Outcome
  BY <1>1 DEF Outcome
<1> QED
  BY <1>1, <1>2, <1>3, FieldSafe

-----------------------------------------------------------------------------
(* Writing one record.                                                     *)

\* Records that are written: the slot of a configuration is that of a device.
Sendable(m) == m.slot \in Int /\ (m.op = "CONF" => m.slot \in DevSlots)

\* Those that are not about the events of a slot.
Silent(m) == Sendable(m) /\ m.op \in {"CONF", "RESET", "ERROR"}

LEMMA SilentView ==
  ASSUME NEW v \in View, NEW m, Silent(m)
  PROVE  LET w == Read(v, m)
         IN  w.slot = v.slot /\ w.lost = v.lost /\ w.skipped = v.skipped /\ w.wrong = v.wrong
<1>1. CASE m.op = "CONF"
  <2>1. Read(v, m) = [v EXCEPT !.devices = @ \cup {m.slot}]
    BY <1>1 DEF Read
  <2> QED
    BY <2>1 DEF View
<1>2. CASE m.op = "RESET"
  <2>1. Read(v, m) = [v EXCEPT !.devices = IF m.slot = ALL THEN {} ELSE @ \ {m.slot}]
    BY <1>2 DEF Read
  <2> QED
    BY <2>1 DEF View
<1>3. CASE m.op = "ERROR"
  BY <1>3 DEF Read
<1> QED
  BY <1>1, <1>2, <1>3 DEF Silent

LEMMA ReadView ==
  ASSUME NEW v \in View, NEW m, Sendable(m)
  PROVE  Read(v, m) \in View
<1>1. Mistakes(v, m.slot) \in SUBSET {"slot", "lost", "skipped"}
  BY DEF Mistakes
<1>2. v.slot \in Int /\ v.devices \in SUBSET DevSlots /\ v.lost \in SUBSET DevSlots
      /\ v.skipped \in SUBSET DevSlots /\ v.wrong \in SUBSET {"slot", "lost", "skipped"}
  BY DEF View
<1>3. CASE m.op = "SET"
  <2>1. Read(v, m) = [v EXCEPT !.slot = m.slot]
    BY <1>3 DEF Read
  <2> QED
    BY <2>1 DEF View, Sendable
<1>4. CASE m.op = "CONF"
  <2>1. Read(v, m) = [v EXCEPT !.devices = @ \cup {m.slot}]
    BY <1>4 DEF Read
  <2> QED
    BY <2>1, <1>2, <1>4 DEF View, Sendable
<1>5. CASE m.op = "RESET"
  <2>1. Read(v, m) = [v EXCEPT !.devices = IF m.slot = ALL THEN {} ELSE @ \ {m.slot}]
    BY <1>5 DEF Read
  <2> QED
    BY <2>1, <1>2 DEF View
<1>6. CASE m.op = "DROPPED"
  <2>1. Read(v, m) = [v EXCEPT !.lost = @ \ {v.slot}, !.skipped = @ \ {v.slot}]
    BY <1>6 DEF Read
  <2> QED
    BY <2>1, <1>2 DEF View
<1>7. CASE m.op = "EVENT"
  <2>1. Read(v, m) = [v EXCEPT !.wrong = @ \cup Mistakes(v, m.slot)]
    BY <1>7 DEF Read
  <2> QED
    BY <2>1, <1>1, <1>2 DEF View
<1>8. CASE m.op \notin {"SET", "CONF", "RESET", "DROPPED", "EVENT"}
  BY <1>8 DEF Read
<1> QED
  BY <1>3, <1>4, <1>5, <1>6, <1>7, <1>8

LEMMA NewViewType == NewView \in View
BY DEF NewView, View

\* Under the invariant no record has the plugin once its source has lost it.
LEMMA DetachSafe ==
  ASSUME NEW s \in Safe
  PROVE  /\ Detach(s) \in State
         /\ Detach(s).open = s.open /\ Heard(Detach(s))
         /\ \A r \in Rec : ~Detach(s).domains[r].plugin
<1> DEFINE doms == [r \in Rec |-> [s.domains[r] EXCEPT !.plugin = @ /\ r # s.src]]
<1>1. s \in State /\ Attached(s) /\ Heard(s) /\ s.domains \in [Rec -> DomainRec]
  BY StateFields DEF Safe
<1>2. doms \in [Rec -> DomainRec] /\ \A r \in Rec : ~doms[r].plugin
  <2>1. ASSUME NEW r \in Rec
        PROVE  doms[r] \in DomainRec /\ ~doms[r].plugin
    <3>1. s.domains[r] \in DomainRec /\ s.domains[r].plugin \in BOOLEAN
      BY <1>1, DomainFields
    <3>2. s.domains[r].plugin => r = s.src
      BY <1>1 DEF Attached
    <3>3. doms[r] = [s.domains[r] EXCEPT !.plugin = FALSE]
      BY <3>1, <3>2
    <3> QED
      BY <3>1, <3>3 DEF DomainRec
  <2> QED
    BY <2>1
<1>3. Detach(s) = [s EXCEPT !.domains = doms]
  BY DEF Detach
<1> HIDE DEF doms
<1>4. [s EXCEPT !.domains = doms] \in State
  BY <1>1, <1>2 DEF State
<1>5. [s EXCEPT !.domains = doms].domains = doms /\ [s EXCEPT !.domains = doms].open = s.open
  BY <1>1 DEF State
<1>6. Heard([s EXCEPT !.domains = doms])
  BY <1>1 DEF State, Heard
<1> QED
  BY <1>2, <1>3, <1>4, <1>5, <1>6

LEMMA KillSafe ==
  ASSUME NEW s \in Safe
  PROVE  kill_connection(s) \in Safe
<1> DEFINE t == Detach(s)
<1>1. t \in State /\ \A r \in Rec : ~t.domains[r].plugin
  BY DetachSafe
<1>2. kill_connection(s) = [t EXCEPT !.open = FALSE, !.src = NULL, !.dev_events = <<>>,
                                     !.view = NewView]
  BY DEF kill_connection
<1> HIDE DEF t
<1>3. /\ kill_connection(s) \in State /\ kill_connection(s).domains = t.domains
      /\ ~kill_connection(s).open /\ kill_connection(s).view = NewView
  BY <1>1, <1>2, NewViewType, EmptySeq DEF State
<1>4. "lost" \notin NewView.wrong
  BY DEF NewView
<1> QED
  BY <1>1, <1>3, <1>4 DEF Safe, Attached, Heard

\* A write that is not refused leaves what its reader makes of it, or nobody.
LEMMA WriteOutcome ==
  ASSUME NEW s \in Safe, NEW m, Sendable(m), NEW o \in send_to_plugin(s, m)
  PROVE  /\ o.ok \in BOOLEAN
         /\ \/ o.s = kill_connection(s) /\ ~o.s.open /\ o.s \in Safe
            \/ s.open /\ o.ok /\ o.s = [s EXCEPT !.view = Read(s.view, m)]
            \/ s.open /\ ~o.ok /\ o.s = s
<1>1. \/ \E b \in BOOLEAN : o = [ok |-> b, s |-> kill_connection(s)]
      \/ s.open /\ o = [ok |-> TRUE, s |-> [s EXCEPT !.view = Read(s.view, m)]]
      \/ s.open /\ o = [ok |-> FALSE, s |-> s]
  BY DEF send_to_plugin
<1>2. kill_connection(s) \in Safe /\ ~kill_connection(s).open
  <2>1. Detach(s) \in State
    BY DetachSafe
  <2> QED
    BY <2>1, KillSafe DEF kill_connection, State
<1>3. CASE \E b \in BOOLEAN : o = [ok |-> b, s |-> kill_connection(s)]
  BY <1>2, <1>3
<1>4. CASE s.open /\ o = [ok |-> TRUE, s |-> [s EXCEPT !.view = Read(s.view, m)]]
  BY <1>4
<1>5. CASE s.open /\ o = [ok |-> FALSE, s |-> s]
  BY <1>5
<1> QED
  BY <1>1, <1>3, <1>4, <1>5

LEMMA WriteSafe ==
  ASSUME NEW s \in Safe, NEW m, Silent(m)
  PROVE  send_to_plugin(s, m) \subseteq Outcome
<1>1. kill_connection(s) \in Safe
  BY KillSafe
<1>2. s.view \in View /\ Heard(s)
  BY StateFields DEF Safe
<1>3. [s EXCEPT !.view = Read(s.view, m)] \in Safe
  <2>1. PICK w : w = Read(s.view, m)
    OBVIOUS
  <2>2. w \in View /\ w.slot = s.view.slot /\ w.lost = s.view.lost
        /\ w.wrong = s.view.wrong
    BY <1>2, <2>1, ReadView, SilentView DEF Silent
  <2> QED
    BY <1>2, <2>1, <2>2, FieldSafe DEF Milder, Heard
<1> SUFFICES ASSUME NEW o \in send_to_plugin(s, m)
             PROVE  o \in Outcome
  OBVIOUS
<1>4. \/ \E b \in BOOLEAN : o = [ok |-> b, s |-> kill_connection(s)]
      \/ o = [ok |-> TRUE, s |-> [s EXCEPT !.view = Read(s.view, m)]]
      \/ o = [ok |-> FALSE, s |-> s]
  BY DEF send_to_plugin
<1> QED
  BY <1>1, <1>3, <1>4, OutcomeOf

LEMMA MsgSendable ==
  /\ \A op \in {"SET", "EVENT", "RESET"}, n \in Int : Sendable(Msg(op, n))
  /\ \A n \in DevSlots : Sendable(Msg("CONF", n))
  /\ Sendable(Msg("DROPPED", 0)) /\ Silent(Msg("ERROR", 0)) /\ Silent(Msg("RESET", ALL))
BY Constants DEF Msg, Sendable, Silent

LEMMA ErrorSafe ==
  ASSUME NEW s \in Safe
  PROVE  send_error(s) \subseteq Safe
<1>1. send_to_plugin(s, Msg("ERROR", 0)) \subseteq Outcome
  BY WriteSafe, MsgSendable
<1>2. \A o \in Outcome : (IF o.ok THEN o.s ELSE [o.s EXCEPT !.error = TRUE]) \in Safe
  BY OutcomeFields, FieldSafe
<1> QED
  BY <1>1, <1>2 DEF send_error

-----------------------------------------------------------------------------
(* Device configuration.                                                   *)

\* A queue keeps its length and its type when its entries are changed.
LEMMA ChangedQueue ==
  ASSUME NEW q \in Seq(DevEvent), NEW p, p \in [DOMAIN q -> DevEvent]
  PROVE  p \in Seq(DevEvent)
<1>1. Len(q) \in Nat /\ DOMAIN q = 1..Len(q)
  BY LenProperties
<1>2. Seq(DevEvent) = UNION {[1..n -> DevEvent] : n \in Nat}
  BY SeqDef
<1> QED
  BY <1>1, <1>2

LEMMA Queued ==
  ASSUME NEW q \in Seq(DevEvent)
  PROVE  /\ Len(q) \in Nat /\ DOMAIN q = 1..Len(q)
         /\ \A i \in 1..Len(q) : /\ q[i] \in DevEvent
                                /\ q[i].slot \in DevSlots
                                /\ q[i].remove \in BOOLEAN /\ q[i].add \in BOOLEAN
<1>1. Len(q) \in Nat /\ DOMAIN q = 1..Len(q) /\ q \in [1..Len(q) -> DevEvent]
  BY LenProperties
<1>2. \A i \in 1..Len(q) : q[i] \in DevEvent
  BY <1>1
<1> QED
  BY <1>1, <1>2 DEF DevEvent

LEMMA QueueConfSafe ==
  ASSUME NEW s \in Safe, NEW slot \in DevSlots
  PROVE  add_queue_dev_event_conf(s, slot) \in Safe
<1> DEFINE q == s.dev_events
           p == [i \in DOMAIN q |-> IF i \in EntriesOf(s, slot)
                                    THEN [q[i] EXCEPT !.add = TRUE] ELSE q[i]]
           x == [slot |-> slot, remove |-> FALSE, add |-> TRUE]
<1>1. q \in Seq(DevEvent)
  BY StateFields DEF Safe
<1>2. p \in [DOMAIN q -> DevEvent]
  <2>1. ASSUME NEW i \in DOMAIN q
        PROVE  p[i] \in DevEvent
    <3>1. q[i] \in DevEvent
      BY <1>1, Queued
    <3>2. [q[i] EXCEPT !.add = TRUE] \in DevEvent
      BY <3>1 DEF DevEvent
    <3> QED
      BY <3>1, <3>2
  <2> QED
    BY <2>1
<1>3. Append(q, x) \in Seq(DevEvent)
  <2>1. x \in DevEvent
    BY DEF DevEvent
  <2> QED
    BY <1>1, <2>1
<1>4. p \in Seq(DevEvent)
  BY <1>1, <1>2, ChangedQueue
<1>5. add_queue_dev_event_conf(s, slot) =
        IF EntriesOf(s, slot) # {} THEN [s EXCEPT !.dev_events = p]
                                   ELSE [s EXCEPT !.dev_events = Append(q, x)]
  BY DEF add_queue_dev_event_conf
<1> HIDE DEF p, x
<1> QED
  BY <1>3, <1>4, <1>5, FieldSafe

LEMMA QueueResetSafe ==
  ASSUME NEW s \in Safe, NEW slot \in DevSlots \cup {ALL}
  PROVE  add_queue_dev_event_reset(s, slot) \in Safe
<1> DEFINE q == s.dev_events
           p == [i \in DOMAIN q |-> IF i \notin EntriesOf(s, slot) THEN q[i]
                                    ELSE IF q[i].add THEN [q[i] EXCEPT !.add = FALSE]
                                    ELSE [q[i] EXCEPT !.remove = TRUE]]
           x == [slot |-> slot, remove |-> TRUE, add |-> FALSE]
<1>1. q \in Seq(DevEvent)
  BY StateFields DEF Safe
<1>2. p \in [DOMAIN q -> DevEvent]
  <2>1. ASSUME NEW i \in DOMAIN q
        PROVE  p[i] \in DevEvent
    <3>1. q[i] \in DevEvent
      BY <1>1, Queued
    <3>2. [q[i] EXCEPT !.add = FALSE] \in DevEvent
      BY <3>1 DEF DevEvent
    <3>3. [q[i] EXCEPT !.remove = TRUE] \in DevEvent
      BY <3>1 DEF DevEvent
    <3> QED
      BY <3>1, <3>2, <3>3
  <2> QED
    BY <2>1
<1>3. slot # ALL => Append(q, x) \in Seq(DevEvent)
  <2>1. slot # ALL => x \in DevEvent
    BY DEF DevEvent
  <2> QED
    BY <1>1, <2>1
<1>4. [s EXCEPT !.resetall = TRUE] \in Safe
  BY FieldSafe
<1>5. add_queue_dev_event_reset(s, slot) =
        IF slot = ALL THEN [s EXCEPT !.resetall = TRUE]
        ELSE IF EntriesOf(s, slot) # {} THEN [s EXCEPT !.dev_events = p]
                                        ELSE [s EXCEPT !.dev_events = Append(q, x)]
  BY DEF add_queue_dev_event_reset
<1> HIDE DEF p, x
<1>6. p \in Seq(DevEvent)
  BY <1>1, <1>2, ChangedQueue
<1>7. CASE slot = ALL
  BY <1>4, <1>5, <1>7
<1>8. CASE slot # ALL
  <2>1. [s EXCEPT !.dev_events = p] \in Safe
    BY <1>6, FieldSafe
  <2>2. [s EXCEPT !.dev_events = Append(q, x)] \in Safe
    BY <1>3, <1>8, FieldSafe
  <2> QED
    BY <1>5, <1>8, <2>1, <2>2
<1> QED
  BY <1>7, <1>8

LEMMA RequeueSafe ==
  ASSUME NEW s \in Safe, NEW code, NEW slot \in DevSlots \cup {ALL},
         code = "CONF" => slot \in DevSlots
  PROVE  Requeue(s, code, slot) \in Safe
BY QueueConfSafe, QueueResetSafe DEF Requeue

\* A part of the queue that has been written changes what the client knows.
LEMMA WrittenSafe ==
  ASSUME NEW s \in Safe, NEW I \in SUBSET (1..Len(s.dev_events))
  PROVE  Written(s, I) \in Safe /\ Written(s, I).dev_events = s.dev_events
<1>1. s \in State /\ s.view \in View /\ s.dev_events \in Seq(DevEvent)
  BY StateFields DEF Safe
<1>2. s.view.devices \in SUBSET DevSlots
  BY <1>1 DEF View
<1>3. \A i \in I : s.dev_events[i].slot \in DevSlots
  BY <1>1, Queued
<1>4. Devices(s, I) \in SUBSET DevSlots
  BY <1>2, <1>3 DEF Devices
<1>5. [s.view EXCEPT !.devices = Devices(s, I)] \in View
      /\ [s.view EXCEPT !.devices = Devices(s, I)].slot = s.view.slot
      /\ [s.view EXCEPT !.devices = Devices(s, I)].lost = s.view.lost
      /\ [s.view EXCEPT !.devices = Devices(s, I)].wrong = s.view.wrong
  BY <1>1, <1>4 DEF View
<1>6. Written(s, I) = [s EXCEPT !.view = [s.view EXCEPT !.devices = Devices(s, I)]]
  BY <1>1 DEF State, Written
<1>7. Written(s, I).dev_events = s.dev_events
  BY <1>1 DEF State, Written
<1>8. s.open => s.view.slot = s.slot
  BY DEF Safe, Heard
<1> QED
  BY <1>5, <1>6, <1>7, <1>8, FieldSafe DEF Milder

LEMMA StoppedSafe ==
  ASSUME NEW s \in Safe, NEW j \in 1..Len(s.dev_events), NEW half \in BOOLEAN
  PROVE  Stopped(s, j, half) \in Safe
<1> DEFINE q == s.dev_events
           V == Written(s, (j + 1)..Len(q))
           known == V.view.devices \ {q[j].slot}
           rest == Append(SubSeq(q, 1, j - 1), [q[j] EXCEPT !.remove = FALSE])
<1>1. q \in Seq(DevEvent) /\ Len(q) \in Nat /\ \A i \in 1..Len(q) : q[i] \in DevEvent
  BY StateFields, Queued DEF Safe
<1>2. V \in Safe /\ V.dev_events = q
  <2>1. (j + 1)..Len(q) \in SUBSET (1..Len(q))
    BY <1>1
  <2> QED
    BY <2>1, WrittenSafe
<1>3. SubSeq(q, 1, j) \in Seq(DevEvent)
  BY <1>1, SubSeqProperties
<1>4. rest \in Seq(DevEvent)
  <2>1. SubSeq(q, 1, j - 1) \in Seq(DevEvent)
    BY <1>1, SubSeqProperties
  <2>2. [q[j] EXCEPT !.remove = FALSE] \in DevEvent
    BY <1>1 DEF DevEvent
  <2> QED
    BY <2>1, <2>2
<1>5. V \in State /\ V.view \in View /\ Heard(V)
  BY <1>2, StateFields DEF Safe
<1>6. /\ [V.view EXCEPT !.devices = known] \in View
      /\ [V.view EXCEPT !.devices = known].slot = V.view.slot
      /\ [V.view EXCEPT !.devices = known].lost = V.view.lost
      /\ [V.view EXCEPT !.devices = known].wrong = V.view.wrong
  BY <1>5 DEF View
<1>7. CASE ~half
  <2>1. Stopped(s, j, half) = [V EXCEPT !.dev_events = SubSeq(q, 1, j)]
    BY <1>2, <1>7 DEF Stopped
  <2> HIDE DEF V, q
  <2> QED
    BY <1>2, <1>3, <2>1, FieldSafe
<1>8. CASE half
  <2>1. Stopped(s, j, half) = [V EXCEPT !.view.devices = known, !.dev_events = rest]
    BY <1>2, <1>8 DEF Stopped
  <2> DEFINE known_view == [V.view EXCEPT !.devices = known]
  <2>2. [V EXCEPT !.view.devices = known, !.dev_events = rest]
          = [[V EXCEPT !.view = known_view] EXCEPT !.dev_events = rest]
    <3> HIDE DEF V, known, rest
    <3> QED
      BY <1>5 DEF State
  <2> HIDE DEF V, q, known, rest, known_view
  <2>3. [V EXCEPT !.view = known_view] \in Safe
    BY <1>2, <1>5, <1>6, FieldSafe DEF known_view, Milder, Heard
  <2>4. [[V EXCEPT !.view = known_view] EXCEPT !.dev_events = rest] \in Safe
    BY <1>4, <2>3, FieldSafe
  <2> QED
    BY <2>1, <2>2, <2>4
<1> QED
  BY <1>7, <1>8

LEMMA FlushSafe ==
  ASSUME NEW s \in Safe
  PROVE  flush_queued_dev_events(s) \subseteq Outcome
<1> DEFINE n == Len(s.dev_events)
           V == Written(s, 1..n)
           Done == [V EXCEPT !.dev_events = <<>>]
<1>1. V \in Safe
  BY WrittenSafe
<1>2. Done \in Safe
  <2> HIDE DEF V
  <2> QED
    BY <1>1, EmptySeq, FieldSafe
<1>3. \A j \in 1..n, half \in BOOLEAN : Stopped(s, j, half) \in Safe
  BY StoppedSafe
<1>4. kill_connection(s) \in Safe
  BY KillSafe
<1> SUFFICES ASSUME NEW o \in flush_queued_dev_events(s)
             PROVE  o \in Outcome
  OBVIOUS
<1>5. \/ o = [ok |-> TRUE, s |-> s]
      \/ \E b \in BOOLEAN : o = [ok |-> b, s |-> kill_connection(s)]
      \/ o = [ok |-> TRUE, s |-> Done]
      \/ \E j \in 1..n, half \in BOOLEAN : o = [ok |-> FALSE, s |-> Stopped(s, j, half)]
  BY DEF flush_queued_dev_events
<1> HIDE DEF Done, n
<1> QED
  BY <1>2, <1>3, <1>4, <1>5, OutcomeOf

\* The codes that send_plugin_dev_event is called with.
Code(code, slot) ==
    \/ code = "CONF" /\ slot \in DevSlots
    \/ code = "RESET" /\ slot \in DevSlots \cup {ALL}

LEMMA WriteDevEventSafe ==
  ASSUME NEW s \in Safe, NEW code, NEW slot \in DevSlots \cup {ALL},
         NEW m, Silent(m)
  PROVE  WriteDevEvent(s, code, slot, m) \subseteq Outcome
<1>1. [s EXCEPT !.dev_events = <<>>] \in Safe
  BY EmptySeq, FieldSafe
<1>2. send_to_plugin([s EXCEPT !.dev_events = <<>>], m) \subseteq Outcome
  BY <1>1, WriteSafe
<1>3. \A o \in flush_queued_dev_events(s) :
        (IF o.ok THEN send_to_plugin(o.s, m) ELSE {o}) \subseteq Outcome
  <2> TAKE o \in flush_queued_dev_events(s)
  <2>1. o \in Outcome /\ o.s \in Safe
    BY FlushSafe, OutcomeFields
  <2>2. send_to_plugin(o.s, m) \subseteq Outcome
    BY <2>1, WriteSafe
  <2> QED
    BY <2>1, <2>2
<1> QED
  BY <1>2, <1>3 DEF WriteDevEvent

LEMMA DevEventSafe ==
  ASSUME NEW s \in Safe, NEW code, NEW slot, Code(code, slot)
  PROVE  send_plugin_dev_event(s, code, slot) \subseteq Safe
<1> DEFINE Alone(t) ==
             {IF o.ok THEN o.s ELSE Requeue(o.s, code, slot) :
                o \in WriteDevEvent(t, code, slot, Msg(code, slot))}
           First(o) == IF o.ok THEN Alone([o.s EXCEPT !.resetall = FALSE])
                               ELSE {Requeue(o.s, code, slot)}
           Resets == WriteDevEvent(s, code, slot, Msg("RESET", ALL))
<1>1. slot \in DevSlots \cup {ALL} /\ (code = "CONF" => slot \in DevSlots)
  BY DEF Code
<1>2. Silent(Msg(code, slot)) /\ Silent(Msg("RESET", ALL))
  <2>1. slot \in Int /\ ALL \in Int
    BY <1>1, Constants
  <2>2. Msg(code, slot).op = code /\ Msg(code, slot).slot = slot
        /\ Msg("RESET", ALL).op = "RESET" /\ Msg("RESET", ALL).slot = ALL
    BY DEF Msg
  <2> QED
    BY <1>1, <2>1, <2>2 DEF Sendable, Silent, Code
<1>3. \A t \in Safe : Requeue(t, code, slot) \in Safe
  BY <1>1, RequeueSafe
<1>4. ASSUME NEW t \in Safe
      PROVE  Alone(t) \subseteq Safe
  <2>1. WriteDevEvent(t, code, slot, Msg(code, slot)) \subseteq Outcome
    BY <1>1, <1>2, WriteDevEventSafe
  <2>2. \A o \in Outcome : o.s \in Safe /\ Requeue(o.s, code, slot) \in Safe
    BY <1>3, OutcomeFields
  <2> QED
    BY <2>1, <2>2
<1> HIDE DEF Alone
<1>5. \A o \in Resets : First(o) \subseteq Safe
  <2> TAKE o \in Resets
  <2>1. o \in Outcome /\ o.s \in Safe
    BY <1>1, <1>2, WriteDevEventSafe, OutcomeFields
  <2>2. [o.s EXCEPT !.resetall = FALSE] \in Safe
    BY <2>1, FieldSafe
  <2> QED
    BY <1>3, <1>4, <2>1, <2>2
<1>6. send_plugin_dev_event(s, code, slot) =
        IF ~s.resetall THEN Alone(s) ELSE UNION {First(o) : o \in Resets}
  BY DEF send_plugin_dev_event, Alone
<1> HIDE DEF First, Resets
<1> QED
  BY <1>4, <1>5, <1>6

-----------------------------------------------------------------------------
(* The configuration of every device.                                      *)

Lt == {ss \in Nat \X Nat : ss[1] < ss[2]}

LEMMA LtWellFounded == IsWellFoundedOn(Lt, Nat)
BY NatLessThanWellFounded, Zenon DEF OpToRel, Lt

\* A set of numbers that is not empty has a least one.
LEMMA Least ==
  ASSUME NEW S \in SUBSET Nat, S # {}
  PROVE  \E n \in S : \A k \in S : n <= k
<1>1. \E n \in S : \A k \in S : ~ (<<k, n>> \in Lt)
  BY LtWellFounded, WFMin
<1>2. ASSUME NEW a \in Nat, NEW b \in Nat, ~ (<<a, b>> \in Lt)
      PROVE  b <= a
  <2>1. a < b => <<a, b>> \in Lt
    <3>1. <<a, b>> \in Nat \X Nat /\ <<a, b>>[1] = a /\ <<a, b>>[2] = b
      OBVIOUS
    <3> QED
      BY <3>1, Zenon DEF Lt
  <2> QED
    BY <1>2, <2>1
<1> QED
  BY <1>1, <1>2

\* One turn of the loop of sock_plugin_sendconfig, from the states T.
Turn(s, n, T) ==
    IF n = 0 THEN send_plugin_dev_event(s, "RESET", ALL)
    ELSE UNION {IF s.types[n - 1] = "POINTER"
                THEN send_plugin_dev_event(t, "CONF", n - 1) ELSE {t} : t \in T}

\* The states after each turn of the first k.
Turns(s, k, f) == f = [n \in 0..k |-> Turn(s, n, f[n - 1])]

LEMMA TurnsExist ==
  ASSUME NEW s
  PROVE  \A k \in Nat : \E f : Turns(s, k, f)
<1> DEFINE Bad == {k \in Nat : ~ \E f : Turns(s, k, f)}
<1> SUFFICES ASSUME Bad # {}
             PROVE  FALSE
  OBVIOUS
<1>1. PICK k \in Bad : \A i \in Bad : k <= i
  BY Least
<1>2. k \in Nat /\ ~ \E f : Turns(s, k, f)
  OBVIOUS
<1>3. CASE k = 0
  <2> DEFINE f == [n \in 0..0 |-> Turn(s, 0, {})]
  <2>1. \A n \in 0..0 : Turn(s, n, f[n - 1]) = Turn(s, 0, {})
    BY DEF Turn
  <2>2. f = [n \in 0..0 |-> Turn(s, n, f[n - 1])]
    <3> HIDE DEF Turn
    <3> QED
      BY <2>1
  <2>3. Turns(s, k, f)
    BY <1>3, <2>2 DEF Turns
  <2> QED
    BY <1>2, <2>3
<1>4. CASE k # 0
  <2>1. k - 1 \in Nat /\ k - 1 \notin Bad
    BY <1>1, <1>2, <1>4
  <2>2. PICK g : Turns(s, k - 1, g)
    BY <2>1
  <2> DEFINE f == [n \in 0..k |-> IF n = k THEN Turn(s, k, g[k - 1]) ELSE g[n]]
  <2>3. g = [n \in 0..(k - 1) |-> Turn(s, n, g[n - 1])]
    BY <2>2 DEF Turns
  <2>4. \A n \in 0..(k - 1) : f[n] = g[n]
    BY <1>2
  <2>5. \A n \in 0..k : f[n] = Turn(s, n, f[n - 1])
    <3> TAKE n \in 0..k
    <3>1. CASE n = k
      <4>1. f[n - 1] = g[k - 1]
        BY <2>1, <2>4, <3>1
      <4> QED
        BY <3>1, <4>1
    <3>2. CASE n # k /\ n # 0
      <4>1. f[n] = g[n] /\ f[n - 1] = g[n - 1]
        BY <1>2, <2>4, <3>2
      <4>2. g[n] = Turn(s, n, g[n - 1])
        BY <1>2, <2>3, <3>2
      <4> QED
        BY <4>1, <4>2
    <3>3. CASE n # k /\ n = 0
      <4>1. f[n] = g[n]
        BY <1>2, <2>4, <3>3
      <4>2. g[n] = Turn(s, n, g[n - 1])
        BY <1>2, <2>3, <3>3
      <4>3. Turn(s, n, g[n - 1]) = Turn(s, n, f[n - 1])
        BY <3>3 DEF Turn
      <4> QED
        BY <4>1, <4>2, <4>3
    <3> QED
      BY <3>1, <3>2, <3>3
  <2>6. f = [n \in 0..k |-> f[n]]
    OBVIOUS
  <2> HIDE DEF f
  <2>7. Turns(s, k, f)
    BY <2>5, <2>6 DEF Turns
  <2> QED
    BY <1>2, <2>7
<1> QED
  BY <1>3, <1>4

LEMMA SendConfigSafe ==
  ASSUME NEW s \in Safe
  PROVE  sock_plugin_sendconfig(s) \subseteq Safe
<1> DEFINE f == CHOOSE f : Turns(s, N_DEVS, f)
<1>1. N_DEVS \in Nat
  BY PluginAssumption
<1>2. Turns(s, N_DEVS, f)
  BY <1>1, TurnsExist
<1>3. sock_plugin_sendconfig(s) = f[N_DEVS]
  BY DEF sock_plugin_sendconfig, Turns, Turn
<1> HIDE DEF f
<1>4. \A n \in 0..N_DEVS : f[n] = Turn(s, n, f[n - 1])
  BY <1>2 DEF Turns
<1> DEFINE Bad == {n \in 0..N_DEVS : ~ (f[n] \subseteq Safe)}
<1>5. SUFFICES ASSUME Bad # {}
               PROVE  FALSE
  BY <1>1, <1>3
<1>6. PICK n \in Bad : \A i \in Bad : n <= i
  <2>1. Bad \in SUBSET Nat
    BY <1>1
  <2> HIDE DEF Bad
  <2> QED
    BY <1>5, <2>1, Least
<1>7. n \in 0..N_DEVS /\ ~ (f[n] \subseteq Safe)
  OBVIOUS
<1>8. CASE n = 0
  <2>1. send_plugin_dev_event(s, "RESET", ALL) \subseteq Safe
    BY DevEventSafe DEF Code
  <2> QED
    BY <1>4, <1>7, <1>8, <2>1 DEF Turn
<1>9. CASE n # 0
  <2>1. n - 1 \in DevSlots /\ n - 1 \in 0..N_DEVS
    BY <1>1, <1>7, <1>9 DEF DevSlots
  <2>2. f[n - 1] \subseteq Safe
    BY <1>1, <1>6, <1>7, <2>1
  <2>3. \A t \in Safe : send_plugin_dev_event(t, "CONF", n - 1) \subseteq Safe
    BY <2>1, DevEventSafe DEF Code
  <2>4. Turn(s, n, f[n - 1]) \subseteq Safe
    BY <1>9, <2>2, <2>3 DEF Turn
  <2> QED
    BY <1>4, <1>7, <2>4
<1> QED
  BY <1>8, <1>9

-----------------------------------------------------------------------------
(* Events to the plugin.                                                   *)

\* A loss that has been reported is known to the client.
LEMMA ReportSafe ==
  ASSUME NEW s \in Safe, NEW o \in ReportDropped(s)
  PROVE  o \in Outcome /\ (IF o.ok THEN ~o.s.open \/ ~o.s.dropped ELSE o.s.dropped)
<1>0. s \in State /\ s.view \in View /\ Heard(s)
  BY StateFields DEF Safe
<1>1. CASE ~s.dropped
  <2>1. o = [ok |-> TRUE, s |-> s]
    BY <1>1 DEF ReportDropped
  <2> QED
    BY <1>1, <2>1, OutcomeOf
<1>2. CASE s.dropped
  <2>1. PICK w \in send_to_plugin(s, Msg("DROPPED", 0)) :
           o = [w EXCEPT !.s.dropped = ~w.ok]
    BY <1>2 DEF ReportDropped
  <2> DEFINE v == Read(s.view, Msg("DROPPED", 0))
             told == [s EXCEPT !.view = v]
  <2>2. v = [s.view EXCEPT !.lost = @ \ {s.view.slot}, !.skipped = @ \ {s.view.slot}]
    BY DEF Read, Msg
  <2>3. v \in View /\ v.slot = s.view.slot /\ v.lost = s.view.lost \ {s.view.slot}
        /\ v.wrong = s.view.wrong
    BY <1>0, <2>2 DEF View
  <2>4. s.open => v.slot = s.slot /\ v.lost = {} /\ v.lost \subseteq s.view.lost
    BY <1>0, <2>3 DEF Heard
  <2> HIDE DEF v
  <2>5. told \in Safe /\ told.open = s.open /\ told.view.lost = v.lost
    BY <1>0, <2>3, <2>4, FieldSafe DEF State, Milder
  <2> HIDE DEF told
  <2>6. /\ w.ok \in BOOLEAN
        /\ \/ w.s = kill_connection(s) /\ ~w.s.open /\ w.s \in Safe
           \/ s.open /\ w.ok /\ w.s = told
           \/ s.open /\ ~w.ok /\ w.s = s
    BY MsgSendable, WriteOutcome DEF told, v
  <2>7. w.s \in Safe /\ w.s \in State /\ w = [ok |-> w.ok, s |-> w.s]
        /\ (w.ok => ~w.s.open \/ w.s.view.lost = {})
    <3>1. w = [ok |-> w.ok, s |-> w.s]
      BY DEF send_to_plugin
    <3> QED
      BY <2>4, <2>5, <2>6, <3>1 DEF Safe
  <2>8. o = [ok |-> w.ok, s |-> [w.s EXCEPT !.dropped = ~w.ok]]
    BY <2>1, <2>7
  <2>9. [w.s EXCEPT !.dropped = ~w.ok] \in Safe
    <3>1. CASE w.ok
      <4>1. [w.s EXCEPT !.dropped = FALSE] \in Safe
        BY <2>7, <3>1, FieldSafe
      <4> QED
        BY <3>1, <4>1
    <3>2. CASE ~w.ok
      <4>1. [w.s EXCEPT !.dropped = TRUE] \in Safe
        BY <2>7, FieldSafe
      <4>2. ~w.ok = TRUE
        BY <2>6, <3>2
      <4> QED
        BY <4>1, <4>2
    <3> QED
      BY <3>1, <3>2
  <2>10. [w.s EXCEPT !.dropped = ~w.ok].dropped = ~w.ok
    BY <2>7 DEF State
  <2> QED
    BY <2>6, <2>8, <2>9, <2>10, OutcomeOf
<1> QED
  BY <1>0, <1>1, <1>2, StateFields

\* A slot is announced when no loss of the old one waits to be reported.
LEMMA SendSlotSafe ==
  ASSUME NEW s \in Safe, NEW slot \in DevSlots
  PROVE  send_slot(s, slot) \subseteq Safe
<1> DEFINE Told(t) == [t EXCEPT !.slot = slot, !.dropped = t.slot_dropped,
                                !.slot_dropped = FALSE]
           Not(t) == [t EXCEPT !.slot_dropped = TRUE]
           Set(o) == {IF p.ok THEN Told(p.s) ELSE Not(p.s) :
                        p \in send_to_plugin(o.s, Msg("SET", slot))}
<1>1. ASSUME NEW t \in State, Attached(t), "lost" \notin t.view.wrong,
             t.open => t.view.slot = slot /\ t.view.lost = {}
      PROVE  Told(t) \in Safe
  <2>1. slot \in Int /\ t.slot_dropped \in BOOLEAN
    BY Constants, StateFields
  <2>2. /\ Told(t) \in State /\ Told(t).open = t.open /\ Told(t).src = t.src
        /\ Told(t).domains = t.domains /\ Told(t).slot = slot /\ Told(t).view = t.view
    BY <2>1 DEF State
  <2> HIDE DEF Told
  <2> QED
    BY <1>1, <2>2 DEF Safe, Attached, Heard
<1>2. \A t \in Safe : Not(t) \in Safe
  BY FieldSafe
<1>3. send_slot(s, slot) =
        UNION {IF ~o.ok THEN {Not(o.s)} ELSE Set(o) : o \in ReportDropped(s)}
  BY DEF send_slot, Told, Not
<1> HIDE DEF Told, Not
<1>4. ASSUME NEW o \in ReportDropped(s), o.ok
      PROVE  Set(o) \subseteq Safe
  <2>1. o.s \in Safe /\ (~o.s.open \/ ~o.s.dropped)
    BY <1>4, ReportSafe, OutcomeFields
  <2>2. o.s \in State /\ o.s.view \in View /\ Attached(o.s) /\ Heard(o.s)
    BY <2>1, StateFields DEF Safe
  <2> SUFFICES ASSUME NEW p \in send_to_plugin(o.s, Msg("SET", slot))
               PROVE  (IF p.ok THEN Told(p.s) ELSE Not(p.s)) \in Safe
    OBVIOUS
  <2> DEFINE v == Read(o.s.view, Msg("SET", slot))
             told == [o.s EXCEPT !.view = v]
  <2>3. v = [o.s.view EXCEPT !.slot = slot]
    BY DEF Read, Msg
  <2>4. v \in View /\ v.slot = slot /\ v.lost = o.s.view.lost /\ v.wrong = o.s.view.wrong
    BY <2>2, <2>3, Constants DEF View
  <2> HIDE DEF v
  <2>5. /\ told \in State /\ told.open = o.s.open /\ told.src = o.s.src
        /\ told.domains = o.s.domains /\ told.view = v
    BY <2>2, <2>4 DEF State
  <2> HIDE DEF told
  <2>6. Sendable(Msg("SET", slot))
    BY Constants, MsgSendable
  <2>7. /\ p.ok \in BOOLEAN
        /\ \/ p.s = kill_connection(o.s) /\ ~p.s.open /\ p.s \in Safe
           \/ o.s.open /\ p.ok /\ p.s = told
           \/ o.s.open /\ ~p.ok /\ p.s = o.s
    BY <2>1, <2>6, WriteOutcome DEF told, v
  <2>8. CASE p.s = kill_connection(o.s) /\ ~p.s.open /\ p.s \in Safe
    <3>1. Told(p.s) \in Safe
      BY <1>1, <2>8 DEF Safe, Heard
    <3> QED
      BY <1>2, <2>8, <3>1
  <2>9. CASE o.s.open /\ p.ok /\ p.s = told
    <3>1. "lost" \notin told.view.wrong /\ told.view.slot = slot /\ told.view.lost = {}
      BY <2>1, <2>2, <2>4, <2>5, <2>9 DEF Heard
    <3>2. Attached(told)
      BY <2>2, <2>5 DEF Attached
    <3>3. Told(told) \in Safe
      BY <1>1, <2>5, <3>1, <3>2
    <3> QED
      BY <2>9, <3>3
  <2>10. CASE o.s.open /\ ~p.ok /\ p.s = o.s
    BY <1>2, <2>1, <2>10
  <2> QED
    BY <2>7, <2>8, <2>9, <2>10
<1> HIDE DEF Set
<1>5. \A o \in ReportDropped(s) : (IF ~o.ok THEN {Not(o.s)} ELSE Set(o)) \subseteq Safe
  BY <1>2, <1>4, ReportSafe, OutcomeFields
<1> QED
  BY <1>3, <1>5

LEMMA BacklogSafe ==
  ASSUME NEW s \in Safe
  PROVE  Backlog(s) \subseteq Outcome
<1> DEFINE Errors == IF s.error
                     THEN {[o EXCEPT !.s.error = ~o.ok] :
                             o \in send_to_plugin(s, Msg("ERROR", 0))}
                     ELSE {[ok |-> TRUE, s |-> s]}
           Resets(t) == IF t.resetall
                        THEN {[o EXCEPT !.s.resetall = ~o.ok] :
                                o \in send_to_plugin(t, Msg("RESET", ALL))}
                        ELSE {[ok |-> TRUE, s |-> t]}
           Flush(o) == UNION {IF p.ok THEN flush_queued_dev_events(p.s) ELSE {p} :
                                p \in Resets(o.s)}
<1>1. Errors \subseteq Outcome
  <2>1. send_to_plugin(s, Msg("ERROR", 0)) \subseteq Outcome
    BY MsgSendable, WriteSafe
  <2>2. \A o \in Outcome : [o EXCEPT !.s.error = ~o.ok] \in Outcome
    BY OutcomeSafe, OutcomeFields
  <2> QED
    BY <2>1, <2>2, OutcomeOf
<1>2. ASSUME NEW t \in Safe
      PROVE  Resets(t) \subseteq Outcome
  <2>1. send_to_plugin(t, Msg("RESET", ALL)) \subseteq Outcome
    BY Constants, MsgSendable, WriteSafe
  <2>2. \A o \in Outcome : [o EXCEPT !.s.resetall = ~o.ok] \in Outcome
    BY OutcomeSafe, OutcomeFields
  <2> QED
    BY <2>1, <2>2, OutcomeOf
<1>3. Backlog(s) = UNION {IF ~o.ok THEN {o} ELSE Flush(o) : o \in Errors}
  BY DEF Backlog
<1> HIDE DEF Errors, Resets
<1>4. ASSUME NEW o \in Outcome
      PROVE  Flush(o) \subseteq Outcome
  <2>1. Resets(o.s) \subseteq Outcome
    BY <1>2, OutcomeFields
  <2>2. \A p \in Outcome : flush_queued_dev_events(p.s) \subseteq Outcome
    BY FlushSafe, OutcomeFields
  <2> QED
    BY <2>1, <2>2
<1> HIDE DEF Flush
<1> QED
  BY <1>1, <1>3, <1>4

LEMMA LoseSafe ==
  ASSUME NEW s \in Safe, NEW slot \in DevSlots, s.slot = slot => s.dropped
  PROVE  Lose(s, slot) \in Safe
<1>1. s \in State /\ s.view \in View /\ Attached(s) /\ Heard(s)
  BY StateFields DEF Safe
<1> DEFINE a == [s.view EXCEPT !.lost = @ \cup {slot}]
           b == [s.view EXCEPT !.skipped = @ \cup {slot}]
<1>2. /\ a \in View /\ a.slot = s.view.slot /\ a.lost = s.view.lost \cup {slot}
      /\ a.wrong = s.view.wrong
      /\ b \in View /\ b.slot = s.view.slot /\ b.lost = s.view.lost /\ b.wrong = s.view.wrong
  BY <1>1 DEF View
<1>3. /\ [s EXCEPT !.view.lost = @ \cup {slot}] = [s EXCEPT !.view = a]
      /\ [s EXCEPT !.view.skipped = @ \cup {slot}] = [s EXCEPT !.view = b]
  BY <1>1 DEF State
<1>4. Lose(s, slot) = IF s.slot = slot THEN [s EXCEPT !.view = a] ELSE [s EXCEPT !.view = b]
  BY <1>3 DEF Lose
<1> HIDE DEF a, b
<1>5. s.slot = slot => [s EXCEPT !.view = a] \in Safe
  <2> SUFFICES ASSUME s.slot = slot
               PROVE  [s EXCEPT !.view = a] \in Safe
    OBVIOUS
  <2> DEFINE t == [s EXCEPT !.view = a]
  <2>1. /\ t \in State /\ t.open = s.open /\ t.src = s.src /\ t.domains = s.domains
        /\ t.slot = s.slot /\ t.dropped = s.dropped /\ t.view = a
    BY <1>1, <1>2 DEF State
  <2> HIDE DEF t
  <2>2. Attached(t) /\ Heard(t)
    BY <1>1, <1>2, <2>1 DEF Attached, Heard
  <2>3. t \in Safe
    BY <2>1, <2>2 DEF Safe
  <2> QED
    BY <2>3 DEF t
<1>6. [s EXCEPT !.view = b] \in Safe
  BY <1>1, <1>2, FieldSafe DEF Milder, Heard
<1> QED
  BY <1>4, <1>5, <1>6

\* No event is written while a loss under the announced slot is unreported.
LEMMA EventWritten ==
  ASSUME NEW s \in Safe, ~s.open \/ ~s.dropped, NEW slot \in DevSlots,
         NEW o \in send_to_plugin(s, Msg("EVENT", slot))
  PROVE  /\ o.ok \in BOOLEAN /\ o.s \in Safe
         /\ Lose([o.s EXCEPT !.dropped = TRUE], slot) \in Safe
<1>1. s \in State /\ s.view \in View /\ Heard(s)
  BY StateFields DEF Safe
<1> DEFINE v == Read(s.view, Msg("EVENT", slot))
<1>2. v = [s.view EXCEPT !.wrong = @ \cup Mistakes(s.view, slot)]
  BY DEF Read, Msg
<1>3. Mistakes(s.view, slot) \in SUBSET {"slot", "lost", "skipped"}
      /\ (s.open => "lost" \notin Mistakes(s.view, slot))
  BY <1>1 DEF Mistakes, Heard
<1>4. v \in View /\ v.slot = s.view.slot /\ v.lost = s.view.lost
      /\ (s.open => "lost" \notin v.wrong)
  BY <1>1, <1>2, <1>3 DEF View, Heard
<1> HIDE DEF v
<1>5. s.open => [s EXCEPT !.view = v] \in Safe
  BY <1>1, <1>4, FieldSafe DEF Milder, Heard
<1>6. Sendable(Msg("EVENT", slot))
  BY Constants, MsgSendable
<1>7. o.ok \in BOOLEAN /\ o.s \in Safe
  BY <1>5, <1>6, WriteOutcome DEF v
<1>8. [o.s EXCEPT !.dropped = TRUE] \in Safe /\ [o.s EXCEPT !.dropped = TRUE].dropped
  <2>1. o.s \in State
    BY <1>7 DEF Safe
  <2> QED
    BY <1>7, <2>1, FieldSafe DEF State
<1> QED
  BY <1>7, <1>8, LoseSafe

LEMMA EventSafe ==
  ASSUME NEW s \in Safe, NEW slot \in DevSlots
  PROVE  send_plugin_event(s, slot) \subseteq Safe
<1> DEFINE Cannot(t) == IF t.slot # slot THEN [t EXCEPT !.slot_dropped = TRUE]
                                         ELSE [t EXCEPT !.dropped = TRUE]
           Announced(t) == IF t.slot # slot THEN send_slot(t, slot) ELSE {t}
           Write(t) == {IF o.ok THEN o.s ELSE Lose([o.s EXCEPT !.dropped = TRUE], slot) :
                          o \in send_to_plugin(t, Msg("EVENT", slot))}
           Reported(t) == UNION {IF o.ok THEN Write(o.s) ELSE {Lose(o.s, slot)} :
                                   o \in ReportDropped(t)}
           Sent(t) == UNION {Reported(u) : u \in Announced(t)}
<1>1. ASSUME NEW t \in Safe
      PROVE  Lose(Cannot(t), slot) \in Safe
  <2>1. t \in State /\ [t EXCEPT !.dropped = TRUE] \in Safe
        /\ [t EXCEPT !.slot_dropped = TRUE] \in Safe
    BY FieldSafe DEF Safe
  <2>2. [t EXCEPT !.dropped = TRUE].dropped /\ [t EXCEPT !.slot_dropped = TRUE].slot = t.slot
    BY <2>1 DEF State
  <2> QED
    BY <2>1, <2>2, LoseSafe
<1>2. \A t \in Safe : Announced(t) \subseteq Safe
  BY SendSlotSafe
<1>3. \A t \in Safe : ~t.open \/ ~t.dropped => Write(t) \subseteq Safe
  BY EventWritten
<1>4. send_plugin_event(s, slot) =
        UNION {IF o.ok THEN Sent(o.s) ELSE {Lose(Cannot(o.s), slot)} : o \in Backlog(s)}
  BY DEF send_plugin_event
<1> HIDE DEF Cannot, Announced, Write
<1>5. ASSUME NEW t \in Safe
      PROVE  Reported(t) \subseteq Safe
  <2>1. \A o \in ReportDropped(t) :
           (IF o.ok THEN Write(o.s) ELSE {Lose(o.s, slot)}) \subseteq Safe
    BY <1>3, ReportSafe, LoseSafe, OutcomeFields
  <2> QED
    BY <2>1
<1> HIDE DEF Reported
<1>6. \A t \in Safe : Sent(t) \subseteq Safe
  BY <1>2, <1>5
<1> HIDE DEF Sent
<1>7. \A o \in Outcome : Sent(o.s) \subseteq Safe /\ Lose(Cannot(o.s), slot) \in Safe
  BY <1>1, <1>6, OutcomeFields
<1> QED
  BY <1>4, <1>7, BacklogSafe

-----------------------------------------------------------------------------
(* The handlers.                                                           *)

\* A record found by its domid is one of the table.
LEMMA LookupInTable ==
  ASSUME NEW s, NEW id
  PROVE  LET d == domain_with_domid(s, id) IN d # NULL => d \in Live(s)
<1> DEFINE R == {r \in Live(s) : s.domains[r].domid = id}
<1>1. CASE R = {}
  BY <1>1 DEF domain_with_domid
<1>2. CASE R # {}
  <2>1. R \in SUBSET Nat
    BY Constants DEF Live
  <2>2. domain_with_domid(s, id) = CHOOSE r \in R : \A q \in R : r <= q
    BY <1>2 DEF domain_with_domid
  <2> HIDE DEF R
  <2>3. domain_with_domid(s, id) \in R
    BY <1>2, <2>1, <2>2, Least
  <2> QED
    BY <2>3 DEF R
<1> QED
  BY <1>1, <1>2

LEMMA AcceptSafe ==
  ASSUME ps \in Safe, server_accept
  PROVE  ps' \in Safe
<1>1. ps \in State /\ Attached(ps) /\ ~ps.open
  BY DEF Safe, server_accept
<1>2. ps' \in State /\ ps'.domains = ps.domains
      /\ ps'.view = NewView /\ ps'.slot = INPUTSLOT_INVALID
  <2>1. <<>> \in Seq(DevEvent) /\ -2 \in Int
    BY EmptySeq
  <2>2. ps' = [ps EXCEPT !.open = TRUE, !.src = NULL, !.dest = NULL,
                 !.slot = INPUTSLOT_INVALID, !.recived_slot = INPUTSLOT_INVALID,
                 !.dropped = FALSE, !.slot_dropped = FALSE, !.resetall = FALSE,
                 !.dev_events = <<>>, !.error = FALSE,
                 !.view = NewView, !.asked = NoDomid]
    BY DEF server_accept
  <2> QED
    BY <1>1, <2>1, <2>2, NewViewType DEF State
<1>3. Attached(ps') /\ Heard(ps')
  BY <1>1, <1>2 DEF Attached, Heard, NewView
<1> QED
  BY <1>2, <1>3 DEF Safe

\* The slot told to a domain is no concern of the plugin's.
LEMMA ToldSafe ==
  ASSUME NEW s \in Safe, NEW d \in Rec, NEW n \in Int
  PROVE  [s EXCEPT !.domains[d].last_devslot = n] \in Safe
<1>1. s \in State /\ Attached(s) /\ Heard(s) /\ s.domains \in [Rec -> DomainRec]
  BY StateFields DEF Safe
<1> DEFINE rec == [s.domains[d] EXCEPT !.last_devslot = n]
           doms == [s.domains EXCEPT ![d] = rec]
<1>2. rec \in DomainRec /\ rec.plugin = s.domains[d].plugin
  BY <1>1, DomainFields DEF DomainRec
<1>3. [s EXCEPT !.domains[d].last_devslot = n] = [s EXCEPT !.domains = doms]
  BY <1>1 DEF State
<1> HIDE DEF rec
<1>4. doms \in [Rec -> DomainRec]
      /\ \A r \in Rec : doms[r].plugin = s.domains[r].plugin
  BY <1>1, <1>2
<1> HIDE DEF doms
<1>5. /\ [s EXCEPT !.domains = doms] \in State
      /\ [s EXCEPT !.domains = doms].domains = doms
      /\ [s EXCEPT !.domains = doms].open = s.open
      /\ [s EXCEPT !.domains = doms].src = s.src
  BY <1>1, <1>4 DEF State
<1>6. Attached([s EXCEPT !.domains = doms])
  BY <1>1, <1>4, <1>5 DEF Attached
<1>7. Heard([s EXCEPT !.domains = doms])
  BY <1>1 DEF Heard, State
<1> QED
  BY <1>3, <1>5, <1>6, <1>7 DEF Safe

LEMMA SendToSafe ==
  ASSUME ps \in Safe, NEW id \in Destinations, SendTo(id)
  PROVE  ps' \in Safe
<1> DEFINE d == domain_with_domid(ps, id)
           t == [ps EXCEPT !.dest = d, !.asked = id]
<1>1. d = NULL \/ d \in Rec
  BY LookupInTable DEF Live
<1>2. t \in Safe
  <2>1. ps \in State /\ Attached(ps) /\ Heard(ps)
    BY DEF Safe
  <2> HIDE DEF d
  <2>2. t \in State /\ t.domains = ps.domains /\ t.open = ps.open /\ t.src = ps.src
        /\ t.slot = ps.slot /\ t.dropped = ps.dropped /\ t.view = ps.view
    BY <1>1, <2>1 DEF State
  <2> HIDE DEF t
  <2> QED
    BY <2>1, <2>2 DEF Safe, Attached, Heard
<1>3. send_error(t) \subseteq Safe
  BY <1>2, ErrorSafe
<1>4. \A u \in Safe : [u EXCEPT !.dest = NULL] \in Safe
  BY FieldSafe
<1>5. d \in Rec => [t EXCEPT !.domains[d].last_devslot = ps.recived_slot] \in Safe
  <2>1. ps.recived_slot \in Int
    BY StateFields DEF Safe
  <2> HIDE DEF t, d
  <2> QED
    BY <1>2, <2>1, ToldSafe
<1>6. \/ ps' \in send_error(t)
      \/ \E u \in send_error(t) : ps' = [u EXCEPT !.dest = NULL]
      \/ d # NULL /\ ps' = [t EXCEPT !.domains[d].last_devslot = ps.recived_slot]
      \/ ps' = t
  BY DEF SendTo
<1> HIDE DEF d, t
<1>7. CASE \E u \in send_error(t) : ps' = [u EXCEPT !.dest = NULL]
  BY <1>3, <1>4, <1>7
<1>8. CASE d # NULL /\ ps' = [t EXCEPT !.domains[d].last_devslot = ps.recived_slot]
  BY <1>1, <1>5, <1>8
<1> QED
  BY <1>2, <1>3, <1>6, <1>7, <1>8

LEMMA TakeFromSafe ==
  ASSUME ps \in Safe, NEW id \in Domids, TakeFrom(id)
  PROVE  ps' \in Safe
<1> DEFINE d == domain_with_domid(ps, id)
           t == Detach(ps)
           u == [t EXCEPT !.src = d, !.domains[d].plugin = TRUE]
<1>1. d = NULL \/ d \in Rec
  BY LookupInTable DEF Live
<1>2. t \in State /\ t.open = ps.open /\ Heard(t) /\ \A r \in Rec : ~t.domains[r].plugin
  BY DetachSafe
<1>3. ps.open
  BY DEF TakeFrom
<1>4. (d = NULL => ps' \in send_error(t))
      /\ (d # NULL => ps' \in sock_plugin_sendconfig(u))
  BY Zenon DEF TakeFrom
<1> HIDE DEF d, t
<1>5. t \in Safe
  BY <1>2 DEF Safe, Attached
<1>6. ASSUME d # NULL
      PROVE  u \in Safe
  <2>1. d \in Rec /\ t.domains \in [Rec -> DomainRec]
    BY <1>1, <1>2, <1>6, StateFields
  <2> DEFINE rec == [t.domains[d] EXCEPT !.plugin = TRUE]
             doms == [t.domains EXCEPT ![d] = rec]
  <2>2. rec \in DomainRec
    BY <2>1 DEF DomainRec
  <2>3. u = [t EXCEPT !.src = d, !.domains = doms]
    BY <1>2, <2>1 DEF State
  <2> HIDE DEF rec
  <2>4. doms \in [Rec -> DomainRec] /\ \A r \in Rec : r # d => ~doms[r].plugin
    BY <1>2, <2>1, <2>2
  <2> HIDE DEF doms, u
  <2>5. u \in State /\ u.domains = doms /\ u.open = ps.open /\ u.src = d
    BY <1>2, <2>1, <2>3, <2>4 DEF State
  <2>6. Heard(u)
    BY <1>2, <2>3 DEF Heard, State
  <2> QED
    BY <1>3, <2>4, <2>5, <2>6 DEF Safe, Attached
<1> HIDE DEF u
<1> QED
  BY <1>4, <1>5, <1>6, ErrorSafe, SendConfigSafe

LEMMA PluginSpeaksSafe ==
  ASSUME ps \in Safe,
         PluginEvent \/ \E slot \in PluginSlots : PluginSetsSlot(slot)
  PROVE  ps' \in Safe
<1>1. send_error(ps) \subseteq Safe
  BY ErrorSafe
<1>2. CASE PluginEvent
  <2>1. ps.crossed \in BOOLEAN /\ Crosses(ps) \in BOOLEAN
    BY StateFields DEF Safe, Crosses
  <2>2. \A b \in BOOLEAN : [ps EXCEPT !.crossed = b] \in Safe
    BY FieldSafe
  <2>3. [ps EXCEPT !.crossed = ps.crossed \/ Crosses(ps)] \in Safe
    BY <2>1, <2>2
  <2> QED
    BY <1>1, <1>2, <2>3, Zenon DEF PluginEvent
<1>3. ASSUME NEW slot \in PluginSlots, PluginSetsSlot(slot)
      PROVE  ps' \in Safe
  <2>1. CASE ps.dest = NULL
    BY <1>1, <1>3, <2>1 DEF PluginSetsSlot
  <2>2. CASE ps.dest # NULL
    <3> DEFINE t == [ps EXCEPT !.recived_slot = slot]
    <3>1. ps.dest \in Rec /\ slot \in Int /\ ps \in State /\ Attached(ps) /\ Heard(ps)
      BY <2>2, PluginAssumption, StateFields DEF Safe
    <3>2. t \in Safe
      <4>1. t \in State /\ t.domains = ps.domains /\ t.open = ps.open /\ t.src = ps.src
            /\ t.slot = ps.slot /\ t.dropped = ps.dropped /\ t.view = ps.view
        BY <3>1 DEF State
      <4> HIDE DEF t
      <4> QED
        BY <3>1, <4>1 DEF Safe, Attached, Heard
    <3>3. ps' = [t EXCEPT !.domains[ps.dest].last_devslot = slot]
      BY <1>3, <2>2, <3>1 DEF PluginSetsSlot, State
    <3> HIDE DEF t
    <3>4. [t EXCEPT !.domains[ps.dest].last_devslot = slot] \in Safe
      BY <3>1, <3>2, ToldSafe
    <3> QED
      BY <3>3, <3>4
  <2> QED
    BY <2>1, <2>2
<1> QED
  BY <1>2, <1>3

LEMMA InputSafe ==
  ASSUME ps \in Safe, NEW d \in Rec, NEW slot \in DevSlots, input_send(d, slot)
  PROVE  ps' \in Safe
<1>1. slot \in Int
  BY Constants
<1>2. [ps EXCEPT !.domains[d].last_devslot = slot] \in Safe
  BY <1>1, ToldSafe
<1> QED
  BY <1>2, EventSafe DEF input_send

LEMMA BroadcastSafe ==
  ASSUME NEW s \in Safe, NEW code, NEW slot, Code(code, slot)
  PROVE  Broadcast(s, code, slot) \subseteq Safe
BY DevEventSafe DEF Broadcast

LEMMA DevicesSafe ==
  ASSUME ps \in Safe, NEW slot \in DevSlots
  PROVE  /\ \A type \in DeviceTypes : consider_device(slot, type) => ps' \in Safe
         /\ input_read(slot) => ps' \in Safe
<1>0. ps \in State /\ Attached(ps) /\ Heard(ps)
  BY DEF Safe
<1>1. ASSUME NEW type \in DeviceTypes, consider_device(slot, type)
      PROVE  ps' \in Safe
  <2> DEFINE t == [ps EXCEPT !.fds = @ \cup {slot}, !.types[slot] = type]
  <2>1. ps.fds \in SUBSET DevSlots /\ ps.types \in [DevSlots -> Types] /\ type \in Types
    BY <1>0, StateFields DEF Types
  <2>2. t \in State /\ t.domains = ps.domains /\ t.open = ps.open /\ t.src = ps.src
        /\ t.slot = ps.slot /\ t.dropped = ps.dropped /\ t.view = ps.view
    BY <1>0, <2>1 DEF State
  <2>3. ps' \in IF type = "POINTER" THEN Broadcast(t, "CONF", slot) ELSE {t}
    BY <1>1 DEF consider_device
  <2> HIDE DEF t
  <2>4. t \in Safe
    BY <1>0, <2>2 DEF Safe, Attached, Heard
  <2>5. Broadcast(t, "CONF", slot) \subseteq Safe
    BY <2>4, BroadcastSafe DEF Code
  <2> QED
    BY <2>3, <2>4, <2>5
<1>2. ASSUME input_read(slot)
      PROVE  ps' \in Safe
  <2> DEFINE t == [ps EXCEPT !.fds = @ \ {slot}]
  <2>1. ps.fds \in SUBSET DevSlots
    BY <1>0, StateFields
  <2>2. t \in State /\ t.domains = ps.domains /\ t.open = ps.open /\ t.src = ps.src
        /\ t.slot = ps.slot /\ t.dropped = ps.dropped /\ t.view = ps.view
    BY <1>0, <2>1 DEF State
  <2>3. ps' \in Broadcast(t, "RESET", slot)
    BY <1>2 DEF input_read
  <2> HIDE DEF t
  <2>4. t \in Safe
    BY <1>0, <2>2 DEF Safe, Attached, Heard
  <2>5. Broadcast(t, "RESET", slot) \subseteq Safe
    BY <2>4, BroadcastSafe DEF Code
  <2> QED
    BY <2>3, <2>5
<1> QED
  BY <1>1, <1>2

\* A record that takes no more plugins than it had keeps the invariant.
LEMMA RecordSafe ==
  ASSUME NEW s \in Safe, NEW d \in Rec, NEW x \in DomainRec,
         x.plugin => s.domains[d].plugin
  PROVE  [s EXCEPT !.domains = [s.domains EXCEPT ![d] = x]] \in Safe
<1> DEFINE doms == [s.domains EXCEPT ![d] = x]
<1>1. s \in State /\ Attached(s) /\ Heard(s) /\ s.domains \in [Rec -> DomainRec]
  BY StateFields DEF Safe
<1>2. doms \in [Rec -> DomainRec] /\ \A r \in Rec : doms[r].plugin => s.domains[r].plugin
  BY <1>1
<1> HIDE DEF doms
<1>3. /\ [s EXCEPT !.domains = doms] \in State
      /\ [s EXCEPT !.domains = doms].domains = doms
      /\ [s EXCEPT !.domains = doms].open = s.open
      /\ [s EXCEPT !.domains = doms].src = s.src
  BY <1>1, <1>2 DEF State
<1>4. Heard([s EXCEPT !.domains = doms])
  BY <1>1 DEF Heard, State
<1>5. [s EXCEPT !.domains = doms] \in Safe
  BY <1>1, <1>2, <1>3, <1>4 DEF Safe, Attached
<1> QED
  BY <1>5 DEF doms

LEMMA DomainsSafe ==
  ASSUME ps \in Safe
  PROVE  /\ \A id \in Domids : domain_create(id) => ps' \in Safe
         /\ \A d \in Rec : domain_gone(d) => ps' \in Safe
<1>0. ps \in State /\ ps.domains \in [Rec -> DomainRec]
  BY StateFields DEF Safe
<1>1. ASSUME NEW id \in Domids, domain_create(id)
      PROVE  ps' \in Safe
  <2> DEFINE Free == Rec \ Live(ps)
             d == CHOOSE r \in Free : \A q \in Free : r <= q
             x == [domid |-> id, plugin |-> FALSE, last_devslot |-> INPUTSLOT_INVALID]
  <2>1. Free # {} /\ Free \in SUBSET Nat
    BY <1>1, Constants DEF domain_create
  <2>2. d \in Rec
    <3> HIDE DEF Free
    <3>1. d \in Free
      BY <2>1, Least
    <3> QED
      BY <3>1 DEF Free
  <2>3. ps' = [ps EXCEPT !.domains[d] = x]
    BY <1>1 DEF domain_create
  <2> HIDE DEF d
  <2>4. x \in DomainRec /\ ~x.plugin
    BY DEF DomainRec
  <2> HIDE DEF x
  <2>5. ps' = [ps EXCEPT !.domains = [ps.domains EXCEPT ![d] = x]]
    BY <1>0, <2>2, <2>3 DEF State
  <2> QED
    BY <2>2, <2>4, <2>5, RecordSafe
<1>2. ASSUME NEW d \in Rec, domain_gone(d)
      PROVE  ps' \in Safe
  <2> DEFINE x == [ps.domains[d] EXCEPT !.domid = NoDomid]
  <2>1. x \in DomainRec /\ x.plugin = ps.domains[d].plugin
    BY <1>0, DomainFields DEF DomainRec
  <2>2. ps' = [ps EXCEPT !.domains = [ps.domains EXCEPT ![d] = x]]
    BY <1>0, <1>2 DEF domain_gone, State
  <2> HIDE DEF x
  <2> QED
    BY <2>1, <2>2, RecordSafe
<1> QED
  BY <1>1, <1>2

LEMMA InitSafe == Init => ps \in Safe
<1> SUFFICES ASSUME Init
             PROVE  ps \in Safe
  OBVIOUS
<1> DEFINE x == [domid |-> NoDomid, plugin |-> FALSE, last_devslot |-> INPUTSLOT_INVALID]
           doms == [r \in Rec |-> x]
           types == [n \in DevSlots |-> "NONE"]
<1>1. x \in DomainRec
  BY DEF DomainRec
<1>2. doms \in [Rec -> DomainRec] /\ \A r \in Rec : ~doms[r].plugin
  BY <1>1
<1>3. types \in [DevSlots -> Types]
  BY Constants
<1>4. <<>> \in Seq(DevEvent) /\ -2 \in Int /\ NewView \in View
  BY EmptySeq, NewViewType
<1>5. ps = [open |-> FALSE, src |-> NULL, dest |-> NULL, slot |-> INPUTSLOT_INVALID,
            recived_slot |-> INPUTSLOT_INVALID, dropped |-> FALSE,
            slot_dropped |-> FALSE, resetall |-> FALSE, dev_events |-> <<>>,
            error |-> FALSE, fds |-> {}, types |-> types, domains |-> doms,
            view |-> NewView, asked |-> NoDomid, crossed |-> FALSE]
  BY DEF Init
<1> HIDE DEF x, doms, types
<1>6. ps \in State /\ ps.domains = doms /\ ps.view = NewView /\ ~ps.open
  BY <1>2, <1>3, <1>4, <1>5 DEF State
<1>7. Heard(ps)
  BY <1>6 DEF Heard, NewView
<1> QED
  BY <1>2, <1>6, <1>7 DEF Safe, Attached

LEMMA NextSafe == IInv /\ [Next]_ps => IInv'
<1> SUFFICES ASSUME ps \in Safe, [Next]_ps
             PROVE  ps' \in Safe
  BY DEF IInv
<1>1. CASE server_accept
  BY <1>1, AcceptSafe
<1>2. CASE Hangup
  BY <1>2, KillSafe DEF Hangup
<1>3. CASE BadCode
  BY <1>3, ErrorSafe DEF BadCode
<1>4. CASE PluginEvent \/ \E slot \in PluginSlots : PluginSetsSlot(slot)
  BY <1>4, PluginSpeaksSafe
<1>5. CASE \E id \in Destinations : SendTo(id)
  BY <1>5, SendToSafe
<1>6. CASE \E id \in Domids : TakeFrom(id)
  BY <1>6, TakeFromSafe
<1>7. CASE \E d \in Rec : \E slot \in DevSlots : input_send(d, slot)
  BY <1>7, InputSafe
<1>8. CASE \E slot \in DevSlots :
             input_read(slot) \/ \E type \in DeviceTypes : consider_device(slot, type)
  BY <1>8, DevicesSafe
<1>9. CASE (\E d \in Rec : domain_gone(d)) \/ \E id \in Domids : domain_create(id)
  BY <1>9, DomainsSafe
<1>10. CASE UNCHANGED ps
  BY <1>10
<1> QED
  BY <1>1, <1>2, <1>3, <1>4, <1>5, <1>6, <1>7, <1>8, <1>9, <1>10
     DEF Next, Socket, Daemon

-----------------------------------------------------------------------------

\* The statics and the client's view keep their types, whoever has the plugin,
\* freed records included, is the source of the open connection, and the client
\* is told of every loss under the announced slot or about to be.
THEOREM Soundness == Spec => []IInv
<1>1. Init => IInv
  BY InitSafe DEF IInv
<1> QED
  BY <1>1, NextSafe, PTL DEF Spec

\* The state of the socket always has its type: the queue holds entries for
\* devices only, and dest and src are records or NULL.
THEOREM TypeCorrect == Spec => []TypeOK
<1>1. IInv => TypeOK
  BY DEF IInv, Safe, TypeOK
<1> QED
  BY <1>1, Soundness, PTL

\* kill_connection and VM_TAKE_FROM, which detach the plugin from src only,
\* leave no domain that would send into a closed socket.
THEOREM PluginAttached == Spec => []PluginPointsBack
<1>1. IInv => PluginPointsBack
  BY DEF IInv, Safe, Attached, PluginPointsBack, Live
<1> QED
  BY <1>1, Soundness, PTL


\* An event that is lost under the announced slot is followed by SYN_DROPPED
\* before the next event of that slot, whatever is refused in between
\* (send_plugin_event, send_slot).
THEOREM LossIsReported == Spec => []LossReported
<1>1. IInv => LossReported
  BY DEF IInv, Safe, Heard, LossReported
<1> QED
  BY <1>1, Soundness, PTL

-----------------------------------------------------------------------------
(* The devices the client knows.  q is a queue, all whether a reset of all *)
(* devices is owed, D the devices the client knows and P the pointers.     *)

Distinct(q) == \A i, j \in DOMAIN q : q[i].slot = q[j].slot => i = j

\* Only pointers are to be configured, and a device the client knows only after
\* a reset; what it knows and is no pointer is to be reset.
Owes(q, all, D, P) ==
    /\ Distinct(q)
    /\ \A i \in DOMAIN q : q[i].add =>
          /\ q[i].slot \in P
          /\ all \/ q[i].remove \/ q[i].slot \notin D
    /\ all \/ \A x \in D : x \in P \/ \E i \in DOMAIN q : q[i].slot = x /\ q[i].remove

Knows(s, P) == s.open => Owes(s.dev_events, s.resetall, s.view.devices, P)

\* The devices the client knows when the entries I have been written.
After(q, D, I) ==
    (D \ {q[i].slot : i \in {j \in I : q[j].remove}})
    \cup {q[i].slot : i \in {j \in I : q[j].add}}

LEMMA OwesNothing ==
  ASSUME NEW all, NEW D, NEW P, all \/ D \subseteq P
  PROVE  Owes(<<>>, all, D, P)
BY DEF Owes, Distinct

LEMMA FlushedOwes ==
  ASSUME NEW q \in Seq(DevEvent), NEW all, NEW D, NEW P, Owes(q, all, D, P)
  PROVE  all \/ After(q, D, 1..Len(q)) \subseteq P
<1>1. DOMAIN q = 1..Len(q)
  BY Queued
<1> QED
  BY <1>1 DEF Owes, After

LEMMA StoppedOwes ==
  ASSUME NEW q \in Seq(DevEvent), NEW all, NEW D, NEW P, Owes(q, all, D, P),
         NEW j \in 1..Len(q)
  PROVE  Owes(SubSeq(q, 1, j), all, After(q, D, (j + 1)..Len(q)), P)
<1>1. Len(q) \in Nat /\ DOMAIN q = 1..Len(q)
  BY Queued
<1> DEFINE p == SubSeq(q, 1, j)
           E == After(q, D, (j + 1)..Len(q))
<1>2. DOMAIN p = 1..j /\ \A i \in 1..j : p[i] = q[i] /\ i \in DOMAIN q
  BY <1>1, SubSeqProperties
<1> HIDE DEF p
<1>3. Distinct(p)
  BY <1>2 DEF Owes, Distinct
<1>4. ASSUME NEW i \in 1..j, q[i].slot \notin D
      PROVE  q[i].slot \notin E
  <2>1. \A k \in (j + 1)..Len(q) : k \in DOMAIN q /\ k # i
    BY <1>1
  <2>2. \A k \in (j + 1)..Len(q) : q[k].slot # q[i].slot
    BY <1>2, <2>1 DEF Owes, Distinct
  <2> QED
    BY <1>4, <2>2 DEF After
<1>5. ASSUME NEW i \in DOMAIN p, p[i].add
      PROVE  p[i].slot \in P /\ (all \/ p[i].remove \/ p[i].slot \notin E)
  BY <1>2, <1>4, <1>5 DEF Owes
<1>6. ASSUME ~all, NEW x \in E
      PROVE  x \in P \/ \E i \in DOMAIN p : p[i].slot = x /\ p[i].remove
  <2>1. \A k \in (j + 1)..Len(q) : k \in DOMAIN q
    BY <1>1
  <2>2. CASE \E k \in (j + 1)..Len(q) : q[k].add /\ x = q[k].slot
    BY <2>1, <2>2 DEF Owes
  <2>3. CASE x \in D /\ \A k \in (j + 1)..Len(q) : q[k].remove => x # q[k].slot
    <3>1. x \in P \/ \E i \in DOMAIN q : q[i].slot = x /\ q[i].remove
      BY <1>6, <2>3 DEF Owes
    <3>2. \A i \in DOMAIN q : i \in (j + 1)..Len(q) \/ i \in 1..j
      BY <1>1
    <3> QED
      BY <1>2, <2>3, <3>1, <3>2
  <2> QED
    BY <2>2, <2>3 DEF After
<1> HIDE DEF E
<1>7. Owes(p, all, E, P)
  BY <1>3, <1>5, <1>6 DEF Owes
<1> QED
  BY <1>7 DEF p, E

\* The entry that is half written stays to be configured.
LEMMA HalfOwes ==
  ASSUME NEW q \in Seq(DevEvent), NEW all, NEW D, NEW P, Owes(q, all, D, P),
         NEW j \in 1..Len(q), q[j].add
  PROVE  Owes(Append(SubSeq(q, 1, j - 1), [q[j] EXCEPT !.remove = FALSE]), all,
              After(q, D, (j + 1)..Len(q)) \ {q[j].slot}, P)
<1> DEFINE p == SubSeq(q, 1, j)
           E == After(q, D, (j + 1)..Len(q))
           e == [q[j] EXCEPT !.remove = FALSE]
           r == Append(SubSeq(q, 1, j - 1), e)
<1>1. Len(q) \in Nat /\ DOMAIN q = 1..Len(q) /\ q[j] \in DevEvent
  BY Queued
<1>2. Owes(p, all, E, P)
  BY StoppedOwes
<1>3. DOMAIN p = 1..j /\ p[j] = q[j] /\ \A i \in 1..j : p[i] = q[i]
  BY <1>1, SubSeqProperties
<1>4. e.slot = q[j].slot /\ e.add /\ ~e.remove /\ e \in DevEvent
  BY <1>1 DEF DevEvent
<1>5. DOMAIN r = 1..j /\ r[j] = e /\ \A i \in 1..(j - 1) : r[i] = q[i]
  <2>1. SubSeq(q, 1, j - 1) \in Seq(DevEvent) /\ Len(SubSeq(q, 1, j - 1)) = j - 1
        /\ \A i \in 1..(j - 1) : SubSeq(q, 1, j - 1)[i] = q[i]
    BY <1>1, SubSeqProperties
  <2> DEFINE front == SubSeq(q, 1, j - 1)
  <2> HIDE DEF front, e
  <2>2. DOMAIN Append(front, e) = 1..j /\ Append(front, e)[j] = e
        /\ \A i \in 1..(j - 1) : Append(front, e)[i] = front[i]
    BY <1>4, <2>1, AppendProperties DEF front
  <2> QED
    BY <2>1, <2>2 DEF front
<1> HIDE DEF p, E, e, r
<1>6. \A i \in 1..j : /\ r[i].slot = p[i].slot /\ r[i].add = p[i].add
                      /\ i # j => r[i] = p[i]
  <2> TAKE i \in 1..j
  <2>1. i = j \/ i \in 1..(j - 1)
    OBVIOUS
  <2>2. q[j].add = TRUE /\ e.add = TRUE
    BY <1>1, <1>4 DEF DevEvent
  <2> QED
    BY <1>3, <1>4, <1>5, <2>1, <2>2
<1>7. Distinct(r)
  BY <1>2, <1>3, <1>5, <1>6 DEF Owes, Distinct
<1>8. ASSUME NEW i \in DOMAIN r, r[i].add
      PROVE  r[i].slot \in P /\ (all \/ r[i].remove \/ r[i].slot \notin E \ {q[j].slot})
  <2>1. i \in DOMAIN p /\ p[i].add /\ r[i].slot = p[i].slot
    BY <1>3, <1>5, <1>6, <1>8
  <2>2. CASE i = j
    BY <1>2, <1>4, <1>5, <2>1, <2>2 DEF Owes
  <2>3. CASE i # j
    BY <1>2, <1>3, <1>6, <2>1, <2>3 DEF Owes
  <2> QED
    BY <2>2, <2>3
<1>9. ASSUME ~all, NEW x \in E \ {q[j].slot}
      PROVE  x \in P \/ \E i \in DOMAIN r : r[i].slot = x /\ r[i].remove
  <2>1. x \in P \/ \E i \in DOMAIN p : p[i].slot = x /\ p[i].remove
    BY <1>2, <1>9 DEF Owes
  <2>2. \A i \in DOMAIN p : p[i].slot = x => i # j
    BY <1>3, <1>9
  <2> QED
    BY <1>3, <1>5, <1>6, <2>1, <2>2
<1>10. Owes(r, all, E \ {q[j].slot}, P)
  BY <1>7, <1>8, <1>9 DEF Owes
<1> QED
  BY <1>10 DEF r, e, E

LEMMA ConfOwes ==
  ASSUME NEW q \in Seq(DevEvent), NEW all, NEW D, NEW P, Owes(q, all, D, P),
         NEW slot, slot \notin P
  PROVE  /\ Owes([i \in DOMAIN q |-> IF q[i].slot = slot THEN [q[i] EXCEPT !.add = TRUE]
                                                         ELSE q[i]], all, D, P \cup {slot})
         /\ (\A i \in DOMAIN q : q[i].slot # slot) =>
               Owes(Append(q, [slot |-> slot, remove |-> FALSE, add |-> TRUE]), all, D,
                    P \cup {slot})
<1> DEFINE p == [i \in DOMAIN q |-> IF q[i].slot = slot THEN [q[i] EXCEPT !.add = TRUE]
                                                        ELSE q[i]]
           x == [slot |-> slot, remove |-> FALSE, add |-> TRUE]
           r == Append(q, x)
<1>1. Len(q) \in Nat /\ DOMAIN q = 1..Len(q) /\ \A i \in DOMAIN q : q[i] \in DevEvent
  BY Queued
<1>2. slot \in D => all \/ \E i \in DOMAIN q : q[i].slot = slot /\ q[i].remove
  BY DEF Owes
<1>3. DOMAIN p = DOMAIN q
      /\ \A i \in DOMAIN q : /\ p[i].slot = q[i].slot /\ p[i].remove = q[i].remove
                             /\ q[i].slot # slot => p[i].add = q[i].add
  BY <1>1 DEF DevEvent
<1> HIDE DEF p
<1>4. Owes(p, all, D, P \cup {slot})
  <2>1. Distinct(p)
    BY <1>3 DEF Owes, Distinct
  <2>2. ASSUME NEW i \in DOMAIN p, p[i].add
        PROVE  p[i].slot \in P \cup {slot} /\ (all \/ p[i].remove \/ p[i].slot \notin D)
    <3>1. CASE q[i].slot # slot
      BY <1>3, <2>2, <3>1 DEF Owes
    <3>2. CASE q[i].slot = slot
      BY <1>2, <1>3, <3>2 DEF Owes, Distinct
    <3> QED
      BY <3>1, <3>2
  <2>3. all \/ \A y \in D : y \in P \cup {slot} \/ \E i \in DOMAIN p : p[i].slot = y /\ p[i].remove
    BY <1>3 DEF Owes
  <2> QED
    BY <2>1, <2>2, <2>3 DEF Owes
<1>5. ASSUME \A i \in DOMAIN q : q[i].slot # slot
      PROVE  Owes(r, all, D, P \cup {slot})
  <2>1. x.slot = slot /\ ~x.remove
    OBVIOUS
  <2>2. DOMAIN r = 1..(Len(q) + 1) /\ r[Len(q) + 1] = x /\ \A i \in DOMAIN q : r[i] = q[i]
    <3> HIDE DEF x
    <3> QED
      BY <1>1
  <2> HIDE DEF r, x
  <2>3. \A i \in DOMAIN r : i \in DOMAIN q \/ i = Len(q) + 1
    BY <1>1, <2>2
  <2>4. \A i \in DOMAIN q : i \in DOMAIN r
    BY <1>1, <2>2
  <2>5. Distinct(r)
    BY <1>5, <2>1, <2>2, <2>3 DEF Owes, Distinct
  <2>6. ASSUME NEW i \in DOMAIN r, r[i].add
        PROVE  r[i].slot \in P \cup {slot} /\ (all \/ r[i].remove \/ r[i].slot \notin D)
    BY <1>2, <1>5, <2>1, <2>2, <2>3, <2>6 DEF Owes
  <2>7. all \/ \A y \in D : y \in P \cup {slot} \/ \E i \in DOMAIN r : r[i].slot = y /\ r[i].remove
    BY <2>2, <2>4 DEF Owes
  <2> QED
    BY <2>5, <2>6, <2>7 DEF Owes
<1> QED
  BY <1>4, <1>5 DEF p

LEMMA ResetOwes ==
  ASSUME NEW q \in Seq(DevEvent), NEW all, NEW D, NEW P, Owes(q, all, D, P), NEW slot
  PROVE  /\ (\E i \in DOMAIN q : q[i].slot = slot) =>
               Owes([i \in DOMAIN q |-> IF q[i].slot # slot THEN q[i]
                                        ELSE IF q[i].add THEN [q[i] EXCEPT !.add = FALSE]
                                        ELSE [q[i] EXCEPT !.remove = TRUE]],
                    all, D, P \ {slot})
         /\ (\A i \in DOMAIN q : q[i].slot # slot) =>
               Owes(Append(q, [slot |-> slot, remove |-> TRUE, add |-> FALSE]), all, D,
                    P \ {slot})
<1> DEFINE p == [i \in DOMAIN q |-> IF q[i].slot # slot THEN q[i]
                                    ELSE IF q[i].add THEN [q[i] EXCEPT !.add = FALSE]
                                    ELSE [q[i] EXCEPT !.remove = TRUE]]
           x == [slot |-> slot, remove |-> TRUE, add |-> FALSE]
           r == Append(q, x)
<1>1. Len(q) \in Nat /\ DOMAIN q = 1..Len(q) /\ \A i \in DOMAIN q : q[i] \in DevEvent
  BY Queued
<1>2. DOMAIN p = DOMAIN q
      /\ \A i \in DOMAIN q : /\ p[i].slot = q[i].slot
                             /\ q[i].slot # slot => p[i] = q[i]
                             /\ q[i].slot = slot => /\ ~p[i].add
                                                    /\ q[i].add => p[i].remove = q[i].remove
                                                    /\ ~q[i].add => p[i].remove
  BY <1>1 DEF DevEvent
<1> HIDE DEF p
<1>3. ASSUME NEW k \in DOMAIN q, q[k].slot = slot
      PROVE  Owes(p, all, D, P \ {slot})
  <2>1. Distinct(p)
    BY <1>2 DEF Owes, Distinct
  <2>2. ASSUME NEW i \in DOMAIN p, p[i].add
        PROVE  p[i].slot \in P \ {slot} /\ (all \/ p[i].remove \/ p[i].slot \notin D)
    BY <1>2, <2>2 DEF Owes
  <2>3. ASSUME ~all, NEW y \in D, y \notin P \ {slot}
        PROVE  \E i \in DOMAIN p : p[i].slot = y /\ p[i].remove
    <3>1. CASE y # slot
      BY <1>2, <2>3, <3>1 DEF Owes
    <3>2. CASE y = slot
      BY <1>2, <1>3, <2>3, <3>2 DEF Owes
    <3> QED
      BY <3>1, <3>2
  <2> QED
    BY <2>1, <2>2, <2>3 DEF Owes
<1>4. ASSUME \A i \in DOMAIN q : q[i].slot # slot
      PROVE  Owes(r, all, D, P \ {slot})
  <2>1. x.slot = slot /\ x.remove /\ ~x.add
    OBVIOUS
  <2>2. DOMAIN r = 1..(Len(q) + 1) /\ r[Len(q) + 1] = x /\ \A i \in DOMAIN q : r[i] = q[i]
    <3> HIDE DEF x
    <3> QED
      BY <1>1
  <2> HIDE DEF r, x
  <2>3. \A i \in DOMAIN r : i \in DOMAIN q \/ i = Len(q) + 1
    BY <1>1, <2>2
  <2>4. (\A i \in DOMAIN q : i \in DOMAIN r) /\ Len(q) + 1 \in DOMAIN r
    BY <1>1, <2>2
  <2>5. Distinct(r)
    BY <1>4, <2>1, <2>2, <2>3 DEF Owes, Distinct
  <2>6. ASSUME NEW i \in DOMAIN r, r[i].add
        PROVE  r[i].slot \in P \ {slot} /\ (all \/ r[i].remove \/ r[i].slot \notin D)
    BY <1>4, <2>1, <2>2, <2>3, <2>6 DEF Owes
  <2>7. all \/ \A y \in D : y \in P \ {slot} \/ \E i \in DOMAIN r : r[i].slot = y /\ r[i].remove
    BY <2>1, <2>2, <2>4 DEF Owes
  <2> QED
    BY <2>5, <2>6, <2>7 DEF Owes
<1> QED
  BY <1>3, <1>4 DEF p

\* The states with the devices F of the types T in which the client knows, but
\* for what it is owed, no device outside P.
Tracks(F, T, P) == {s \in Safe : s.fds = F /\ s.types = T /\ Knows(s, P)}

\* What is not about the devices.
Apart(s, t) ==
    /\ t \in State /\ t.fds = s.fds /\ t.types = s.types
    /\ t.open => /\ s.open /\ t.dev_events = s.dev_events /\ t.resetall = s.resetall
                 /\ t.view.devices = s.view.devices

LEMMA ApartTracks ==
  ASSUME NEW F, NEW T, NEW P, NEW s \in Tracks(F, T, P), NEW t \in Safe, Apart(s, t)
  PROVE  t \in Tracks(F, T, P)
BY DEF Tracks, Apart, Knows

LEMMA ApartItself == \A s \in Safe : Apart(s, s)
BY DEF Apart, Safe

LEMMA ApartApart ==
  ASSUME NEW s, NEW t, NEW u, Apart(s, t), Apart(t, u)
  PROVE  Apart(s, u)
BY DEF Apart

LEMMA MorePointers ==
  ASSUME NEW F, NEW T, NEW P, NEW s \in Tracks(F, T, {})
  PROVE  s \in Tracks(F, T, P)
BY DEF Tracks, Knows, Owes

LEMMA KilledTracks ==
  ASSUME NEW s \in Safe, NEW P
  PROVE  /\ Apart(s, kill_connection(s)) /\ ~kill_connection(s).open
         /\ kill_connection(s) \in Tracks(s.fds, s.types, P)
<1>1. kill_connection(s) \in Safe
  BY KillSafe
<1>2. s \in State
  BY DEF Safe
<1>3. /\ kill_connection(s).fds = s.fds /\ kill_connection(s).types = s.types
      /\ ~kill_connection(s).open
  BY <1>2 DEF kill_connection, Detach, State
<1> QED
  BY <1>1, <1>3 DEF Apart, Tracks, Knows, Safe

\* A record that is not about a device.
LEMMA WriteApart ==
  ASSUME NEW s \in Safe, NEW m, Sendable(m), m.op \notin {"CONF", "RESET"},
         NEW o \in send_to_plugin(s, m)
  PROVE  Apart(s, o.s)
<1>1. s \in State /\ s.view \in View
  BY StateFields DEF Safe
<1>2. Read(s.view, m).devices = s.view.devices
  <2>1. CASE m.op = "SET"
    BY <1>1, <2>1 DEF Read, View
  <2>2. CASE m.op = "DROPPED"
    BY <1>1, <2>2 DEF Read, View
  <2>3. CASE m.op = "EVENT"
    BY <1>1, <2>3 DEF Read, View
  <2>4. CASE m.op \notin {"SET", "CONF", "RESET", "DROPPED", "EVENT"}
    BY <2>4 DEF Read
  <2> QED
    BY <2>1, <2>2, <2>3, <2>4
<1> DEFINE told == [s EXCEPT !.view = Read(s.view, m)]
<1>3. /\ told.fds = s.fds /\ told.types = s.types /\ told.dev_events = s.dev_events
      /\ told.resetall = s.resetall /\ told.view.devices = s.view.devices
      /\ told \in State
  <2>1. Read(s.view, m) \in View
    BY <1>1, ReadView
  <2> QED
    BY <1>1, <1>2, <2>1 DEF State
<1>4. o.s = kill_connection(s) \/ (s.open /\ o.s = told) \/ (s.open /\ o.s = s)
  BY WriteOutcome
<1> HIDE DEF told
<1> QED
  BY <1>3, <1>4, KilledTracks, ApartItself DEF Apart

\* A record about a device changes what the client knows and nothing else.
LEMMA DevWritten ==
  ASSUME NEW s \in Safe, NEW m, Silent(m), NEW o \in send_to_plugin(s, m)
  PROVE  /\ o.ok \in BOOLEAN /\ o.s \in Safe /\ o.s.fds = s.fds /\ o.s.types = s.types
         /\ \/ ~o.s.open
            \/ ~o.ok /\ o.s = s
            \/ /\ o.ok /\ o.s.view.devices = Read(s.view, m).devices
               /\ o.s.dev_events = s.dev_events /\ o.s.resetall = s.resetall
               /\ s.open /\ o.s.open
<1>1. s \in State /\ s.view \in View
  BY StateFields DEF Safe
<1> DEFINE told == [s EXCEPT !.view = Read(s.view, m)]
<1>2. /\ told.fds = s.fds /\ told.types = s.types /\ told.dev_events = s.dev_events
      /\ told.resetall = s.resetall /\ told.view = Read(s.view, m) /\ told.open = s.open
  BY <1>1 DEF State
<1>3. o \in Outcome
  BY WriteSafe
<1>4. \/ o.s = kill_connection(s)
      \/ s.open /\ o.ok /\ o.s = told
      \/ s.open /\ ~o.ok /\ o.s = s
  BY WriteOutcome DEF Silent
<1> HIDE DEF told
<1> QED
  BY <1>2, <1>3, <1>4, KilledTracks, OutcomeFields DEF Apart

LEMMA FlushTracks ==
  ASSUME NEW F, NEW T, NEW P, NEW s \in Tracks(F, T, P),
         NEW o \in flush_queued_dev_events(s)
  PROVE  /\ o.ok \in BOOLEAN /\ o.s \in Tracks(F, T, P)
         /\ o.ok => ~o.s.open \/ o.s.dev_events = <<>>
<1> DEFINE q == s.dev_events
           n == Len(s.dev_events)
           Done == [Written(s, 1..n) EXCEPT !.dev_events = <<>>]
<1>1. s \in State /\ s \in Safe /\ q \in Seq(DevEvent) /\ s.view \in View
      /\ s.fds = F /\ s.types = T /\ Knows(s, P) /\ n \in Nat
  BY StateFields, Queued DEF Tracks, Safe
<1>2. \A I : /\ Written(s, I).fds = F /\ Written(s, I).types = T /\ Written(s, I).open = s.open
             /\ Written(s, I).dev_events = q /\ Written(s, I).resetall = s.resetall
             /\ Written(s, I).view.devices = After(q, s.view.devices, I)
  <2> TAKE I
  <2>1. Devices(s, I) = After(q, s.view.devices, I)
    BY DEF Devices, After
  <2>2. Written(s, I) = [s EXCEPT !.view = [s.view EXCEPT !.devices = Devices(s, I)]]
    BY <1>1 DEF Written, State
  <2>3. [s.view EXCEPT !.devices = Devices(s, I)].devices = Devices(s, I)
    BY <1>1 DEF View
  <2> QED
    BY <1>1, <2>1, <2>2, <2>3 DEF State
<1>3. o \in Outcome
  BY <1>1, FlushSafe
<1>4. kill_connection(s) \in Tracks(F, T, P) /\ ~kill_connection(s).open
  BY <1>1, KilledTracks
<1>5. \/ o = [ok |-> TRUE, s |-> s] /\ n = 0
      \/ \E b \in BOOLEAN : o = [ok |-> b, s |-> kill_connection(s)]
      \/ s.open /\ o = [ok |-> TRUE, s |-> Done]
      \/ s.open /\ \E j \in 1..n : Stops(s, j, TRUE) /\ o = [ok |-> FALSE, s |-> Stopped(s, j, TRUE)]
      \/ s.open /\ \E j \in 1..n : o = [ok |-> FALSE, s |-> Stopped(s, j, FALSE)]
  BY DEF flush_queued_dev_events
<1>6. CASE o = [ok |-> TRUE, s |-> s] /\ n = 0
  <2>1. q = <<>>
    BY <1>1, <1>6, EmptySeq
  <2> QED
    BY <1>6, <2>1
<1>7. CASE \E b \in BOOLEAN : o = [ok |-> b, s |-> kill_connection(s)]
  BY <1>4, <1>7
<1>8. CASE s.open /\ o = [ok |-> TRUE, s |-> Done]
  <2>1. Written(s, 1..n) \in State
    BY <1>1, WrittenSafe DEF Safe
  <2>2. /\ Done.fds = F /\ Done.types = T /\ Done.dev_events = <<>>
        /\ Done.resetall = s.resetall /\ Done.view.devices = After(q, s.view.devices, 1..n)
    BY <1>2, <2>1 DEF State
  <2> HIDE DEF Done
  <2>3. o.s = Done /\ o.ok
    BY <1>8
  <2>4. Owes(q, s.resetall, s.view.devices, P)
    BY <1>1, <1>8 DEF Knows
  <2>5. s.resetall \/ After(q, s.view.devices, 1..n) \subseteq P
    BY <1>1, <2>4, FlushedOwes
  <2>6. Owes(<<>>, s.resetall, After(q, s.view.devices, 1..n), P)
    BY <2>5, OwesNothing
  <2>7. o.s \in Safe
    BY <1>3, OutcomeFields
  <2> QED
    BY <2>2, <2>3, <2>6, <2>7 DEF Tracks, Knows
<1>9. ASSUME s.open, NEW j \in 1..n, Stops(s, j, TRUE),
             o = [ok |-> FALSE, s |-> Stopped(s, j, TRUE)]
      PROVE  o.s \in Tracks(F, T, P) /\ ~o.ok /\ o.ok \in BOOLEAN
  <2> DEFINE W == Written(s, (j + 1)..n)
             r == Append(SubSeq(q, 1, j - 1), [q[j] EXCEPT !.remove = FALSE])
             E == After(q, s.view.devices, (j + 1)..n) \ {q[j].slot}
  <2>1. q[j].add
    BY <1>9 DEF Stops
  <2>2. Owes(r, s.resetall, E, P)
    BY <1>1, <1>9, <2>1, HalfOwes DEF Knows
  <2>3. W \in Safe
    <3>1. (j + 1)..n \in SUBSET (1..n)
      BY <1>1
    <3> QED
      BY <1>1, <3>1, WrittenSafe
  <2>4. W \in State /\ W.view \in View
    BY <2>3, StateFields DEF Safe
  <2> DEFINE known == [W.view EXCEPT !.devices = W.view.devices \ {q[j].slot}]
  <2>5. Stopped(s, j, TRUE) = [W EXCEPT !.view = known, !.dev_events = r]
    <3>1. Stopped(s, j, TRUE) = [W EXCEPT !.view.devices = W.view.devices \ {q[j].slot},
                                          !.dev_events = r]
      BY <1>2 DEF Stopped
    <3> HIDE DEF W, r
    <3> QED
      BY <2>4, <3>1 DEF State
  <2>6. /\ W.fds = F /\ W.types = T /\ W.resetall = s.resetall
        /\ known.devices = E
    <3>1. /\ W.fds = F /\ W.types = T /\ W.resetall = s.resetall
          /\ W.view.devices \ {q[j].slot} = E
      BY <1>2
    <3> HIDE DEF W, E
    <3> QED
      BY <2>4, <3>1 DEF View
  <2> HIDE DEF W, r, E, known
  <2>7. /\ o.s.fds = F /\ o.s.types = T /\ o.s.resetall = s.resetall
        /\ o.s.dev_events = r /\ o.s.view.devices = E
    BY <1>9, <2>4, <2>5, <2>6 DEF State, View
  <2>8. o.s \in Safe
    BY <1>3, OutcomeFields
  <2> QED
    BY <1>9, <2>2, <2>7, <2>8 DEF Tracks, Knows
<1>10. ASSUME s.open, NEW j \in 1..n, o = [ok |-> FALSE, s |-> Stopped(s, j, FALSE)]
       PROVE  o.s \in Tracks(F, T, P) /\ ~o.ok /\ o.ok \in BOOLEAN
  <2> DEFINE W == Written(s, (j + 1)..n)
             r == SubSeq(q, 1, j)
             E == After(q, s.view.devices, (j + 1)..n)
  <2>1. Owes(r, s.resetall, E, P)
    BY <1>1, <1>10, StoppedOwes DEF Knows
  <2>2. W \in State
    <3>1. (j + 1)..n \in SUBSET (1..n)
      BY <1>1
    <3> QED
      BY <1>1, <3>1, WrittenSafe DEF Safe
  <2>3. Stopped(s, j, FALSE) = [W EXCEPT !.dev_events = r]
    BY <1>2 DEF Stopped
  <2>4. W.fds = F /\ W.types = T /\ W.resetall = s.resetall /\ W.view.devices = E
    BY <1>2
  <2> HIDE DEF W, r, E
  <2>5. /\ o.s.fds = F /\ o.s.types = T /\ o.s.resetall = s.resetall
        /\ o.s.dev_events = r /\ o.s.view.devices = E
    BY <1>10, <2>2, <2>3, <2>4 DEF State
  <2>6. o.s \in Safe
    BY <1>3, OutcomeFields
  <2> QED
    BY <1>10, <2>1, <2>5, <2>6 DEF Tracks, Knows
<1> HIDE DEF n, Done, q
<1> QED
  BY <1>5, <1>6, <1>7, <1>8, <1>9, <1>10

\* The pointers once a configuration or a reset of a device has been asked for.
Changed(code, slot, P) ==
    IF code = "CONF" THEN P \cup {slot} ELSE P \ {slot}

\* A device is configured when it is new, and no reset of one is that of all.
OneDevice(code, slot, P) ==
    /\ slot \in DevSlots
    /\ \/ code = "CONF" /\ slot \notin P
       \/ code = "RESET" /\ slot # ALL

LEMMA RequeueTracks ==
  ASSUME NEW F, NEW T, NEW P, NEW s \in Tracks(F, T, P), NEW code, NEW slot,
         OneDevice(code, slot, P)
  PROVE  Requeue(s, code, slot) \in Tracks(F, T, Changed(code, slot, P))
<1> DEFINE q == s.dev_events
           t == Requeue(s, code, slot)
           conf == [i \in DOMAIN q |-> IF q[i].slot = slot THEN [q[i] EXCEPT !.add = TRUE]
                                       ELSE q[i]]
           new == [slot |-> slot, remove |-> FALSE, add |-> TRUE]
           reset == [i \in DOMAIN q |-> IF q[i].slot # slot THEN q[i]
                                        ELSE IF q[i].add THEN [q[i] EXCEPT !.add = FALSE]
                                        ELSE [q[i] EXCEPT !.remove = TRUE]]
           old == [slot |-> slot, remove |-> TRUE, add |-> FALSE]
           some == \E i \in DOMAIN q : q[i].slot = slot
           r == IF code = "CONF" THEN IF some THEN conf ELSE Append(q, new)
                                 ELSE IF some THEN reset ELSE Append(q, old)
<1>1. s \in State /\ s \in Safe /\ q \in Seq(DevEvent) /\ s.fds = F /\ s.types = T
      /\ Knows(s, P)
  BY StateFields DEF Tracks, Safe
<1>2. t \in Safe
  BY <1>1, RequeueSafe DEF OneDevice
<1>3. (EntriesOf(s, slot) # {} <=> some)
      /\ \A i \in DOMAIN q : i \in EntriesOf(s, slot) <=> q[i].slot = slot
  BY DEF EntriesOf
<1>4. t = [s EXCEPT !.dev_events = r]
  <2>1. CASE code = "CONF"
    <3>1. [i \in DOMAIN q |-> IF i \in EntriesOf(s, slot) THEN [q[i] EXCEPT !.add = TRUE]
                                                         ELSE q[i]] = conf
      BY <1>3
    <3>2. t = IF EntriesOf(s, slot) # {} THEN [s EXCEPT !.dev_events = conf]
                                        ELSE [s EXCEPT !.dev_events = Append(q, new)]
      BY <2>1, <3>1 DEF Requeue, add_queue_dev_event_conf
    <3> HIDE DEF conf, new, reset, old, some, t, q
    <3> QED
      BY <1>3, <2>1, <3>2
  <2>2. CASE code # "CONF"
    <3>1. [i \in DOMAIN q |-> IF i \notin EntriesOf(s, slot) THEN q[i]
                              ELSE IF q[i].add THEN [q[i] EXCEPT !.add = FALSE]
                              ELSE [q[i] EXCEPT !.remove = TRUE]] = reset
      BY <1>3
    <3>2. t = IF EntriesOf(s, slot) # {} THEN [s EXCEPT !.dev_events = reset]
                                        ELSE [s EXCEPT !.dev_events = Append(q, old)]
      BY <2>2, <3>1 DEF Requeue, add_queue_dev_event_reset, OneDevice
    <3> HIDE DEF conf, new, reset, old, some, t, q
    <3> QED
      BY <1>3, <2>2, <3>2
  <2> QED
    BY <2>1, <2>2
<1>5. s.open => Owes(r, s.resetall, s.view.devices, Changed(code, slot, P))
  <2> SUFFICES ASSUME s.open
               PROVE  Owes(r, s.resetall, s.view.devices, Changed(code, slot, P))
    OBVIOUS
  <2>1. Owes(q, s.resetall, s.view.devices, P)
    BY <1>1 DEF Knows
  <2>2. CASE code = "CONF"
    <3>1. slot \notin P
      BY <2>2 DEF OneDevice
    <3>2. /\ Owes(conf, s.resetall, s.view.devices, P \cup {slot})
          /\ ~some => Owes(Append(q, new), s.resetall, s.view.devices, P \cup {slot})
      BY <1>1, <2>1, <3>1, ConfOwes
    <3> HIDE DEF conf, new, reset, old
    <3> QED
      BY <2>2, <3>2 DEF Changed
  <2>3. CASE code # "CONF"
    <3>1. /\ some => Owes(reset, s.resetall, s.view.devices, P \ {slot})
          /\ ~some => Owes(Append(q, old), s.resetall, s.view.devices, P \ {slot})
      BY <1>1, <2>1, ResetOwes
    <3> HIDE DEF conf, new, reset, old
    <3> QED
      BY <2>3, <3>1 DEF Changed
  <2> QED
    BY <2>2, <2>3
<1> HIDE DEF r
<1>6. /\ t.fds = F /\ t.types = T /\ t.open = s.open /\ t.dev_events = r
      /\ t.resetall = s.resetall /\ t.view = s.view
  BY <1>1, <1>4 DEF State
<1> HIDE DEF t
<1>7. t \in Tracks(F, T, Changed(code, slot, P))
  BY <1>2, <1>5, <1>6 DEF Tracks, Knows
<1> QED
  BY <1>7 DEF t

\* Setting resetall when the queue is empty, and clearing it when the client knows
\* no device.
LEMMA ResetAllTracks ==
  ASSUME NEW s \in Safe, NEW P
  PROVE  /\ ~s.open \/ s.dev_events = <<>> =>
               [s EXCEPT !.resetall = TRUE] \in Tracks(s.fds, s.types, P)
         /\ ~s.open \/ Owes(s.dev_events, FALSE, s.view.devices, P) =>
               [s EXCEPT !.resetall = FALSE] \in Tracks(s.fds, s.types, P)
<1>1. s \in State /\ s.dev_events \in Seq(DevEvent)
  BY StateFields DEF Safe
<1>2. ASSUME NEW b \in BOOLEAN
      PROVE  LET t == [s EXCEPT !.resetall = b]
             IN  /\ t \in Safe /\ t.fds = s.fds /\ t.types = s.types /\ t.open = s.open
                 /\ t.dev_events = s.dev_events /\ t.resetall = b /\ t.view = s.view
  BY <1>1, FieldSafe DEF State
<1>3. Owes(<<>>, TRUE, s.view.devices, P)
  BY OwesNothing
<1> QED
  BY <1>2, <1>3 DEF Tracks, Knows

\* A record about one device is written when the queue has been.
LEMMA OneWritten ==
  ASSUME NEW F, NEW T, NEW P, NEW s \in Tracks(F, T, P), NEW code, NEW slot,
         OneDevice(code, slot, P), NEW m, Silent(m),
         NEW o \in WriteDevEvent(s, code, slot, m)
  PROVE  /\ o.ok \in BOOLEAN /\ o.s \in Safe /\ o.s.fds = F /\ o.s.types = T
         /\ ~o.ok => o.s \in Tracks(F, T, P)
         /\ o.ok /\ o.s.open =>
               /\ o.s.dev_events = <<>>
               /\ \E u \in Tracks(F, T, P) :
                     /\ u.open /\ u.dev_events = <<>> /\ u.resetall = o.s.resetall
                     /\ o.s.view.devices = Read(u.view, m).devices
<1>1. PICK f \in flush_queued_dev_events(s) :
         o \in IF f.ok THEN send_to_plugin(f.s, m) ELSE {f}
  BY DEF WriteDevEvent, OneDevice
<1>2. /\ f.ok \in BOOLEAN /\ f.s \in Tracks(F, T, P)
      /\ f.ok => ~f.s.open \/ f.s.dev_events = <<>>
  BY FlushTracks
<1>3. f.s \in Safe /\ f.s.fds = F /\ f.s.types = T
  BY <1>2 DEF Tracks
<1>4. CASE ~f.ok
  BY <1>1, <1>2, <1>3, <1>4
<1>5. CASE f.ok
  <2>1. o \in send_to_plugin(f.s, m)
    BY <1>1, <1>5
  <2>2. /\ o.ok \in BOOLEAN /\ o.s \in Safe /\ o.s.fds = f.s.fds /\ o.s.types = f.s.types
        /\ \/ ~o.s.open
           \/ ~o.ok /\ o.s = f.s
           \/ /\ o.ok /\ o.s.view.devices = Read(f.s.view, m).devices
              /\ o.s.dev_events = f.s.dev_events /\ o.s.resetall = f.s.resetall
              /\ f.s.open /\ o.s.open
    BY <1>3, <2>1, DevWritten
  <2>3. ~o.s.open => o.s \in Tracks(F, T, P)
    BY <1>3, <2>2 DEF Tracks, Knows
  <2> QED
    BY <1>2, <1>3, <1>5, <2>2, <2>3
<1> QED
  BY <1>2, <1>4, <1>5

Alone(t, code, slot) ==
    {IF o.ok THEN o.s ELSE Requeue(o.s, code, slot) :
        o \in WriteDevEvent(t, code, slot, Msg(code, slot))}

LEMMA DeviceRecord ==
  ASSUME NEW code, NEW slot \in DevSlots, code \in {"CONF", "RESET"}
  PROVE  Silent(Msg(code, slot)) /\ Silent(Msg("RESET", ALL))
BY MsgSendable, Constants DEF Silent, Sendable, Msg

LEMMA AloneTracks ==
  ASSUME NEW F, NEW T, NEW P, NEW s \in Tracks(F, T, P), NEW code, NEW slot,
         OneDevice(code, slot, P)
  PROVE  Alone(s, code, slot) \subseteq Tracks(F, T, Changed(code, slot, P))
<1> DEFINE m == Msg(code, slot)
<1>1. Silent(m)
  BY DeviceRecord DEF OneDevice
<1> SUFFICES ASSUME NEW o \in WriteDevEvent(s, code, slot, m)
             PROVE  (IF o.ok THEN o.s ELSE Requeue(o.s, code, slot))
                       \in Tracks(F, T, Changed(code, slot, P))
  BY DEF Alone
<1>2. /\ o.ok \in BOOLEAN /\ o.s \in Safe /\ o.s.fds = F /\ o.s.types = T
      /\ ~o.ok => o.s \in Tracks(F, T, P)
      /\ o.ok /\ o.s.open =>
            /\ o.s.dev_events = <<>>
            /\ \E u \in Tracks(F, T, P) :
                  /\ u.open /\ u.dev_events = <<>> /\ u.resetall = o.s.resetall
                  /\ o.s.view.devices = Read(u.view, m).devices
  <2> HIDE DEF m
  <2> QED
    BY <1>1, OneWritten
<1>3. CASE ~o.ok
  BY <1>2, <1>3, RequeueTracks
<1>4. CASE o.ok /\ ~o.s.open
  BY <1>2, <1>4 DEF Tracks, Knows
<1>5. CASE o.ok /\ o.s.open
  <2>1. PICK u \in Tracks(F, T, P) :
           /\ u.open /\ u.dev_events = <<>> /\ u.resetall = o.s.resetall
           /\ o.s.view.devices = Read(u.view, m).devices
    BY <1>2, <1>5
  <2>2. u.resetall \/ u.view.devices \subseteq P
    BY <2>1 DEF Tracks, Knows, Owes
  <2>3. u.view \in View
    BY StateFields DEF Tracks, Safe
  <2>4. o.s.view.devices =
           IF code = "CONF" THEN u.view.devices \cup {slot} ELSE u.view.devices \ {slot}
    <3>1. CASE code = "CONF"
      <4>1. Read(u.view, m) = [u.view EXCEPT !.devices = @ \cup {slot}]
        BY <3>1 DEF Read, Msg
      <4> QED
        BY <2>1, <2>3, <3>1, <4>1 DEF View
    <3>2. CASE code # "CONF"
      <4>1. Read(u.view, m) = [u.view EXCEPT !.devices = @ \ {slot}]
        BY <3>2 DEF Read, Msg, OneDevice
      <4> QED
        BY <2>1, <2>3, <3>2, <4>1 DEF View
    <3> QED
      BY <3>1, <3>2
  <2>5. o.s.resetall \/ o.s.view.devices \subseteq Changed(code, slot, P)
    BY <2>1, <2>2, <2>4 DEF Changed
  <2>6. Owes(o.s.dev_events, o.s.resetall, o.s.view.devices, Changed(code, slot, P))
    BY <1>2, <1>5, <2>5, OwesNothing
  <2>7. o.s \in Tracks(F, T, Changed(code, slot, P))
    BY <1>2, <2>6 DEF Tracks, Knows
  <2> QED
    BY <1>5, <2>7
<1> QED
  BY <1>2, <1>3, <1>4, <1>5

LEMMA DevEventForm ==
  ASSUME NEW s, NEW code, NEW slot
  PROVE  send_plugin_dev_event(s, code, slot) =
           IF ~s.resetall THEN Alone(s, code, slot)
           ELSE UNION {IF o.ok THEN Alone([o.s EXCEPT !.resetall = FALSE], code, slot)
                       ELSE {Requeue(o.s, code, slot)} :
                          o \in WriteDevEvent(s, code, slot, Msg("RESET", ALL))}
BY DEF send_plugin_dev_event, Alone

\* The client knows nothing when it has been told to forget every device.
LEMMA AllForgotten ==
  ASSUME NEW v \in View
  PROVE  Read(v, Msg("RESET", ALL)).devices = {}
<1>1. Read(v, Msg("RESET", ALL)) = [v EXCEPT !.devices = {}]
  BY DEF Read, Msg
<1> QED
  BY <1>1 DEF View

LEMMA DevEventTracks ==
  ASSUME NEW F, NEW T, NEW P, NEW s \in Tracks(F, T, P), NEW code, NEW slot,
         OneDevice(code, slot, P)
  PROVE  send_plugin_dev_event(s, code, slot) \subseteq Tracks(F, T, Changed(code, slot, P))
<1> DEFINE m == Msg("RESET", ALL)
           First(o) == IF o.ok THEN Alone([o.s EXCEPT !.resetall = FALSE], code, slot)
                       ELSE {Requeue(o.s, code, slot)}
<1>1. ASSUME NEW o \in WriteDevEvent(s, code, slot, m)
      PROVE  First(o) \subseteq Tracks(F, T, Changed(code, slot, P))
  <2>1. Silent(m)
    BY DeviceRecord DEF OneDevice
  <2>2. /\ o.ok \in BOOLEAN /\ o.s \in Safe /\ o.s.fds = F /\ o.s.types = T
        /\ ~o.ok => o.s \in Tracks(F, T, P)
        /\ o.ok /\ o.s.open =>
              /\ o.s.dev_events = <<>>
              /\ \E u \in Tracks(F, T, P) :
                    /\ u.open /\ u.dev_events = <<>> /\ u.resetall = o.s.resetall
                    /\ o.s.view.devices = Read(u.view, m).devices
    <3> HIDE DEF m
    <3> QED
      BY <1>1, <2>1, OneWritten
  <2>3. CASE ~o.ok
    BY <2>2, <2>3, RequeueTracks
  <2>4. CASE o.ok
    <3>1. o.s.open => o.s.dev_events = <<>> /\ o.s.view.devices = {}
      <4>1. \A u \in Tracks(F, T, P) : u.view \in View
        BY StateFields DEF Tracks, Safe
      <4> QED
        BY <2>2, <2>4, <4>1, AllForgotten
    <3>2. ~o.s.open \/ Owes(o.s.dev_events, FALSE, o.s.view.devices, P)
      BY <3>1, OwesNothing
    <3>3. [o.s EXCEPT !.resetall = FALSE] \in Tracks(F, T, P)
      BY <2>2, <3>2, ResetAllTracks
    <3> QED
      BY <2>4, <3>3, AloneTracks
  <2> QED
    BY <2>2, <2>3, <2>4
<1>2. send_plugin_dev_event(s, code, slot) =
        IF ~s.resetall THEN Alone(s, code, slot)
        ELSE UNION {First(o) : o \in WriteDevEvent(s, code, slot, m)}
  BY DevEventForm
<1>3. Alone(s, code, slot) \subseteq Tracks(F, T, Changed(code, slot, P))
  BY AloneTracks
<1> HIDE DEF First
<1> QED
  BY <1>1, <1>2, <1>3

\* A reset of all devices leaves nothing that the client knows, or owes it again.
LEMMA ForgetTracks ==
  ASSUME NEW s \in Safe
  PROVE  send_plugin_dev_event(s, "RESET", ALL) \subseteq Tracks(s.fds, s.types, {})
<1> DEFINE m == Msg("RESET", ALL)
<1>1. ASSUME NEW t \in Safe, t.fds = s.fds, t.types = s.types,
             NEW o \in WriteDevEvent(t, "RESET", ALL, m)
      PROVE  /\ o.ok \in BOOLEAN /\ o.s \in Safe /\ o.s.fds = s.fds /\ o.s.types = s.types
             /\ ~o.s.open \/ o.s.dev_events = <<>>
             /\ o.ok => ~o.s.open \/ o.s.view.devices = {}
  <2> DEFINE u == [t EXCEPT !.dev_events = <<>>]
  <2>1. t \in State
    BY DEF Safe
  <2>2. u \in Safe /\ u.fds = t.fds /\ u.types = t.types /\ u.dev_events = <<>>
        /\ u.view \in View
    BY <2>1, EmptySeq, FieldSafe, StateFields DEF State
  <2>3. o \in send_to_plugin(u, m)
    BY <1>1 DEF WriteDevEvent
  <2> HIDE DEF u
  <2>4. Silent(m)
    BY MsgSendable
  <2>5. Read(u.view, m).devices = {}
    BY <2>2, AllForgotten
  <2> HIDE DEF m
  <2>6. /\ o.ok \in BOOLEAN /\ o.s \in Safe /\ o.s.fds = u.fds /\ o.s.types = u.types
        /\ \/ ~o.s.open
           \/ ~o.ok /\ o.s = u
           \/ /\ o.ok /\ o.s.view.devices = Read(u.view, m).devices
              /\ o.s.dev_events = u.dev_events /\ o.s.resetall = u.resetall
              /\ u.open /\ o.s.open
    BY <2>2, <2>3, <2>4, DevWritten
  <2> QED
    BY <1>1, <2>2, <2>5, <2>6
<1>2. \A t : Requeue(t, "RESET", ALL) = [t EXCEPT !.resetall = TRUE]
  BY DEF Requeue, add_queue_dev_event_reset
<1>3. ASSUME NEW t \in Safe, t.fds = s.fds, t.types = s.types
      PROVE  Alone(t, "RESET", ALL) \subseteq Tracks(s.fds, s.types, {})
  <2> SUFFICES ASSUME NEW o \in WriteDevEvent(t, "RESET", ALL, m)
               PROVE  (IF o.ok THEN o.s ELSE Requeue(o.s, "RESET", ALL))
                         \in Tracks(s.fds, s.types, {})
    BY DEF Alone
  <2>1. /\ o.ok \in BOOLEAN /\ o.s \in Safe /\ o.s.fds = s.fds /\ o.s.types = s.types
        /\ ~o.s.open \/ o.s.dev_events = <<>>
        /\ o.ok => ~o.s.open \/ o.s.view.devices = {}
    BY <1>1, <1>3
  <2>2. CASE o.ok
    <3>1. o.s.open => Owes(o.s.dev_events, o.s.resetall, o.s.view.devices, {})
      BY <2>1, <2>2, OwesNothing
    <3>2. o.s \in Tracks(s.fds, s.types, {})
      BY <2>1, <3>1 DEF Tracks, Knows
    <3> QED
      BY <2>2, <3>2
  <2>3. CASE ~o.ok
    <3>1. [o.s EXCEPT !.resetall = TRUE] \in Tracks(s.fds, s.types, {})
      BY <2>1, ResetAllTracks
    <3> QED
      BY <1>2, <2>3, <3>1
  <2> QED
    BY <2>1, <2>2, <2>3
<1> DEFINE First(o) == IF o.ok THEN Alone([o.s EXCEPT !.resetall = FALSE], "RESET", ALL)
                       ELSE {Requeue(o.s, "RESET", ALL)}
<1>4. ASSUME NEW o \in WriteDevEvent(s, "RESET", ALL, m)
      PROVE  First(o) \subseteq Tracks(s.fds, s.types, {})
  <2>1. /\ o.ok \in BOOLEAN /\ o.s \in Safe /\ o.s.fds = s.fds /\ o.s.types = s.types
        /\ ~o.s.open \/ o.s.dev_events = <<>>
    BY <1>1, <1>4
  <2>2. /\ [o.s EXCEPT !.resetall = FALSE] \in Safe
        /\ [o.s EXCEPT !.resetall = FALSE].fds = s.fds
        /\ [o.s EXCEPT !.resetall = FALSE].types = s.types
    <3>1. o.s \in State
      BY <2>1 DEF Safe
    <3>2. [o.s EXCEPT !.resetall = FALSE] \in Safe
      BY <2>1, FieldSafe
    <3>3. /\ [o.s EXCEPT !.resetall = FALSE].fds = o.s.fds
          /\ [o.s EXCEPT !.resetall = FALSE].types = o.s.types
      BY <3>1 DEF State
    <3> QED
      BY <2>1, <3>2, <3>3
  <2>3. Requeue(o.s, "RESET", ALL) \in Tracks(s.fds, s.types, {})
    <3>1. [o.s EXCEPT !.resetall = TRUE] \in Tracks(s.fds, s.types, {})
      BY <2>1, ResetAllTracks
    <3> QED
      BY <1>2, <3>1
  <2> QED
    BY <1>3, <2>1, <2>2, <2>3
<1>5. send_plugin_dev_event(s, "RESET", ALL) =
        IF ~s.resetall THEN Alone(s, "RESET", ALL)
        ELSE UNION {First(o) : o \in WriteDevEvent(s, "RESET", ALL, m)}
  BY DevEventForm
<1> HIDE DEF First, m
<1> QED
  BY <1>3, <1>4, <1>5


\* Once its loop is done the client is to know the pointers, and no device else.
LEMMA SendConfigTracks ==
  ASSUME NEW s \in Safe
  PROVE  sock_plugin_sendconfig(s)
            \subseteq Tracks(s.fds, s.types, {k \in DevSlots : s.types[k] = "POINTER"})
<1> DEFINE f == CHOOSE f : Turns(s, N_DEVS, f)
           Before(n) == {k \in DevSlots : k < n /\ s.types[k] = "POINTER"}
           Good(n) == f[n] \subseteq Tracks(s.fds, s.types, Before(n))
           Bad == {n \in 0..N_DEVS : ~Good(n)}
<1>1. N_DEVS \in Nat /\ \A k : k \in DevSlots <=> k \in Nat /\ k < N_DEVS
  BY PluginAssumption DEF DevSlots
<1>2. Turns(s, N_DEVS, f)
  BY <1>1, TurnsExist
<1>3. sock_plugin_sendconfig(s) = f[N_DEVS]
  BY DEF sock_plugin_sendconfig, Turns, Turn
<1> HIDE DEF f
<1>4. \A n \in 0..N_DEVS : f[n] = Turn(s, n, f[n - 1])
  BY <1>2 DEF Turns
<1>5. Before(N_DEVS) = {k \in DevSlots : s.types[k] = "POINTER"}
  BY <1>1
<1>6. SUFFICES ASSUME Bad # {}
               PROVE  FALSE
  BY <1>1, <1>3, <1>5
<1>7. PICK n \in Bad : \A i \in Bad : n <= i
  <2>1. Bad \in SUBSET Nat
    BY <1>1
  <2> HIDE DEF Bad
  <2> QED
    BY <1>6, <2>1, Least
<1>8. n \in 0..N_DEVS /\ n \in Nat /\ n <= N_DEVS /\ ~Good(n)
  BY <1>1
<1>9. CASE n = 0
  <2>1. Before(0) = {}
    <3>1. \A k \in DevSlots : ~(k < 0)
      BY <1>1
    <3> QED
      BY <3>1
  <2>2. f[0] = send_plugin_dev_event(s, "RESET", ALL)
    BY <1>4, <1>8, <1>9 DEF Turn
  <2> QED
    BY <1>8, <1>9, <2>1, <2>2, ForgetTracks
<1>10. CASE n # 0
  <2>1. n - 1 \in Nat /\ n - 1 < N_DEVS /\ n - 1 < n /\ n - 1 \in 0..N_DEVS /\ ~(n <= n - 1)
        /\ n - 1 \in DevSlots
    <3> HIDE DEF Good, Before, Bad
    <3> QED
      BY <1>1, <1>8, <1>10
  <2>2. Good(n - 1)
    <3> HIDE DEF Good
    <3> QED
      BY <1>7, <2>1
  <2>3. f[n] = UNION {IF s.types[n - 1] = "POINTER"
                      THEN send_plugin_dev_event(t, "CONF", n - 1) ELSE {t} : t \in f[n - 1]}
    BY <1>4, <1>8, <1>10 DEF Turn
  <2>4. \A k \in DevSlots : k < n <=> k < n - 1 \/ k = n - 1
    <3> HIDE DEF Good, Before, Bad
    <3> QED
      BY <1>1, <1>8
  <2>5. CASE s.types[n - 1] = "POINTER"
    <3>1. Changed("CONF", n - 1, Before(n - 1)) = Before(n)
      BY <2>1, <2>4, <2>5 DEF Changed
    <3>2. OneDevice("CONF", n - 1, Before(n - 1))
      <4>1. ~(n - 1 < n - 1)
        BY <1>8
      <4>2. n - 1 \notin Before(n - 1)
        BY <4>1
      <4> HIDE DEF Before
      <4> QED
        BY <2>1, <4>2 DEF OneDevice
    <3> HIDE DEF Before
    <3>3. \A t \in Tracks(s.fds, s.types, Before(n - 1)) :
             send_plugin_dev_event(t, "CONF", n - 1) \subseteq Tracks(s.fds, s.types, Before(n))
      BY <3>1, <3>2, DevEventTracks
    <3> QED
      BY <1>8, <2>2, <2>3, <2>5, <3>3
  <2>6. CASE s.types[n - 1] # "POINTER"
    <3>1. Before(n) = Before(n - 1)
      BY <2>1, <2>4, <2>6
    <3>2. f[n] \subseteq f[n - 1]
      BY <2>3, <2>6
    <3> QED
      BY <1>8, <2>2, <3>1, <3>2
  <2> QED
    BY <2>5, <2>6
<1> QED
  BY <1>9, <1>10

-----------------------------------------------------------------------------
(* Events say nothing of the devices, and what goes before them is owed.   *)

LEMMA FieldApart ==
  ASSUME NEW s \in State
  PROVE  /\ \A b \in BOOLEAN : /\ Apart(s, [s EXCEPT !.dropped = b])
                               /\ Apart(s, [s EXCEPT !.slot_dropped = b])
                               /\ Apart(s, [s EXCEPT !.error = b])
         /\ \A v \in View : v.devices = s.view.devices => Apart(s, [s EXCEPT !.view = v])
<1>1. ASSUME NEW b \in BOOLEAN
      PROVE  Apart(s, [s EXCEPT !.dropped = b])
  BY DEF Apart, State
<1>2. ASSUME NEW b \in BOOLEAN
      PROVE  Apart(s, [s EXCEPT !.slot_dropped = b])
  BY DEF Apart, State
<1>3. ASSUME NEW b \in BOOLEAN
      PROVE  Apart(s, [s EXCEPT !.error = b])
  BY DEF Apart, State
<1>4. ASSUME NEW v \in View, v.devices = s.view.devices
      PROVE  Apart(s, [s EXCEPT !.view = v])
  BY <1>4 DEF Apart, State
<1> QED
  BY <1>1, <1>2, <1>3, <1>4

LEMMA ReportApart ==
  ASSUME NEW s \in Safe, NEW o \in ReportDropped(s)
  PROVE  Apart(s, o.s)
<1>1. CASE ~s.dropped
  <2>1. o = [ok |-> TRUE, s |-> s]
    BY <1>1 DEF ReportDropped
  <2> QED
    BY <2>1, ApartItself
<1>2. CASE s.dropped
  <2>1. PICK w \in send_to_plugin(s, Msg("DROPPED", 0)) :
           o = [w EXCEPT !.s.dropped = ~w.ok]
    BY <1>2 DEF ReportDropped
  <2>2. Msg("DROPPED", 0).op \notin {"CONF", "RESET"}
    BY DEF Msg
  <2>3. Apart(s, w.s) /\ w.ok \in BOOLEAN
    BY <2>2, MsgSendable, WriteApart, WriteOutcome
  <2>4. w = [ok |-> w.ok, s |-> w.s]
    BY DEF send_to_plugin
  <2>5. o.s = [w.s EXCEPT !.dropped = ~w.ok]
    BY <2>1, <2>4
  <2>6. Apart(w.s, o.s)
    <3>1. w.s \in State /\ (~w.ok) \in BOOLEAN
      BY <2>3 DEF Apart
    <3> QED
      BY <2>5, <3>1, FieldApart
  <2> QED
    BY <2>3, <2>6, ApartApart
<1> QED
  BY <1>1, <1>2

LEMMA SendSlotApart ==
  ASSUME NEW s \in Safe, NEW slot \in DevSlots, NEW t \in send_slot(s, slot)
  PROVE  Apart(s, t)
<1> DEFINE Told(u) == [u EXCEPT !.slot = slot, !.dropped = u.slot_dropped,
                                !.slot_dropped = FALSE]
           Not(u) == [u EXCEPT !.slot_dropped = TRUE]
<1>1. \A u \in State : Apart(u, Told(u)) /\ Apart(u, Not(u))
  <2> TAKE u \in State
  <2>1. slot \in Int /\ u.slot_dropped \in BOOLEAN
    BY Constants, StateFields
  <2>2. Apart(u, Told(u))
    BY <2>1 DEF Apart, State
  <2> HIDE DEF Told
  <2> QED
    BY <2>2, FieldApart
<1>2. PICK o \in ReportDropped(s) :
         t \in IF ~o.ok THEN {Not(o.s)}
               ELSE {IF p.ok THEN Told(p.s) ELSE Not(p.s) :
                       p \in send_to_plugin(o.s, Msg("SET", slot))}
  BY DEF send_slot
<1> HIDE DEF Told, Not
<1>3. Apart(s, o.s) /\ o.s \in Safe /\ o.s \in State
  BY ReportApart, ReportSafe, OutcomeFields
<1>4. CASE ~o.ok
  BY <1>1, <1>2, <1>3, <1>4, ApartApart
<1>5. CASE o.ok
  <2>1. PICK p \in send_to_plugin(o.s, Msg("SET", slot)) :
           t = IF p.ok THEN Told(p.s) ELSE Not(p.s)
    BY <1>2, <1>5
  <2>2. Sendable(Msg("SET", slot)) /\ Msg("SET", slot).op \notin {"CONF", "RESET"}
    BY Constants, MsgSendable DEF Msg
  <2>3. Apart(o.s, p.s) /\ p.s \in State
    BY <1>3, <2>2, WriteApart DEF Apart
  <2>4. Apart(p.s, t)
    BY <1>1, <2>1, <2>3
  <2> QED
    BY <1>3, <2>3, <2>4, ApartApart
<1> QED
  BY <1>4, <1>5

LEMMA LoseApart ==
  ASSUME NEW s \in State, NEW slot \in DevSlots
  PROVE  Apart(s, Lose(s, slot))
<1> DEFINE a == [s.view EXCEPT !.lost = @ \cup {slot}]
           b == [s.view EXCEPT !.skipped = @ \cup {slot}]
<1>1. s.view \in View
  BY StateFields
<1>2. a \in View /\ a.devices = s.view.devices /\ b \in View /\ b.devices = s.view.devices
  BY <1>1 DEF View
<1>3. Lose(s, slot) = IF s.slot = slot THEN [s EXCEPT !.view = a] ELSE [s EXCEPT !.view = b]
  BY DEF Lose, State
<1> HIDE DEF a, b
<1> QED
  BY <1>2, <1>3, FieldApart

LEMMA BacklogReset ==
  ASSUME NEW F, NEW T, NEW P, NEW s \in Tracks(F, T, P), s.resetall,
         NEW o \in send_to_plugin(s, Msg("RESET", ALL))
  PROVE  o.ok \in BOOLEAN /\ [o.s EXCEPT !.resetall = ~o.ok] \in Tracks(F, T, P)
<1>0. PICK m : m = Msg("RESET", ALL)
  OBVIOUS
<1>1. s \in Safe /\ s.fds = F /\ s.types = T /\ Knows(s, P) /\ s.view \in View
  BY StateFields DEF Tracks, Safe
<1>2. Read(s.view, m).devices = {} /\ Silent(m) /\ o \in send_to_plugin(s, m)
  BY <1>0, <1>1, AllForgotten, MsgSendable
<1>3. /\ o.ok \in BOOLEAN /\ o.s \in Safe /\ o.s.fds = F /\ o.s.types = T
      /\ \/ ~o.s.open
         \/ ~o.ok /\ o.s = s
         \/ /\ o.ok /\ o.s.view.devices = {}
            /\ o.s.dev_events = s.dev_events /\ o.s.resetall = s.resetall
            /\ s.open /\ o.s.open
  <2>1. /\ o.ok \in BOOLEAN /\ o.s \in Safe /\ o.s.fds = s.fds /\ o.s.types = s.types
        /\ \/ ~o.s.open
           \/ ~o.ok /\ o.s = s
           \/ /\ o.ok /\ o.s.view.devices = Read(s.view, m).devices
              /\ o.s.dev_events = s.dev_events /\ o.s.resetall = s.resetall
              /\ s.open /\ o.s.open
    BY <1>1, <1>2, DevWritten
  <2> QED
    BY <1>1, <1>2, <2>1
<1>4. CASE o.ok
  <2>1. s.open => Owes(s.dev_events, FALSE, {}, P)
    BY <1>1 DEF Knows, Owes
  <2>2. ~o.s.open \/ Owes(o.s.dev_events, FALSE, o.s.view.devices, P)
    BY <1>3, <1>4, <2>1
  <2>3. [o.s EXCEPT !.resetall = FALSE] \in Tracks(F, T, P)
    BY <1>3, <2>2, ResetAllTracks
  <2> QED
    BY <1>3, <1>4, <2>3
<1>5. CASE ~o.ok
  <2>1. CASE ~o.s.open
    <3>1. [o.s EXCEPT !.resetall = TRUE] \in Tracks(F, T, P)
      BY <1>3, <2>1, ResetAllTracks
    <3>2. ~o.ok = TRUE
      BY <1>3, <1>5
    <3> QED
      BY <1>3, <3>1, <3>2
  <2>2. CASE o.s = s
    <3>1. s \in State /\ s.resetall = TRUE
      BY <1>1, StateFields DEF Safe
    <3>2. [s EXCEPT !.resetall = TRUE] = s
      BY <3>1 DEF State
    <3>3. ~o.ok = TRUE
      BY <1>3, <1>5
    <3> QED
      BY <1>3, <2>2, <3>2, <3>3
  <2> QED
    BY <1>3, <1>5, <2>1, <2>2
<1> QED
  BY <1>3, <1>4, <1>5

LEMMA BacklogTracks ==
  ASSUME NEW F, NEW T, NEW P, NEW s \in Tracks(F, T, P), NEW o \in Backlog(s)
  PROVE  o.ok \in BOOLEAN /\ o.s \in Tracks(F, T, P)
<1> DEFINE Errors == IF s.error
                     THEN {[e EXCEPT !.s.error = ~e.ok] :
                             e \in send_to_plugin(s, Msg("ERROR", 0))}
                     ELSE {[ok |-> TRUE, s |-> s]}
           Resets(t) == IF t.resetall
                        THEN {[e EXCEPT !.s.resetall = ~e.ok] :
                                e \in send_to_plugin(t, Msg("RESET", ALL))}
                        ELSE {[ok |-> TRUE, s |-> t]}
           Flush(e) == UNION {IF p.ok THEN flush_queued_dev_events(p.s) ELSE {p} :
                                p \in Resets(e.s)}
<1>1. s \in Safe
  BY DEF Tracks
<1>2. ASSUME NEW e \in Errors
      PROVE  e.ok \in BOOLEAN /\ e.s \in Tracks(F, T, P)
  <2>1. CASE ~s.error
    <3>1. e = [ok |-> TRUE, s |-> s]
      BY <2>1, Zenon
    <3> QED
      BY <3>1
  <2>2. CASE s.error
    <3>1. PICK w \in send_to_plugin(s, Msg("ERROR", 0)) : e = [w EXCEPT !.s.error = ~w.ok]
      BY <2>2
    <3>2. w \in Outcome
      BY <1>1, MsgSendable, WriteSafe
    <3>3. Apart(s, w.s)
      <4>1. Msg("ERROR", 0).op \notin {"CONF", "RESET"} /\ Sendable(Msg("ERROR", 0))
        BY MsgSendable DEF Msg, Silent
      <4> QED
        BY <1>1, <4>1, WriteApart
    <3>4. e = [ok |-> w.ok, s |-> [w.s EXCEPT !.error = ~w.ok]]
      <4>1. w = [ok |-> w.ok, s |-> w.s]
        BY DEF send_to_plugin
      <4> QED
        BY <3>1, <4>1
    <3>5. w.s \in State /\ w.s \in Safe /\ w.ok \in BOOLEAN /\ (~w.ok) \in BOOLEAN
      BY <3>2, OutcomeFields
    <3>6. Apart(s, e.s) /\ e.s \in Safe /\ e.ok \in BOOLEAN
      BY <3>3, <3>4, <3>5, FieldApart, FieldSafe, ApartApart
    <3> QED
      BY <3>6, ApartTracks
  <2> QED
    BY <2>1, <2>2
<1>3. ASSUME NEW t \in Tracks(F, T, P), NEW e \in Resets(t)
      PROVE  e.ok \in BOOLEAN /\ e.s \in Tracks(F, T, P)
  <2>1. CASE ~t.resetall
    <3>1. e = [ok |-> TRUE, s |-> t]
      BY <1>3, <2>1, Zenon
    <3> QED
      BY <3>1
  <2>2. CASE t.resetall
    <3>1. PICK w \in send_to_plugin(t, Msg("RESET", ALL)) :
             e = [w EXCEPT !.s.resetall = ~w.ok]
      BY <1>3, <2>2
    <3>2. e = [ok |-> w.ok, s |-> [w.s EXCEPT !.resetall = ~w.ok]]
      <4>1. w = [ok |-> w.ok, s |-> w.s]
        BY DEF send_to_plugin
      <4> QED
        BY <3>1, <4>1
    <3> QED
      BY <2>2, <3>2, BacklogReset
  <2> QED
    BY <2>1, <2>2
<1>4. Backlog(s) = UNION {IF ~e.ok THEN {e} ELSE Flush(e) : e \in Errors}
  BY DEF Backlog
<1> HIDE DEF Errors, Resets
<1>5. ASSUME NEW e \in Errors, NEW p \in Flush(e)
      PROVE  p.ok \in BOOLEAN /\ p.s \in Tracks(F, T, P)
  <2>1. PICK r \in Resets(e.s) : p \in IF r.ok THEN flush_queued_dev_events(r.s) ELSE {r}
    BY <1>5
  <2>2. r.ok \in BOOLEAN /\ r.s \in Tracks(F, T, P)
    BY <1>2, <1>3
  <2> QED
    BY <2>1, <2>2, FlushTracks
<1> HIDE DEF Flush
<1> QED
  BY <1>2, <1>4, <1>5

LEMMA EventTracks ==
  ASSUME NEW F, NEW T, NEW P, NEW s \in Tracks(F, T, P), NEW slot \in DevSlots
  PROVE  send_plugin_event(s, slot) \subseteq Tracks(F, T, P)
<1> DEFINE Cannot(t) == IF t.slot # slot THEN [t EXCEPT !.slot_dropped = TRUE]
                                         ELSE [t EXCEPT !.dropped = TRUE]
           Announced(t) == IF t.slot # slot THEN send_slot(t, slot) ELSE {t}
           Write(t) == {IF o.ok THEN o.s ELSE Lose([o.s EXCEPT !.dropped = TRUE], slot) :
                          o \in send_to_plugin(t, Msg("EVENT", slot))}
           Reported(t) == UNION {IF o.ok THEN Write(o.s) ELSE {Lose(o.s, slot)} :
                                   o \in ReportDropped(t)}
           Sent(t) == UNION {Reported(u) : u \in Announced(t)}
<1>1. ASSUME NEW t \in State
      PROVE  Apart(t, Lose(Cannot(t), slot)) /\ Apart(t, Lose([t EXCEPT !.dropped = TRUE], slot))
  <2>1. Apart(t, [t EXCEPT !.slot_dropped = TRUE]) /\ Apart(t, [t EXCEPT !.dropped = TRUE])
    BY FieldApart
  <2>2. Apart(t, Cannot(t)) /\ Cannot(t) \in State /\ [t EXCEPT !.dropped = TRUE] \in State
    BY <2>1 DEF Apart
  <2> HIDE DEF Cannot
  <2>3. /\ Apart(Cannot(t), Lose(Cannot(t), slot))
        /\ Apart([t EXCEPT !.dropped = TRUE], Lose([t EXCEPT !.dropped = TRUE], slot))
    BY <2>2, LoseApart
  <2> QED
    BY <2>1, <2>2, <2>3, ApartApart
<1>2. ASSUME NEW t \in Safe, NEW u \in Announced(t)
      PROVE  Apart(t, u) /\ u \in Safe
  BY <1>2, SendSlotApart, SendSlotSafe, ApartItself
<1>3. ASSUME NEW t \in Safe, NEW u \in Write(t)
      PROVE  Apart(t, u)
  <2>1. PICK o \in send_to_plugin(t, Msg("EVENT", slot)) :
           u = IF o.ok THEN o.s ELSE Lose([o.s EXCEPT !.dropped = TRUE], slot)
    BY <1>3
  <2>2. Sendable(Msg("EVENT", slot)) /\ Msg("EVENT", slot).op \notin {"CONF", "RESET"}
    BY Constants, MsgSendable DEF Msg
  <2>3. Apart(t, o.s) /\ o.s \in State
    BY <2>2, WriteApart DEF Apart
  <2> QED
    BY <1>1, <2>1, <2>3, ApartApart
<1>4. send_plugin_event(s, slot) =
        UNION {IF o.ok THEN Sent(o.s) ELSE {Lose(Cannot(o.s), slot)} : o \in Backlog(s)}
  BY DEF send_plugin_event
<1> HIDE DEF Cannot, Announced, Write
<1>5. ASSUME NEW t \in Safe, NEW u \in Reported(t)
      PROVE  Apart(t, u)
  <2>1. PICK o \in ReportDropped(t) : u \in IF o.ok THEN Write(o.s) ELSE {Lose(o.s, slot)}
    BY <1>5
  <2>2. Apart(t, o.s) /\ o.s \in Safe /\ o.s \in State
    BY ReportApart, ReportSafe, OutcomeFields
  <2>3. Apart(o.s, u)
    BY <1>3, <2>1, <2>2, LoseApart
  <2> QED
    BY <2>2, <2>3, ApartApart
<1> HIDE DEF Reported
<1>6. ASSUME NEW t \in Safe, NEW u \in Sent(t)
      PROVE  Apart(t, u)
  BY <1>2, <1>5, <1>6, ApartApart
<1> HIDE DEF Sent
<1> SUFFICES ASSUME NEW u \in send_plugin_event(s, slot)
             PROVE  u \in Tracks(F, T, P)
  OBVIOUS
<1>7. PICK o \in Backlog(s) : u \in IF o.ok THEN Sent(o.s) ELSE {Lose(Cannot(o.s), slot)}
  BY <1>4
<1>8. o.ok \in BOOLEAN /\ o.s \in Tracks(F, T, P)
  BY <1>7, BacklogTracks
<1>9. o.s \in Safe /\ o.s \in State
  BY <1>8 DEF Tracks, Safe
<1>10. Apart(o.s, u)
  BY <1>1, <1>6, <1>7, <1>9
<1>11. u \in Safe
  BY EventSafe DEF Tracks
<1> QED
  BY <1>8, <1>10, <1>11, ApartTracks

-----------------------------------------------------------------------------
(* The handlers again: as long as a domain in use has the plugin.          *)

Client(s) == \E r \in Live(s) : s.domains[r].plugin

KnowsInv == ~TakeWhenStale => (Client(ps) => Knows(ps, Pointers))

\* What says nothing of the devices, and gives the plugin to nobody.
LEMMA ApartKnows ==
  ASSUME KnowsInv, Apart(ps, ps'), Client(ps') => Client(ps)
  PROVE  KnowsInv'
<1>1. Pointers' = Pointers
  BY DEF Apart, Pointers
<1> QED
  BY <1>1 DEF KnowsInv, Apart, Knows

LEMMA ErrorApart ==
  ASSUME NEW s \in Safe, NEW t \in send_error(s)
  PROVE  Apart(s, t) /\ (Client(t) => Client(s))
<1>0. s \in State
  BY DEF Safe
<1>1. PICK o \in send_to_plugin(s, Msg("ERROR", 0)) :
         t = IF o.ok THEN o.s ELSE [o.s EXCEPT !.error = TRUE]
  BY DEF send_error
<1>2. Sendable(Msg("ERROR", 0)) /\ Msg("ERROR", 0).op \notin {"CONF", "RESET"}
  BY MsgSendable DEF Msg, Silent
<1>3. Apart(s, o.s) /\ o.s \in State
  BY <1>2, WriteApart DEF Apart
<1>4. Apart(s, t) /\ t.domains = o.s.domains
  <2>1. Apart(o.s, [o.s EXCEPT !.error = TRUE])
    BY <1>3, FieldApart
  <2>2. [o.s EXCEPT !.error = TRUE].domains = o.s.domains
    BY <1>3 DEF State
  <2> QED
    BY <1>1, <1>3, <2>1, <2>2, ApartApart
<1>5. o.s = kill_connection(s) \/ o.s.domains = s.domains
  <2>1. [s EXCEPT !.view = Read(s.view, Msg("ERROR", 0))].domains = s.domains
    BY <1>0 DEF State
  <2>2. \/ o.s = kill_connection(s)
        \/ o.s = [s EXCEPT !.view = Read(s.view, Msg("ERROR", 0))]
        \/ o.s = s
    BY <1>2, WriteOutcome
  <2> QED
    BY <2>1, <2>2
<1>6. \A r \in Rec : ~kill_connection(s).domains[r].plugin
  <2>1. Detach(s) \in State /\ \A r \in Rec : ~Detach(s).domains[r].plugin
    BY DetachSafe
  <2>2. kill_connection(s).domains = Detach(s).domains
    BY <2>1 DEF kill_connection, State
  <2> QED
    BY <2>1, <2>2
<1> QED
  BY <1>4, <1>5, <1>6 DEF Client, Live

\* A slot that is told to a domain.
LEMMA ToldKnows ==
  ASSUME KnowsInv, NEW s \in Safe, Apart(ps, s), s.domains = ps.domains,
         NEW d \in Rec, NEW n \in Int, ps' = [s EXCEPT !.domains[d].last_devslot = n]
  PROVE  KnowsInv'
<1> DEFINE rec == [s.domains[d] EXCEPT !.last_devslot = n]
           doms == [s.domains EXCEPT ![d] = rec]
<1>1. s \in State /\ s.domains \in [Rec -> DomainRec] /\ s.domains[d] \in DomainRec
  BY StateFields DEF Safe
<1>2. rec \in DomainRec /\ rec.plugin = s.domains[d].plugin /\ rec.domid = s.domains[d].domid
  BY <1>1 DEF DomainRec
<1>3. ps' = [s EXCEPT !.domains = doms]
  BY <1>1 DEF State
<1> HIDE DEF rec
<1>4. doms \in [Rec -> DomainRec]
      /\ \A r \in Rec : doms[r].plugin = s.domains[r].plugin /\ doms[r].domid = s.domains[r].domid
  BY <1>1, <1>2
<1> HIDE DEF doms
<1>5. Apart(s, ps') /\ ps'.domains = doms
  BY <1>1, <1>3, <1>4 DEF Apart, State
<1>6. Client(ps') => Client(ps)
  BY <1>4, <1>5 DEF Client, Live
<1> QED
  BY <1>5, <1>6, ApartApart, ApartKnows

LEMMA SocketKnows ==
  ASSUME KnowsInv, ps \in Safe,
         \/ server_accept \/ Hangup \/ BadCode \/ PluginEvent
         \/ \E id \in Destinations : SendTo(id)
         \/ \E slot \in PluginSlots : PluginSetsSlot(slot)
  PROVE  KnowsInv'
<1>0. ps \in State /\ Attached(ps)
  BY DEF Safe
<1>1. CASE server_accept
  <2>1. ps'.domains = ps.domains /\ ~ps.open
    BY <1>0, <1>1 DEF server_accept, State
  <2>2. ~Client(ps')
    BY <1>0, <2>1 DEF Client, Live, Attached
  <2> QED
    BY <2>2 DEF KnowsInv
<1>2. CASE Hangup
  BY <1>2, KilledTracks DEF Hangup, KnowsInv, Knows
<1>3. ASSUME ps' \in send_error(ps)
      PROVE  KnowsInv'
  BY <1>3, ErrorApart, ApartKnows
<1>4. CASE BadCode
  BY <1>3, <1>4 DEF BadCode
<1>5. CASE PluginEvent
  <2>1. ASSUME ps' = [ps EXCEPT !.crossed = ps.crossed \/ Crosses(ps)]
        PROVE  KnowsInv'
    <3>1. ps.crossed \/ Crosses(ps) \in BOOLEAN
      BY <1>0, StateFields DEF Crosses
    <3>2. PICK b \in BOOLEAN : ps' = [ps EXCEPT !.crossed = b]
      <4>1. ps.crossed \in BOOLEAN /\ Crosses(ps) \in BOOLEAN
        BY <1>0, StateFields DEF Crosses
      <4> QED
        BY <2>1, <4>1
    <3>3. Apart(ps, ps') /\ ps'.domains = ps.domains
      BY <1>0, <3>2 DEF Apart, State
    <3> QED
      BY <3>3, ApartKnows DEF Client, Live
  <2> QED
    BY <1>3, <1>5, <2>1, Zenon DEF PluginEvent
<1>6. ASSUME NEW id \in Destinations, SendTo(id)
      PROVE  KnowsInv'
  <2> DEFINE d == domain_with_domid(ps, id)
             t == [ps EXCEPT !.dest = d, !.asked = id]
  <2>1. d = NULL \/ d \in Rec
    BY LookupInTable DEF Live
  <2>2. \/ ps' \in send_error(t)
        \/ \E u \in send_error(t) : ps' = [u EXCEPT !.dest = NULL]
        \/ d # NULL /\ ps' = [t EXCEPT !.domains[d].last_devslot = ps.recived_slot]
        \/ ps' = t
    BY <1>6 DEF SendTo
  <2> HIDE DEF d
  <2>3. Apart(ps, t) /\ t.domains = ps.domains /\ t \in State
        /\ t.open = ps.open /\ t.src = ps.src
        /\ t.slot = ps.slot /\ t.dropped = ps.dropped /\ t.view = ps.view
    BY <1>0, <2>1 DEF Apart, State
  <2> HIDE DEF t
  <2>4. t \in Safe
    BY <1>0, <2>3 DEF Safe, Attached, Heard
  <2>5. Client(t) => Client(ps)
    BY <2>3 DEF Client, Live
  <2>6. CASE ps' \in send_error(t)
    BY <2>3, <2>4, <2>5, <2>6, ErrorApart, ApartApart, ApartKnows
  <2>7. ASSUME NEW u \in send_error(t), ps' = [u EXCEPT !.dest = NULL]
        PROVE  KnowsInv'
    <3>1. Apart(t, u) /\ (Client(u) => Client(t)) /\ u \in State
      BY <2>4, ErrorApart DEF Apart
    <3>2. Apart(u, ps') /\ ps'.domains = u.domains
      BY <2>7, <3>1 DEF Apart, State
    <3>3. Client(ps') => Client(u)
      BY <3>2 DEF Client, Live
    <3> QED
      BY <2>3, <2>5, <3>1, <3>2, <3>3, ApartApart, ApartKnows
  <2>8. CASE d # NULL /\ ps' = [t EXCEPT !.domains[d].last_devslot = ps.recived_slot]
    BY <1>0, <2>1, <2>3, <2>4, <2>8, StateFields, ToldKnows
  <2>9. CASE ps' = t
    BY <2>3, <2>5, <2>9, ApartKnows
  <2> QED
    BY <2>2, <2>6, <2>7, <2>8, <2>9
<1>7. ASSUME NEW slot \in PluginSlots, PluginSetsSlot(slot)
      PROVE  KnowsInv'
  <2>1. CASE ps.dest = NULL
    BY <1>3, <1>7, <2>1 DEF PluginSetsSlot
  <2>2. CASE ps.dest # NULL
    <3> DEFINE t == [ps EXCEPT !.recived_slot = slot]
    <3>1. ps.dest \in Rec /\ slot \in Int
      BY <1>0, <2>2, PluginAssumption, StateFields
    <3>2. Apart(ps, t) /\ t.domains = ps.domains /\ t \in State
          /\ t.open = ps.open /\ t.src = ps.src
          /\ t.slot = ps.slot /\ t.dropped = ps.dropped /\ t.view = ps.view
      BY <1>0, <3>1 DEF Apart, State
    <3>3. ps' = [t EXCEPT !.domains[ps.dest].last_devslot = slot]
      BY <1>0, <1>7, <2>2, <3>1 DEF PluginSetsSlot, State
    <3> HIDE DEF t
    <3>4. t \in Safe
      BY <1>0, <3>2 DEF Safe, Attached, Heard
    <3> QED
      BY <3>1, <3>2, <3>3, <3>4, ToldKnows
  <2> QED
    BY <2>1, <2>2
<1> QED
  BY <1>1, <1>2, <1>4, <1>5, <1>6, <1>7

LEMMA TakeFromKnows ==
  ASSUME KnowsInv, ps \in Safe, NEW id \in Domids, TakeFrom(id)
  PROVE  KnowsInv'
<1> DEFINE d == domain_with_domid(ps, id)
           t == Detach(ps)
           u == [t EXCEPT !.src = d, !.domains[d].plugin = TRUE]
<1> SUFFICES ASSUME ~TakeWhenStale, Client(ps')
             PROVE  Knows(ps', Pointers')
  BY DEF KnowsInv
<1>1. d = NULL \/ d \in Rec
  BY LookupInTable DEF Live
<1>2. t \in State /\ t.open = ps.open /\ Heard(t) /\ \A r \in Rec : ~t.domains[r].plugin
  BY DetachSafe
<1>3. ps.open /\ NoneStale(ps) /\ ps \in State
  BY DEF TakeFrom, Safe
<1>4. (d = NULL => ps' \in send_error(t))
      /\ (d # NULL => ps' \in sock_plugin_sendconfig(u))
  BY Zenon DEF TakeFrom
<1>5. t.fds = ps.fds /\ t.types = ps.types
  BY <1>3 DEF Detach, State
<1> HIDE DEF d, t
<1>6. t \in Safe
  BY <1>2 DEF Safe, Attached
<1>7. CASE d = NULL
  <2>1. Client(ps') => Client(t)
    BY <1>4, <1>6, <1>7, ErrorApart
  <2>2. ~Client(t)
    BY <1>2 DEF Client, Live
  <2> QED
    BY <2>1, <2>2
<1>8. CASE d # NULL
  <2>1. d \in Rec /\ t.domains \in [Rec -> DomainRec]
    BY <1>1, <1>2, <1>8, StateFields
  <2> DEFINE rec == [t.domains[d] EXCEPT !.plugin = TRUE]
             doms == [t.domains EXCEPT ![d] = rec]
  <2>2. rec \in DomainRec
    BY <2>1 DEF DomainRec
  <2>3. u = [t EXCEPT !.src = d, !.domains = doms]
    BY <1>2, <2>1 DEF State
  <2> HIDE DEF rec
  <2>4. doms \in [Rec -> DomainRec] /\ \A r \in Rec : r # d => ~doms[r].plugin
    BY <1>2, <2>1, <2>2
  <2> HIDE DEF doms, u
  <2>5. /\ u \in State /\ u.domains = doms /\ u.open = ps.open /\ u.src = d
        /\ u.fds = ps.fds /\ u.types = ps.types
    BY <1>2, <1>5, <2>1, <2>3, <2>4 DEF State
  <2>6. Heard(u)
    BY <1>2, <2>3 DEF Heard, State
  <2>7. u \in Safe
    BY <1>3, <2>4, <2>5, <2>6 DEF Safe, Attached
  <2>8. ps' \in Tracks(ps.fds, ps.types, {k \in DevSlots : ps.types[k] = "POINTER"})
    BY <1>4, <1>8, <2>5, <2>7, SendConfigTracks
  <2>9. {k \in DevSlots : ps.types[k] = "POINTER"} = Pointers'
    BY <1>3, <2>8, StateFields DEF Tracks, NoneStale, Pointers
  <2> QED
    BY <2>8, <2>9 DEF Tracks
<1> QED
  BY <1>7, <1>8

LEMMA InputKnows ==
  ASSUME KnowsInv, ps \in Safe, NEW d \in Rec, NEW slot \in DevSlots, input_send(d, slot)
  PROVE  KnowsInv'
<1>0. ps \in State /\ slot \in Int
  BY Constants DEF Safe
<1>1. CASE ps.domains[d].plugin
  <2> SUFFICES ASSUME ~TakeWhenStale
               PROVE  Knows(ps', Pointers')
    BY DEF KnowsInv
  <2>1. Client(ps)
    BY <1>1 DEF Client, input_send
  <2>2. ps \in Tracks(ps.fds, ps.types, Pointers)
    BY <2>1 DEF KnowsInv, Tracks
  <2>3. ps' \in send_plugin_event(ps, slot)
    BY <1>1 DEF input_send
  <2>4. ps' \in Tracks(ps.fds, ps.types, Pointers)
    BY <2>2, <2>3, EventTracks
  <2>5. Pointers' = Pointers
    BY <2>4 DEF Tracks, Pointers
  <2> QED
    BY <2>4, <2>5 DEF Tracks
<1>2. CASE ps' = ps
  BY <1>2, ApartItself, ApartKnows
<1>3. CASE ps' = [ps EXCEPT !.domains[d].last_devslot = slot]
  BY <1>0, <1>3, ApartItself, ToldKnows
<1> QED
  BY <1>1, <1>2, <1>3, Zenon DEF input_send

\* A record about one device goes to a client that knows the others.
LEMMA BroadcastKnows ==
  ASSUME ps \in Safe, KnowsInv, NEW t \in Safe, t.domains = ps.domains,
         t.open = ps.open, t.dev_events = ps.dev_events, t.resetall = ps.resetall,
         t.view = ps.view, NEW code, NEW slot, OneDevice(code, slot, Pointers),
         ps' \in Broadcast(t, code, slot),
         {n \in t.fds : t.types[n] = "POINTER"} = Changed(code, slot, Pointers)
  PROVE  KnowsInv'
<1> SUFFICES ASSUME ~TakeWhenStale, Client(ps')
             PROVE  Knows(ps', Pointers')
  BY DEF KnowsInv
<1>1. Client(t) = Client(ps)
  BY DEF Client, Live
<1>2. CASE Client(ps)
  <2>1. t \in Tracks(t.fds, t.types, Pointers)
    BY <1>2 DEF KnowsInv, Tracks, Knows
  <2>2. ps' \in send_plugin_dev_event(t, code, slot)
    BY <1>1, <1>2 DEF Broadcast, Client
  <2>3. ps' \in Tracks(t.fds, t.types, Changed(code, slot, Pointers))
    BY <2>1, <2>2, DevEventTracks
  <2>4. Pointers' = Changed(code, slot, Pointers)
    BY <2>3 DEF Tracks, Pointers
  <2> QED
    BY <2>3, <2>4 DEF Tracks
<1>3. CASE ~Client(ps)
  <2>1. ps' = t
    BY <1>1, <1>3 DEF Broadcast, Client
  <2> QED
    BY <1>1, <1>3, <2>1
<1> QED
  BY <1>2, <1>3

LEMMA DevicesKnow ==
  ASSUME KnowsInv, ps \in Safe, NEW slot \in DevSlots
  PROVE  /\ \A type \in DeviceTypes : consider_device(slot, type) => KnowsInv'
         /\ input_read(slot) => KnowsInv'
<1>0. ps \in State /\ Attached(ps) /\ Heard(ps)
  BY DEF Safe
<1>1. ASSUME NEW type \in DeviceTypes, consider_device(slot, type)
      PROVE  KnowsInv'
  <2> DEFINE t == [ps EXCEPT !.fds = @ \cup {slot}, !.types[slot] = type]
  <2>1. ps.fds \in SUBSET DevSlots /\ ps.types \in [DevSlots -> Types] /\ type \in Types
    BY <1>0, StateFields DEF Types
  <2>2. /\ t \in State /\ t.domains = ps.domains /\ t.open = ps.open /\ t.src = ps.src
        /\ t.slot = ps.slot /\ t.dropped = ps.dropped /\ t.view = ps.view
        /\ t.dev_events = ps.dev_events /\ t.resetall = ps.resetall
        /\ t.fds = ps.fds \cup {slot} /\ t.types = [ps.types EXCEPT ![slot] = type]
    BY <1>0, <2>1 DEF State
  <2>3. ps' \in IF type = "POINTER" THEN Broadcast(t, "CONF", slot) ELSE {t}
    BY <1>1 DEF consider_device
  <2>4. slot \notin ps.fds
    BY <1>1 DEF consider_device
  <2> HIDE DEF t
  <2>5. t \in Safe
    BY <1>0, <2>2 DEF Safe, Attached, Heard
  <2>6. {n \in t.fds : t.types[n] = "POINTER"} =
          IF type = "POINTER" THEN Pointers \cup {slot} ELSE Pointers
    <3>1. \A n \in ps.fds : n # slot /\ t.types[n] = ps.types[n]
      BY <2>1, <2>2, <2>4
    <3>2. t.types[slot] = type
      BY <2>1, <2>2
    <3> QED
      BY <2>2, <3>1, <3>2 DEF Pointers
  <2>7. CASE type = "POINTER"
    <3>1. OneDevice("CONF", slot, Pointers)
      BY <2>4 DEF OneDevice, Pointers
    <3>2. {n \in t.fds : t.types[n] = "POINTER"} = Changed("CONF", slot, Pointers)
      BY <2>6, <2>7 DEF Changed
    <3> QED
      BY <2>2, <2>3, <2>5, <2>7, <3>1, <3>2, BroadcastKnows
  <2>8. CASE type # "POINTER"
    <3>1. ps' = t
      BY <2>3, <2>8
    <3>2. Pointers' = Pointers
      BY <2>6, <2>8, <3>1 DEF Pointers
    <3>3. Client(ps') = Client(ps)
      BY <2>2, <3>1 DEF Client, Live
    <3> QED
      BY <2>2, <3>1, <3>2, <3>3 DEF KnowsInv, Knows
  <2> QED
    BY <2>7, <2>8
<1>2. ASSUME input_read(slot)
      PROVE  KnowsInv'
  <2> DEFINE t == [ps EXCEPT !.fds = @ \ {slot}]
  <2>1. ps.fds \in SUBSET DevSlots
    BY <1>0, StateFields
  <2>2. /\ t \in State /\ t.domains = ps.domains /\ t.open = ps.open /\ t.src = ps.src
        /\ t.slot = ps.slot /\ t.dropped = ps.dropped /\ t.view = ps.view
        /\ t.dev_events = ps.dev_events /\ t.resetall = ps.resetall
        /\ t.fds = ps.fds \ {slot} /\ t.types = ps.types
    BY <1>0, <2>1 DEF State
  <2>3. ps' \in Broadcast(t, "RESET", slot)
    BY <1>2 DEF input_read
  <2> HIDE DEF t
  <2>4. t \in Safe
    BY <1>0, <2>2 DEF Safe, Attached, Heard
  <2>5. CASE slot # ALL
    <3>1. OneDevice("RESET", slot, Pointers)
      BY <2>5 DEF OneDevice
    <3>2. {n \in t.fds : t.types[n] = "POINTER"} = Changed("RESET", slot, Pointers)
      BY <2>2 DEF Changed, Pointers
    <3> QED
      BY <2>2, <2>3, <2>4, <3>1, <3>2, BroadcastKnows
  <2>6. CASE slot = ALL
    <3>1. Client(t) = Client(ps)
      BY <2>2 DEF Client, Live
    <3>2. CASE Client(t)
      <4>1. ps' \in send_plugin_dev_event(t, "RESET", ALL)
        BY <2>3, <2>6, <3>2 DEF Broadcast, Client
      <4>2. ps' \in Tracks(t.fds, t.types, {})
        BY <2>4, <4>1, ForgetTracks
      <4>3. ps' \in Tracks(t.fds, t.types, Pointers')
        BY <4>2, MorePointers
      <4> QED
        BY <4>3 DEF KnowsInv, Tracks
    <3>3. CASE ~Client(t)
      <4>1. ps' = t
        BY <2>3, <3>3 DEF Broadcast, Client
      <4> QED
        BY <3>3, <4>1 DEF KnowsInv
    <3> QED
      BY <3>2, <3>3
  <2> QED
    BY <2>5, <2>6
<1> QED
  BY <1>1, <1>2

LEMMA RecordKnows ==
  ASSUME KnowsInv, ps \in Safe, NEW d \in Rec, NEW x \in DomainRec,
         x.plugin => x.domid = NoDomid \/ (ps.domains[d].plugin /\ d \in Live(ps)),
         ps' = [ps EXCEPT !.domains = [ps.domains EXCEPT ![d] = x]]
  PROVE  KnowsInv'
<1> DEFINE doms == [ps.domains EXCEPT ![d] = x]
<1>1. ps \in State /\ ps.domains \in [Rec -> DomainRec]
  BY StateFields DEF Safe
<1>2. doms \in [Rec -> DomainRec] /\ doms[d] = x /\ \A r \in Rec : r # d => doms[r] = ps.domains[r]
  BY <1>1
<1> HIDE DEF doms
<1>3. ps' = [ps EXCEPT !.domains = doms]
  BY DEF doms
<1>4. Apart(ps, ps') /\ ps'.domains = doms
  BY <1>1, <1>2, <1>3 DEF Apart, State
<1>5. Client(ps') => Client(ps)
  BY <1>2, <1>4 DEF Client, Live
<1> QED
  BY <1>4, <1>5, ApartKnows

LEMMA DomainsKnow ==
  ASSUME KnowsInv, ps \in Safe
  PROVE  /\ \A id \in Domids : domain_create(id) => KnowsInv'
         /\ \A d \in Rec : domain_gone(d) => KnowsInv'
<1>0. ps \in State /\ ps.domains \in [Rec -> DomainRec]
  BY StateFields DEF Safe
<1>1. ASSUME NEW id \in Domids, domain_create(id)
      PROVE  KnowsInv'
  <2> DEFINE Free == Rec \ Live(ps)
             d == CHOOSE r \in Free : \A q \in Free : r <= q
             x == [domid |-> id, plugin |-> FALSE, last_devslot |-> INPUTSLOT_INVALID]
  <2>1. Free # {} /\ Free \in SUBSET Nat
    BY <1>1, Constants DEF domain_create
  <2>2. d \in Rec
    <3> HIDE DEF Free
    <3>1. d \in Free
      BY <2>1, Least
    <3> QED
      BY <3>1 DEF Free
  <2>3. ps' = [ps EXCEPT !.domains[d] = x]
    BY <1>1 DEF domain_create
  <2> HIDE DEF d
  <2>4. x \in DomainRec /\ ~x.plugin
    BY DEF DomainRec
  <2> HIDE DEF x
  <2>5. ps' = [ps EXCEPT !.domains = [ps.domains EXCEPT ![d] = x]]
    BY <1>0, <2>2, <2>3 DEF State
  <2> QED
    BY <2>2, <2>4, <2>5, RecordKnows
<1>2. ASSUME NEW d \in Rec, domain_gone(d)
      PROVE  KnowsInv'
  <2> DEFINE x == [ps.domains[d] EXCEPT !.domid = NoDomid]
  <2>1. x \in DomainRec /\ x.domid = NoDomid
    BY <1>0, DomainFields DEF DomainRec
  <2>2. ps' = [ps EXCEPT !.domains = [ps.domains EXCEPT ![d] = x]]
    BY <1>0, <1>2 DEF domain_gone, State
  <2> HIDE DEF x
  <2> QED
    BY <2>1, <2>2, RecordKnows
<1> QED
  BY <1>1, <1>2

LEMMA InitKnows == Init => KnowsInv
<1> SUFFICES ASSUME Init
             PROVE  ~Client(ps)
  BY DEF KnowsInv
<1>1. ps.domains = [r \in Rec |-> [domid |-> NoDomid, plugin |-> FALSE,
                                   last_devslot |-> INPUTSLOT_INVALID]]
  BY DEF Init
<1> QED
  BY <1>1 DEF Client, Live

LEMMA NextKnows == IInv /\ KnowsInv /\ [Next]_ps => KnowsInv'
<1> SUFFICES ASSUME ps \in Safe, KnowsInv, [Next]_ps
             PROVE  KnowsInv'
  BY DEF IInv
<1>1. CASE \/ server_accept \/ Hangup \/ BadCode \/ PluginEvent
           \/ \E id \in Destinations : SendTo(id)
           \/ \E slot \in PluginSlots : PluginSetsSlot(slot)
  BY <1>1, SocketKnows
<1>2. CASE \E id \in Domids : TakeFrom(id)
  BY <1>2, TakeFromKnows
<1>3. CASE \E d \in Rec : \E slot \in DevSlots : input_send(d, slot)
  BY <1>3, InputKnows
<1>4. CASE \E slot \in DevSlots :
             input_read(slot) \/ \E type \in DeviceTypes : consider_device(slot, type)
  BY <1>4, DevicesKnow
<1>5. CASE (\E d \in Rec : domain_gone(d)) \/ \E id \in Domids : domain_create(id)
  BY <1>5, DomainsKnow
<1>6. CASE UNCHANGED ps
  BY <1>6, ApartItself, ApartKnows
<1> QED
  BY <1>1, <1>2, <1>3, <1>4, <1>5, <1>6 DEF Next, Socket, Daemon

\* A device that is dropped (input_read) is reset before anything is told of the
\* next one in its slot, whatever is refused in between: once the queue has been
\* written the client knows no device that is gone.  It needs that VM_TAKE_FROM
\* does not come while input_dev.types[] lists a removed device, which it would
\* announce.
THEOREM NoGhosts == Spec => [](~TakeWhenStale => NoGhostDevices)
<1>1. IInv /\ KnowsInv => (~TakeWhenStale => NoGhostDevices)
  BY DEF KnowsInv, Knows, Owes, NoGhostDevices, Settled, Client
<1>2. Init => KnowsInv
  BY InitKnows
<1>3. IInv /\ KnowsInv /\ [Next]_ps => KnowsInv'
  BY NextKnows
<1> QED
  BY <1>1, <1>2, <1>3, Soundness, PTL DEF Spec
=============================================================================
