----------------------------- MODULE PluginWire -----------------------------
(***************************************************************************)
(* Records on the byte stream of the plugin socket (socket.c): the writer   *)
(* never blocks and may write a part of a record, the reader takes what is  *)
(* there in pieces of any length and cuts records out of it.  Both ends of  *)
(* the socket read in the same way.                                         *)
(*                                                                         *)
(* A byte is the record it belongs to and its place in it; the magic number *)
(* that findnext looks for is the first byte.                               *)
(***************************************************************************)
EXTENDS Naturals, Sequences, FiniteSets

CONSTANTS
    Records,       \* what records say
    EVENT_SIZE,    \* bytes of a record (12 in the code)
    buffersize,    \* bytes of the reader's buffer (100 records in the code)
    SocketBytes,   \* bytes the socket may hold: bounds the model
    MaxSent        \* records accepted on one connection: bounds the model

ASSUME WireAssumption ==
    /\ EVENT_SIZE \in Nat \ {0} /\ SocketBytes \in Nat /\ MaxSent \in Nat
    /\ buffersize \in Nat /\ buffersize >= EVENT_SIZE

VARIABLES
    delayed,       \* partialBuffer: the tail of the last record
    wire,          \* bytes in the socket
    buffer,        \* bytes the reader has kept
    sent, got      \* history: records accepted, records delivered, as bytes

vars == <<delayed, wire, buffer, sent, got>>

Whole(r) == [i \in 1..EVENT_SIZE |-> [record |-> r, place |-> i]]
Byte == [record : Records, place : 1..EVENT_SIZE]

Room == SocketBytes - Len(wire)
From(s, n) == SubSeq(s, n, Len(s))

-----------------------------------------------------------------------------

Init == /\ delayed = <<>> /\ wire = <<>> /\ buffer = <<>>
        /\ sent = <<>> /\ got = <<>>

\* What the socket may take of some bytes.
Takes(bytes) == {SubSeq(bytes, 1, n) : n \in {k \in 0..Len(bytes) : k <= Room}}

\* Slip: the tail waits for the next partial write.
send_to_plugin_Slip(r) ==
    /\ Len(sent) < MaxSent
    /\ \E w \in Takes(Whole(r)) \ {<<>>} :
          /\ wire' = wire \o w
          /\ delayed' = From(Whole(r), Len(w) + 1)
    /\ sent' = Append(sent, Whole(r))
    /\ UNCHANGED <<buffer, got>>

\* send_delayed_to_plugin and then send: never a byte of the record before the
\* tail of the last one is gone.  The record is refused when nothing of it is
\* taken; what has been taken of the tail is gone.
send_to_plugin(r) ==
    /\ Len(sent) < MaxSent
    /\ \E w \in Takes(delayed \o Whole(r)) :
          LET refused == Len(w) <= Len(delayed) IN
          /\ wire' = wire \o w
          /\ delayed' = From(IF refused THEN delayed ELSE delayed \o Whole(r), Len(w) + 1)
          /\ sent' = IF refused THEN sent ELSE Append(sent, Whole(r))
    /\ UNCHANGED <<buffer, got>>

\* Slip: a record that ends where the bytes end is left for the next call.
findnext_Slip(b) ==
    LET from[p \in 1..(Len(b) + 1)] ==
            IF Len(b) - p + 1 <= EVENT_SIZE THEN [events |-> <<>>, left |-> From(b, p)]
            ELSE IF b[p].place # 1 THEN from[p + 1]
            ELSE LET rest == from[p + EVENT_SIZE] IN
                 [rest EXCEPT !.events = <<SubSeq(b, p, p + EVENT_SIZE - 1)>> \o @]
    IN  from[1]

\* The loop around findnext: the records in b, skipping bytes that do not
\* begin one, and what is left for the next call.
findnext(b) ==
    LET from[p \in 1..(Len(b) + 1)] ==
            IF Len(b) - p + 1 < EVENT_SIZE THEN [events |-> <<>>, left |-> From(b, p)]
            ELSE IF b[p].place # 1 THEN from[p + 1]
            ELSE LET rest == from[p + EVENT_SIZE] IN
                 [rest EXCEPT !.events = <<SubSeq(b, p, p + EVENT_SIZE - 1)>> \o @]
    IN  from[1]

\* n bytes arrive, as many as there are or as the buffer has room for.
wrapper_server_recv(n) ==
    /\ n <= Len(wire) /\ n <= buffersize - Len(buffer)
    /\ LET r == findnext(buffer \o SubSeq(wire, 1, n))
       IN  buffer' = r.left /\ got' = got \o r.events
    /\ wire' = From(wire, n + 1)
    /\ UNCHANGED <<delayed, sent>>

\* kill_connection, and server_accept of the next client.
kill_and_accept ==
    /\ delayed' = <<>> /\ wire' = <<>> /\ buffer' = <<>>
    /\ sent' = <<>> /\ got' = <<>>

Receive == \E n \in 1..buffersize : wrapper_server_recv(n)

Next == \/ \E r \in Records : send_to_plugin(r)
        \/ Receive
        \/ kill_and_accept

\* The reader is called as long as there is something to read; nothing makes
\* the writer write.
Spec == Init /\ [][Next]_vars /\ WF_vars(Receive)

-----------------------------------------------------------------------------
(* Properties.                                                             *)

TypeOK == /\ delayed \in Seq(Byte) /\ wire \in Seq(Byte) /\ buffer \in Seq(Byte)
          /\ sent \in Seq(Seq(Byte)) /\ got \in Seq(Seq(Byte))
          /\ Len(delayed) < EVENT_SIZE /\ Len(wire) <= SocketBytes

Channel == INSTANCE PluginChannel WITH Records <- {Whole(r) : r \in Records}

\* Whatever the sizes of the writes and reads, a record that send_to_plugin
\* has not refused arrives whole, once and in order, and no byte of an earlier
\* connection shows up in a later one.
ImplementsChannel == Channel!Init /\ [][Channel!Next]_<<sent, got>>

\* A record that has arrived is handed on in the same callback: what is kept
\* for the next one never contains a whole record.
NoRecordWaits ==
    \A p \in 1..Len(buffer) : buffer[p].place = 1 => Len(buffer) - p + 1 < EVENT_SIZE

\* "Partial sends are delt with" (send_to_plugin), by the next send: a record
\* arrives once a later one has been accepted, unless the connection is lost.
\* The last one may wait, in part, for an event that never comes.
EarlierArrives ==
    \A k \in 1..MaxSent : (Len(sent) > k) ~> (Len(got) >= k \/ Len(sent) < k)

=============================================================================
