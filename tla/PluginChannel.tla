---------------------------- MODULE PluginChannel ----------------------------
(***************************************************************************)
(* What the code above send_to_plugin and below findnext relies on: a       *)
(* record that is not refused arrives, whole, once, and in its turn.        *)
(* "sent" and "got" are the records accepted and delivered on a connection. *)
(***************************************************************************)
EXTENDS Sequences, Naturals

CONSTANT Records

VARIABLES sent, got

Init == sent = <<>> /\ got = <<>>

Accept == /\ \E r \in Records : sent' = Append(sent, r)
          /\ UNCHANGED got

\* One call of the reader may deliver several.
Deliver == /\ \E n \in (Len(got) + 1)..Len(sent) : got' = SubSeq(sent, 1, n)
           /\ UNCHANGED sent

\* The connection ends and another begins.
Reconnect == sent' = <<>> /\ got' = <<>>

Next == Accept \/ Deliver \/ Reconnect

Spec == Init /\ [][Next]_<<sent, got>>

=============================================================================
