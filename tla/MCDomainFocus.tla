--------------------------- MODULE MCDomainFocus ---------------------------
(* Instances of DomainFocus for TLC: the UIVM (domain 1, slot 0) and guests  *)
(* that all want slot 1.                                                     *)
EXTENDS DomainFocus

MCSharedSlot == [id \in Domids |-> IF id = 1 THEN 0 ELSE 1]
MCSlots == {-1, 0}

=============================================================================
