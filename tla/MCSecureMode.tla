---------------------------- MODULE MCSecureMode ----------------------------
(* Instance of SecureMode for TLC: one user, and contexts of three kinds.    *)
EXTENDS SecureMode

Asked(kind, confirm) ==
    [user |-> "local", kind |-> kind, lock |-> FALSE, confirm |-> confirm,
     cannot_cancel |-> FALSE]

SomeContexts ==
    {Asked("remote", FALSE), Asked("set_local", TRUE),
     [Asked("root", FALSE) EXCEPT !.user = ""]}
=============================================================================
