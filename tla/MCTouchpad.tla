----------------------------- MODULE MCTouchpad -----------------------------
(* Instance of Touchpad for TLC: a pad of ten by ten.                        *)
EXTENDS Touchpad

PadXs == {0, 9}
PadYs == {0, 9}
=============================================================================
