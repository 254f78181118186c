-------------------------- MODULE MCActivationChain --------------------------
(* Finite instances of ActivationChain.                                      *)
EXTENDS ActivationChain

\* Tabs 1 and 2 share window 1.  Slot 1 turns the wheel in tab 1.  In tab 2 slot 2
\* presses a button, slot 3 moves the mouse along a curve, which may start a drag,
\* and slot 4 lets go of the button.
FourSlots   == 1..4
TwoTabs     == 1..2
OneWindow   == {1}
SameWindow  == [t \in Tab |-> 1]
TabOfFour   == [s \in Slot |-> IF s = 1 THEN 1 ELSE 2]
WheelAndDrag == [s \in Slot |-> CASE s = 1 -> "wheel" [] s = 2 -> "mousedown"
                                  [] s = 3 -> "mousemove" [] s = 4 -> "mouseup"]
\* Two notches, a point of the curve and its destination, or a single event.
TwoAndTwo   == [s \in Slot |-> IF s \in {1, 3} THEN 2 ELSE 1]
OnePause    == [s \in Slot |-> IF s \in {1, 3} THEN 1 ELSE 0]
=============================================================================
