----------------------------- MODULE MCButtons ------------------------------
(* A small front panel: a push button and the two contacts of the rotary *)
(* encoder, of which the second has no handler.                          *)
EXTENDS Buttons, TLC

CONSTANTS top, rotCw, rotCcw

Panel    == {top, rotCw, rotCcw}
Handlers == (top :> "any") @@ (rotCw :> Pressed) @@ (rotCcw :> "none")
=============================================================================
