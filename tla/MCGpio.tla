------------------------------- MODULE MCGpio -------------------------------
(* Gpio with two gpios, the smallest number whose event threads share the  *)
(* static variables.                                                       *)
EXTENDS Gpio

CONSTANTS g1, g2

MCGpios == {g1, g2}
=============================================================================
