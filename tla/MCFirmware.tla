------------------------------ MODULE MCFirmware ------------------------------
(* The texts are cut to one or two characters, the splash among them; keys are *)
(* the numbers.                                                               *)
EXTENDS Firmware

CONSTANTS I, G, B, A, H, P
MCbitbang == <<I, G>>
MCsplash == <<B, A, H>>
MCinput_request == <<P>>
===============================================================================
