---------------------------- MODULE MCAutoSelector ----------------------------
(* AutoSelector for TLC: two members, of which the config takes one.        *)
EXTENDS AutoSelector

CONSTANTS m1, m2
Two == <<m1, m2>>
=============================================================================
