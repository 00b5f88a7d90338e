------------------------- MODULE MC_LiveAutomation -------------------------
(* Two known fields besides the time, each with two values, and a queue of *)
(* two masks, so that four messages make it overflow.                      *)
EXTENDS LiveAutomation

CONSTANTS gear

MCFields == 0 .. 3

Says(speed, soc) == [known |-> <<speed, soc, Absent>>, unknown |-> <<>>]

MCMessage == {Says(0, Absent), Says(1, Absent), Says(Absent, 1), Says(0, 0)}
=============================================================================
