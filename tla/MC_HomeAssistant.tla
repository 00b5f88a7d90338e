-------------------------- MODULE MC_HomeAssistant --------------------------
(* Settings that are switched off and on, and moved to another topic base. *)
EXTENDS HomeAssistant

CONSTANTS bike1, bike2

MCBase == {bike1, bike2}
First == [wanted |-> TRUE, base |-> bike1]
MCEntered == {First, [First EXCEPT !.base = bike2], [First EXCEPT !.wanted = FALSE]}
=============================================================================
