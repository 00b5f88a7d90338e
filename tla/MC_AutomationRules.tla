------------------------ MODULE MC_AutomationRules -------------------------
(* The rules that the pages and forms of the firmware post: a flat rule as *)
(* the form stores it, the same as it is posted (no name), and a grouped   *)
(* rule with two triggers.                                                 *)
EXTENDS AutomationRules, TLC

CONSTANTS n1, n2, n3, n4, speed, noName, automation, lamp, plug

MCNr == {n1, n2, n3, n4}

(* The numbers are names only. *)
Numbers == Permutations(MCNr)

MCFields == {speed}
Flat == [name |-> automation, flat |-> TRUE, fields |-> Fields, lights |-> <<lamp>>]
Posted == [Flat EXCEPT !.name = noName]
Grouped == [name |-> automation, flat |-> FALSE, fields |-> Fields,
            lights |-> <<lamp, plug>>]
MCBody == {Flat, Posted, Grouped}

(* Without fields the worker has nothing to do, and only the HTTP server   *)
(* task moves.                                                             *)
MCNoFields == {}

(* The worker is followed through lists of at most two grouped rules; what *)
(* the handlers do to longer and mixed lists is followed while it rests.   *)
Plain == Len(rules) <= 2 /\ \A p \in 1 .. Len(rules) : rules[p].body = Grouped

Resting == worker = Idle /\ wanted = {} /\ clock = 1 /\ lastFire = Never

Followed == Plain \/ Resting
=============================================================================
