------------------------ MODULE EvaluationRequests -------------------------
(***************************************************************************)
(* What main/automation.c promises the live data decoder, with no queue:   *)
(* a set of fields that wait for an evaluation.  A change adds fields, an  *)
(* evaluation takes some of them.  A field that waits stays until an       *)
(* evaluation has taken it, and no evaluation is about a field that did    *)
(* not change.                                                             *)
(***************************************************************************)
CONSTANT Fields

VARIABLES wanted,   (* fields that changed and were not evaluated since    *)
          serving   (* fields of the evaluation under way                  *)

requestVars == <<wanted, serving>>

RequestsInit == wanted = {} /\ serving = {}

Ask(m) == /\ wanted' = wanted \cup m
          /\ UNCHANGED serving

(* A field may be served and, having changed twice, still be waiting. *)
Serve(m) == /\ serving = {}
            /\ m # {}
            /\ m \subseteq wanted
            /\ serving' = m
            /\ wanted' \subseteq wanted
            /\ wanted \subseteq wanted' \cup m

Finish == serving' = {} /\ UNCHANGED wanted

(* A reset loses everything. *)
Restart == wanted' = {} /\ serving' = {}

RequestsNext == \/ \E m \in SUBSET Fields : Ask(m) \/ Serve(m)
                \/ Finish
                \/ Restart

RequestsSpec == RequestsInit /\ [][RequestsNext]_requestVars
=============================================================================
