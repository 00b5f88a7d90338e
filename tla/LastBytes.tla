----------------------------- MODULE LastBytes -----------------------------
(***************************************************************************)
(* What main/log_store.c promises its callers, with no ring and no lock:   *)
(* whole lines are added to a log of which the last Capacity bytes are     *)
(* kept, and a copy is the end of it.  A restart empties it.               *)
(***************************************************************************)
EXTENDS Naturals, Sequences

CONSTANTS Capacity,  (* the bytes that are kept                            *)
          Whole,     (* the lines that can be added                        *)
          Room       (* the sizes of the copies                            *)

VARIABLES tail,  (* what is kept                                           *)
          copy   (* the last copy                                          *)

lastVars == <<tail, copy>>

(* The last n elements of s, or all of it. *)
Last(s, n) ==
  IF Len(s) <= n THEN s ELSE [i \in 1 .. n |-> s[Len(s) - n + i]]

LastInit == tail = <<>> /\ copy = <<>>

Add(l) == tail' = Last(tail \o l, Capacity) /\ UNCHANGED copy

Copy(n) == copy' = Last(tail, n) /\ UNCHANGED tail

Restart == tail' = <<>> /\ copy' = <<>>

LastNext ==
  \/ \E l \in Whole : Add(l)
  \/ \E n \in Room : Copy(n)
  \/ Restart

LastSpec == LastInit /\ [][LastNext]_lastVars
=============================================================================
