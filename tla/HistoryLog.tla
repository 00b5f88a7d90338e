----------------------------- MODULE HistoryLog -----------------------------
(***************************************************************************)
(* What the bike history promises its callers, with no file, header or     *)
(* mutex: a log that keeps the last Capacity records.  A record that does  *)
(* not fit pushes the oldest one out first (Overwrite) and is then added   *)
(* at the young end (Settle).  When Faults is TRUE a reset or an I/O error *)
(* may strike between the two, and the record then sits at the OLD end     *)
(* (Misplace): this is the only damage a fault may do to the order.  The   *)
(* log may be emptied at any time, by its users or by a boot that cannot   *)
(* read it (Erase).                                                        *)
(***************************************************************************)
EXTENDS Naturals, Sequences

CONSTANTS Capacity,  (* records the log holds                              *)
          Record,    (* the records that can be appended                   *)
          Task,      (* the tasks that ask for an export                   *)
          NoRecord,  (* "no record is on its way in"                       *)
          Faults     (* whether resets and I/O errors happen               *)

VARIABLES log,      (* the records, oldest first                           *)
          pending,  (* the record that has pushed the oldest one out       *)
          answer    (* answer[t]: what the last export of task t returned  *)

logVars == <<log, pending, answer>>

LogInit == /\ log = <<>>
           /\ pending = NoRecord
           /\ answer = [t \in Task |-> <<>>]

(* A record is added to a log that has room. *)
Push(r) == /\ pending = NoRecord
           /\ Len(log) < Capacity
           /\ log' = Append(log, r)
           /\ UNCHANGED <<pending, answer>>

(* A record pushes the oldest one out of a full log ... *)
Overwrite(r) == /\ pending = NoRecord
                /\ Len(log) = Capacity
                /\ log' = Tail(log)
                /\ pending' = r
                /\ UNCHANGED answer

(* ... and becomes the youngest one, ... *)
Settle == /\ pending # NoRecord
          /\ log' = Append(log, pending)
          /\ pending' = NoRecord
          /\ UNCHANGED answer

(* ... or, after a fault, is taken for the oldest one. *)
Misplace == /\ Faults
            /\ pending # NoRecord
            /\ log' = <<pending>> \o log
            /\ pending' = NoRecord
            /\ UNCHANGED answer

Erase == /\ pending = NoRecord
         /\ log' = <<>>
         /\ UNCHANGED <<pending, answer>>

Export(t) == /\ pending = NoRecord
             /\ answer' = [answer EXCEPT ![t] = log]
             /\ UNCHANGED <<log, pending>>

LogNext == \/ \E r \in Record : Push(r) \/ Overwrite(r)
           \/ Settle
           \/ Misplace
           \/ Erase
           \/ \E t \in Task : Export(t)

LogSpec == LogInit /\ [][LogNext]_logVars
=============================================================================
