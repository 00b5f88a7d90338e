-------------------------- MODULE AutomationQueue --------------------------
(***************************************************************************)
(* main/automation.c: the queue between the live data worker, which calls  *)
(* automation_request_evaluate with the mask of changed fields, and the    *)
(* automation worker.  The producer never blocks: when the queue is full   *)
(* it takes the oldest mask out, ORs it into its own and tries again.      *)
(* The two tasks run on two cores, so the automation worker may receive    *)
(* between any two of these calls.  Each queue call is atomic (FreeRTOS).  *)
(***************************************************************************)
EXTENDS Naturals, Sequences

CONSTANTS Fields,    (* the bits of the mask                               *)
          Capacity   (* length of automation_queue, 4 in the code          *)

ASSUME QueueAssumption == Capacity \in Nat \ {0}

VARIABLES
  started,  (* automation_queue # NULL and the worker runs                 *)
  active,   (* automation_rules_active                                     *)
  queue,    (* automation_queue                                            *)
  at,       (* where automation_request_evaluate is: "idle", "send",       *)
            (* "take" or "resend"                                          *)
  mask,     (* its variable changed_fields, {} when idle                   *)
  hand      (* the mask being evaluated by the worker, {} while it waits   *)

queueVars == <<started, active, queue, at, mask, hand>>

Mask == SUBSET Fields

QueueInit ==
  /\ started = FALSE
  /\ active = FALSE
  /\ queue = <<>>
  /\ at = "idle"
  /\ mask = {}
  /\ hand = {}

(* automation_start *)
Start ==
  /\ ~started
  /\ started' = TRUE
  /\ active' \in BOOLEAN
  /\ UNCHANGED <<queue, at, mask, hand>>

(* The HTTP handlers that save the rules set the flag, at any time; the    *)
(* module AutomationRules says to what.                                    *)
SetActive ==
  /\ active' = ~active
  /\ UNCHANGED <<started, queue, at, mask, hand>>

-----------------------------------------------------------------------------
(* The live data worker in automation_request_evaluate                     *)

(* The three early returns. *)
Request(m) ==
  /\ at = "idle"
  /\ started
  /\ active
  /\ m # {}
  /\ mask' = m
  /\ at' = "send"
  /\ UNCHANGED <<started, active, queue, hand>>

Return == at' = "idle" /\ mask' = {}

Send ==
  /\ at = "send"
  /\ IF Len(queue) < Capacity
       THEN queue' = Append(queue, mask) /\ Return
       ELSE at' = "take" /\ UNCHANGED <<queue, mask>>
  /\ UNCHANGED <<started, active, hand>>

(* Slips for the mutation runs: the mask taken out is not merged in, or    *)
(* is left in the queue.                                                   *)
Take_NoMerge ==
  /\ at = "take"
  /\ IF queue # <<>> THEN queue' = Tail(queue) ELSE UNCHANGED queue
  /\ at' = "resend"
  /\ UNCHANGED <<started, active, mask, hand>>

Take_PeekOnly ==
  /\ at = "take"
  /\ mask' = IF queue # <<>> THEN mask \cup Head(queue) ELSE mask
  /\ at' = "resend"
  /\ UNCHANGED <<started, active, queue, hand>>

(* The receive fails if the worker has emptied the queue since. *)
Take ==
  /\ at = "take"
  /\ IF queue # <<>>
       THEN mask' = mask \cup Head(queue) /\ queue' = Tail(queue)
       ELSE UNCHANGED <<mask, queue>>
  /\ at' = "resend"
  /\ UNCHANGED <<started, active, hand>>

(* The result of the second send is ignored. *)
Resend ==
  /\ at = "resend"
  /\ IF Len(queue) < Capacity
       THEN queue' = Append(queue, mask)
       ELSE UNCHANGED queue
  /\ Return
  /\ UNCHANGED <<started, active, hand>>

-----------------------------------------------------------------------------
(* A slip for the mutation runs: the worker waits for an enabled rule      *)
(* before it takes a request.                                              *)
Receive_OnlyActive ==
  /\ started
  /\ active
  /\ hand = {}
  /\ queue # <<>>
  /\ hand' = Head(queue)
  /\ queue' = Tail(queue)
  /\ UNCHANGED <<started, active, at, mask>>

(* automation_worker_task; what an evaluation does with the mask is the    *)
(* subject of AutomationRules.                                             *)
Receive ==
  /\ started
  /\ hand = {}
  /\ queue # <<>>
  /\ hand' = Head(queue)
  /\ queue' = Tail(queue)
  /\ UNCHANGED <<started, active, at, mask>>

Evaluate ==
  /\ hand # {}
  /\ hand' = {}
  /\ UNCHANGED <<started, active, queue, at, mask>>

Reset ==
  /\ started' = FALSE
  /\ active' = FALSE
  /\ queue' = <<>>
  /\ at' = "idle"
  /\ mask' = {}
  /\ hand' = {}

Producer == (\E m \in Mask : Request(m)) \/ Send \/ Take \/ Resend

Worker == Receive \/ Evaluate

QueueNext == Start \/ SetActive \/ Producer \/ Worker \/ Reset

QueueSpec == QueueInit /\ [][QueueNext]_queueVars

(* Each task finishes the call it is in, and the automation worker is      *)
(* scheduled: the notifications it competes with are some per second, and  *)
(* an evaluation is bounded by the HTTP timeouts.                          *)
FairQueueSpec ==
  /\ QueueSpec
  /\ WF_queueVars(Send \/ Take \/ Resend)
  /\ WF_queueVars(Receive)
  /\ WF_queueVars(Evaluate)

-----------------------------------------------------------------------------
(* Properties                                                              *)

(* The queue holds masks of changed fields only, at most Capacity of them. *)
QueueTypeOK ==
  /\ started \in BOOLEAN
  /\ active \in BOOLEAN
  /\ queue \in Seq(Mask \ {{}})
  /\ Len(queue) <= Capacity
  /\ at \in {"idle", "send", "take", "resend"}
  /\ mask \in Mask
  /\ hand \in Mask
  /\ at # "idle" <=> mask # {}

(* The ignored second xQueueSend (1173) never meets a full queue: the live *)
(* data worker is the only producer, so what it took out stays free.       *)
SecondSendFits == at = "resend" => Len(queue) < Capacity

(* The inductive invariant. *)
QueueInv == QueueTypeOK /\ SecondSendFits

(* The fields in the masks of a queue. *)
Bits(q) == {f \in Fields : \E i \in 1 .. Len(q) : f \in q[i]}

Requests == INSTANCE EvaluationRequests WITH
              wanted <- Bits(queue) \cup mask, serving <- hand

(* Overflow merges masks (1168-1174) and loses no changed field, whatever  *)
(* the worker receives meanwhile: the queue implements the set of fields   *)
(* that wait for an evaluation.                                            *)
KeepsRequests == Requests!RequestsSpec

(* A changed field whose evaluation was requested is evaluated in the end, *)
(* unless the device restarts or the queue overflows again: an overflow    *)
(* moves the oldest request behind all others (1168-1174), and one that    *)
(* strikes each time a field has come to the front starves that field.     *)
RequestIsEvaluated ==
  \A f \in Fields :
     f \in Bits(queue) \cup mask ~> f \in hand \/ ~started \/ at = "take"
=============================================================================
