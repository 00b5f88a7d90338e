--------------------------- MODULE LiveAutomation ---------------------------
(***************************************************************************)
(* From a notification to an evaluation: the live data worker of LiveData, *)
(* which computes the mask of changed fields before it merges and requests *)
(* the evaluation after it, the queue of AutomationQueue, and the          *)
(* automation worker, which reads the fields of the mask it has received   *)
(* from latest_state one at a time (automation.c:571-580), while the next  *)
(* notification may already be merged.  The readers of LiveData change     *)
(* nothing for either and take no step here.                               *)
(***************************************************************************)
EXTENDS LiveData, AutomationQueue

Bit == Field \cup {Other}

ASSUME LiveAutomationAssumption == Fields = Bit

VARIABLES
  unread,  (* the fields of the evaluation under way not yet read          *)
  seen,    (* seen[f]: what the rules last read for field f                *)
  missed   (* changes that no rule has seen: no rule was active, or the    *)
           (* evaluation was skipped                                       *)

evalVars == <<unread, seen, missed>>
laVars == <<liveVars, queueVars, evalVars>>

LAInit ==
  /\ LiveInit
  /\ QueueInit
  /\ unread = {}
  /\ seen = [f \in Field |-> Absent]
  /\ missed = {}

-----------------------------------------------------------------------------
(* The live data worker: automation_request_evaluate is a call of it.      *)

Decode ==
  /\ at = "idle"
  /\ \/ \E m \in Message : Notify(m)
     \/ Merge
     \/ NotDue \/ PersistNothing \/ PersistOpen \/ PersistPage \/ PersistClose \/ Keep
  /\ UNCHANGED <<queueVars, evalVars>>

(* One of its early returns, ... *)
AskInVain ==
  /\ at = "idle"
  /\ changed = {} \/ ~started \/ ~active
  /\ missed' = missed \cup changed
  /\ Ask
  /\ UNCHANGED <<queueVars, unread, seen>>

(* ... or the beginning of a request. *)
AskQueue ==
  /\ Request(changed)
  /\ Ask
  /\ UNCHANGED evalVars

RequestStep ==
  /\ Send \/ Take \/ Resend
  /\ UNCHANGED <<liveVars, evalVars>>

-----------------------------------------------------------------------------
(* The automation worker                                                   *)

EvaluateBegin ==
  /\ Receive
  /\ unread' = Head(queue) \cap Field
  /\ UNCHANGED <<liveVars, seen, missed>>

(* live_data_latest_field_value *)
ReadField(f) ==
  /\ f \in unread
  /\ seen' = [seen EXCEPT ![f] = IF has[f] THEN val[f] ELSE Absent]
  /\ unread' = unread \ {f}
  /\ missed' = missed \ {f}
  /\ UNCHANGED <<liveVars, queueVars>>

EvaluateEnd ==
  /\ Evaluate
  /\ unread = {}
  /\ UNCHANGED <<liveVars, evalVars>>

(* Wi-Fi is down, or there is no memory for the rules. *)
EvaluateSkip ==
  /\ Evaluate
  /\ missed' = missed \cup unread
  /\ unread' = {}
  /\ UNCHANGED <<liveVars, seen>>

LAReset ==
  /\ LiveReset
  /\ Reset
  /\ unread' = {}
  /\ seen' = [f \in Field |-> Absent]
  /\ missed' = {}

LANext ==
  \/ Decode \/ AskInVain \/ AskQueue \/ RequestStep
  \/ EvaluateBegin \/ (\E f \in Field : ReadField(f)) \/ EvaluateEnd \/ EvaluateSkip
  \/ (Start \/ SetActive) /\ UNCHANGED <<liveVars, evalVars>>
  \/ LAReset

LASpec == LAInit /\ [][LANext]_laVars

-----------------------------------------------------------------------------
(* Properties                                                              *)

Quiet == place = "idle" /\ at = "idle" /\ queue = <<>> /\ hand = {}

(* When everything is quiet, the rules have seen the latest value of every *)
(* field they can ask for, except changes that were dropped in the open:   *)
(* the mask is taken before the merge (890) and requested after it (896),  *)
(* the queue may overflow, and the worker may read at any moment.          *)
EvaluatesLatest ==
  Quiet => \A f \in Field \ {Time} : has[f] /\ f \notin missed => seen[f] = val[f]

(* What the proofs add.  A field whose value no rule has seen is on its    *)
(* way: with the worker, in the queue, or in the evaluation.               *)
NewsIsUnderWay ==
  \A f \in Field \ {Time} :
    has[f] /\ f \notin missed /\ seen[f] # val[f]
      => f \in changed \cup mask \cup Bits(queue) \cup unread

(* While a message is merged, what is not in its mask does not change.     *)
MaskCovers ==
  /\ left # {} => place = "merge"
  /\ place = "idle" => changed = {}
  /\ left \subseteq Words(data)
  /\ place = "merge" => \A f \in Present(data) \ ({Time} \cup changed) :
                          has[f] /\ val[f] = data.known[f]

LATypes ==
  /\ has \in [Field -> BOOLEAN]
  /\ val \in [Field -> Value]
  /\ seen \in [Field -> Value \cup {Absent}]
  /\ data \in Message \cup {Silence}
  /\ changed \subseteq Bit
  /\ unread \subseteq hand \cap Field

(* The inductive invariant. *)
LAInv == QueueInv /\ LATypes /\ MaskCovers /\ NewsIsUnderWay
=============================================================================
