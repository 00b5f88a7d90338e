-------------------------- MODULE TelemetryExport --------------------------
(***************************************************************************)
(* main/telemetry_export.c on top of the history ring: the task that posts *)
(* the stored bike records to a server and then clears them, while the     *)
(* live data worker keeps appending and the HTTP server keeps reading.     *)
(*                                                                         *)
(* Record n is the n-th record appended, so the order of the numbers is    *)
(* the order in time.  Timer arithmetic is abstracted: the task may find   *)
(* the bike interval elapsed whenever it wakes.  export_logs shares no     *)
(* state with the history and is left out.                                 *)
(***************************************************************************)
EXTENDS BikeHistory

CONSTANT exporter  (* the telemetry_export task *)

ASSUME ExportAssumption ==
  /\ Exporters = {exporter}
  /\ exporter \notin Appenders \cup Viewers
  /\ Record \subseteq Nat

VARIABLES
  step,      (* where export_bike_data is: "sleep", "check", "snapshot",   *)
             (* "post" or "clear"                                          *)
  payload,   (* the records in the request; <<>> when has_history is FALSE *)
  wifi,      (* wifi_admin_is_connected                                    *)
  appended,  (* how many records have been given to bike_history_append    *)
  snapshot,  (* how many of them there were when the payload was read      *)
  delivered  (* the records the server has received                        *)

exportVars == <<step, payload, wifi, appended, snapshot, delivered>>
allVars == <<vars, exportVars>>

ExportInit ==
  /\ Init
  /\ step = "sleep"
  /\ payload = <<>>
  /\ wifi = FALSE
  /\ appended = 0
  /\ snapshot = 0
  /\ delivered = {}

(* The end of a cycle: the buffers are freed, the task sleeps. *)
Sleep == step' = "sleep" /\ payload' = <<>>

-----------------------------------------------------------------------------
(* The other tasks                                                         *)

Append1 ==
  /\ appended + 1 \in Record
  /\ \E t \in Appenders : AppendBegin(t, appended + 1)
  /\ appended' = appended + 1
  /\ UNCHANGED <<step, payload, wifi, snapshot, delivered>>

OtherStep ==
  /\ \/ BootStep
     \/ \E t \in Appenders : AppendRecord(t) \/ AppendHeader(t) \/ Fail(t)
     \/ \E t \in Viewers : FieldStep(t) \/ Fail(t)
  /\ UNCHANGED exportVars

WifiChange ==
  /\ wifi' = ~wifi
  /\ UNCHANGED <<vars, step, payload, appended, snapshot, delivered>>

ResetChip ==
  /\ Crash
  /\ Sleep
  /\ wifi' = FALSE
  /\ UNCHANGED <<appended, snapshot, delivered>>

-----------------------------------------------------------------------------
(* The export task                                                         *)

(* The loop of telemetry_export_task finds Wi-Fi up and the interval over. *)
Wake ==
  /\ boot = "up"
  /\ step = "sleep"
  /\ wifi
  /\ step' = "check"
  /\ UNCHANGED <<vars, payload, wifi, appended, snapshot, delivered>>

(* What bike_history_has_records reads when it gets the mutex. *)
HasRecords == ready /\ Readable /\ hdr.used > 0

CheckYes ==
  /\ step = "check"
  /\ mutex = NoTask
  /\ HasRecords
  /\ step' = "snapshot"
  /\ UNCHANGED <<vars, payload, wifi, appended, snapshot, delivered>>

(* Somebody else holds the mutex for longer than the timeout of the take.  *)
TakeTimesOut == Faults /\ mutex \notin {NoTask, exporter}

(* No record, or no mutex in time: the post goes out without history.      *)
CheckNo ==
  /\ step = "check"
  /\ TakeTimesOut \/ (mutex = NoTask /\ ~HasRecords)
  /\ step' = "post"
  /\ payload' = <<>>
  /\ UNCHANGED <<vars, wifi, appended, snapshot, delivered>>

SnapshotBegin ==
  /\ step = "snapshot"
  /\ ExportBegin(exporter)
  /\ UNCHANGED exportVars

SnapshotRead ==
  /\ ExportRead(exporter)
  /\ payload' = out'[exporter]
  /\ snapshot' = appended
  /\ step' = "post"
  /\ UNCHANGED <<wifi, appended, delivered>>

(* bike_history_export_json gives up: no mutex in time, or an error while  *)
(* it holds it.                                                            *)
SnapshotFail ==
  /\ step = "snapshot"
  /\ \/ TakeTimesOut /\ UNCHANGED vars
     \/ Fail(exporter)
  /\ step' = "post"
  /\ payload' = <<>>
  /\ UNCHANGED <<wifi, appended, snapshot, delivered>>

(* A slip for the mutation runs: an error status counts as a success.      *)
PostFail_Clears ==
  /\ step = "post"
  /\ step' = IF payload # <<>> THEN "clear" ELSE "sleep"
  /\ UNCHANGED <<vars, wifi, payload, appended, snapshot, delivered>>

PostOk ==
  /\ step = "post"
  /\ wifi
  /\ delivered' = delivered \cup Range(payload)
  /\ IF payload # <<>> THEN step' = "clear" /\ UNCHANGED payload ELSE Sleep
  /\ UNCHANGED <<vars, wifi, appended, snapshot>>

(* No connection, an error status, or a timeout. *)
PostFail ==
  /\ step = "post"
  /\ Sleep
  /\ UNCHANGED <<vars, wifi, appended, snapshot, delivered>>

(* The server has the request, but its answer does not arrive in time. *)
PostAnswerLost ==
  /\ step = "post"
  /\ wifi
  /\ delivered' = delivered \cup Range(payload)
  /\ Sleep
  /\ UNCHANGED <<vars, wifi, appended, snapshot>>

ClearStart ==
  /\ step = "clear"
  /\ ClearBegin(exporter)
  /\ UNCHANGED exportVars

Truncate ==
  /\ ClearTruncate(exporter)
  /\ UNCHANGED exportVars

ClearEnd ==
  /\ ClearHeader(exporter)
  /\ Sleep
  /\ UNCHANGED <<wifi, appended, snapshot, delivered>>

(* bike_history_clear gives up: the records stay and are sent again.       *)
ClearFail ==
  /\ step = "clear"
  /\ \/ TakeTimesOut /\ UNCHANGED vars
     \/ Fail(exporter)
  /\ Sleep
  /\ UNCHANGED <<wifi, appended, snapshot, delivered>>

ExportTask ==
  \/ Wake \/ CheckYes \/ CheckNo
  \/ SnapshotBegin \/ SnapshotRead \/ SnapshotFail
  \/ PostFail
  \/ ClearStart \/ Truncate \/ ClearEnd \/ ClearFail

ExportNext ==
  \/ Append1 \/ OtherStep \/ WifiChange \/ ResetChip
  \/ ExportTask \/ PostOk \/ PostAnswerLost

ExportSpec == ExportInit /\ [][ExportNext]_allVars

(***************************************************************************)
(* Fairness: boot runs to its end; a task inside a call finishes it; the   *)
(* export task is scheduled and gets the mutex it waits for (FreeRTOS      *)
(* mutexes wake their waiters); and, as an assumption on the server, a     *)
(* post tried again and again succeeds.                                    *)
(***************************************************************************)
ExportFairness ==
  /\ WF_allVars(BootStep /\ UNCHANGED exportVars)
  /\ \A t \in Appenders \cup Viewers :
       WF_allVars(Finish(t) /\ UNCHANGED exportVars)
  /\ WF_allVars(ExportTask)
  /\ SF_allVars(CheckYes)
  /\ SF_allVars(SnapshotBegin)
  /\ SF_allVars(ClearStart)
  /\ SF_allVars(PostOk)

FairExportSpec == ExportSpec /\ ExportFairness

-----------------------------------------------------------------------------
(* Properties                                                              *)

InFile == Range(LogOfFile)

ExportTypeOK ==
  /\ TypeOK
  /\ step \in {"sleep", "check", "snapshot", "post", "clear"}
  /\ payload \in Seq(Record)
  /\ wifi \in BOOLEAN
  /\ appended \in Nat
  /\ snapshot \in 0 .. appended
  /\ delivered \subseteq Record

(* export_bike_data (141-149) clears what it has delivered: a record that  *)
(* the clear removes has reached the server, or was appended after the     *)
(* payload was read.                                                       *)
ErasesOnlySentOrNew ==
  [][\A n \in Record :
        n \in InFile /\ Truncate => n \in delivered \/ n > snapshot]_allVars

(* README.md:290 "clears the local binary history only after the HTTP POST *)
(* succeeds": no record is cleared without having been in such a POST.     *)
ErasesOnlySent ==
  [][\A n \in Record : n \in InFile /\ Truncate => n \in delivered]_allVars

(* Whatever resets and errors do, the ring is in the order of time behind  *)
(* its first record: the damage of an interrupted append to a full ring    *)
(* (bike_history.c:259-270) does not add up.                               *)
OrderedBehindFirst ==
  \A i, j \in 2 .. Len(LogOfFile) : i < j => LogOfFile[i] < LogOfFile[j]

(* What the proofs add.  The place of the task agrees with the place of    *)
(* its call.                                                               *)
PlacesAgree ==
  /\ step # "sleep" => boot = "up"
  /\ pc[exporter] \in {"idle", "export", "truncate", "empty"}
  /\ pc[exporter] = "export" => step = "snapshot"
  /\ pc[exporter] \in {"truncate", "empty"} => step = "clear"

(* The records of appends under way; the pending one of the log is one.    *)
InHand == {rec[t] : t \in {u \in Task : pc[u] \in {"record", "header"}}}

(* The records are in order, but for the first one when no overwrite is    *)
(* under way, and the record of an append is the youngest of all.          *)
OrderedAndOlder ==
  /\ \A i, j \in 1 .. Len(LogOfFile) :
       i < j /\ (i > 1 \/ PendingOfFile # Blank) => LogOfFile[i] < LogOfFile[j]
  /\ \A n \in InFile : n <= appended
  /\ \A n \in InHand : n = appended /\ n \notin InFile

(* From the snapshot on, what a clear would remove is in the payload or    *)
(* came later; once the post has succeeded, it has been delivered.         *)
Erasable == (step = "post" /\ payload # <<>>) \/ step = "clear"

KeptIsSentOrNew ==
  Erasable =>
    \A n \in InFile \cup InHand :
      n > snapshot \/ n \in (IF step = "clear" THEN delivered ELSE Range(payload))

(* The inductive invariant. *)
ExportInv ==
  /\ IInv
  /\ ExportTypeOK
  /\ PlacesAgree
  /\ OrderedAndOlder
  /\ KeptIsSentOrNew

(* A reset, an error inside a call, or a mutex not had in time because a   *)
(* call that is under way holds it.  A mutex that nobody gives back is no  *)
(* excuse: a task that waits for it in vain has not met with trouble.      *)
Trouble ==
  \/ Crash
  \/ \E t \in Task : Fail(t)
  \/ /\ SnapshotFail \/ ClearFail \/ (CheckNo /\ HasRecords)
     /\ \E t \in Task : mutex = t /\ pc[t] # "idle"

(* README.md:388 "Failed sends are skipped and retried on the next         *)
(* configured interval": once Wi-Fi stays up and the trouble is over, a    *)
(* stored record reaches the server, unless newer ones overwrite it first, *)
(* whatever state the trouble has left behind: every error path must have  *)
(* given the mutex back (bike_history.c:249-285).                          *)
RecordsAreSent ==
  <>[](wifi /\ ready) /\ <>[][~Trouble]_allVars =>
    \A n \in Record : n \in InFile ~> n \in delivered \/ n \notin InFile
=============================================================================
