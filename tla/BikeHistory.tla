---------------------------- MODULE BikeHistory ----------------------------
(***************************************************************************)
(* main/bike_history.c: the ring of bike records in the flash file         *)
(* /spiffs/bike_history.bin.  Offsets and sizes are counted in records     *)
(* instead of bytes (the code only ever moves by whole records), so        *)
(* MaxRecords stands for BIKE_HISTORY_MAX_RECORDS and header.write_offset  *)
(* and header.used_bytes are multiples of 1.                               *)
(*                                                                         *)
(* A call is cut where the file changes: an append writes the record and   *)
(* then the header, a clear truncates the file and then writes the header. *)
(* A reset (Crash) can fall on every cut.  A write is assumed to be        *)
(* all-or-nothing, and the two writes of a call reach the flash in order.  *)
(*                                                                         *)
(* A call that returns without touching the file (history_ready is FALSE,  *)
(* xSemaphoreTake times out, fopen or read_header fails) changes nothing   *)
(* and is the absence of a step.                                           *)
(***************************************************************************)
EXTENDS Naturals, Sequences, SequencesExt, FiniteSets

CONSTANTS
  Appenders,   (* tasks that call bike_history_append (live data worker)   *)
  Exporters,   (* tasks that call _export_json and _clear (the exporter)   *)
  Viewers,     (* tasks that call _field_json (the HTTP server)            *)
  NoTask,      (* nobody holds history_mutex                               *)
  Record,      (* the 10-byte records                                      *)
  Field,       (* field ids                                                *)
  FieldOf,     (* FieldOf[r]: byte 8 of the record                         *)
  Blank,       (* the content of a slot that was never written             *)
  MaxRecords,  (* BIKE_HISTORY_MAX_RECORDS                                 *)
  MaxPoints,   (* BIKE_HISTORY_FIELD_EXPORT_MAX_POINTS                     *)
  Faults       (* whether resets and I/O errors happen                     *)

Task == Appenders \cup Exporters \cup Viewers

Slot == 0 .. MaxRecords - 1

ASSUME HistoryAssumption ==
  /\ MaxRecords \in Nat \ {0}
  /\ MaxPoints \in Nat \ {0}
  /\ NoTask \notin Task
  /\ Blank \notin Record
  /\ FieldOf \in [Record -> Field]
  /\ Faults \in BOOLEAN

VARIABLES
  file,   (* "missing", "truncated" (no header yet) or "valid"      [flash] *)
  hdr,    (* the header in the file                                 [flash] *)
  data,   (* the data area                                          [flash] *)
  boot,   (* "off", "create" (init is writing a header) or "up"             *)
  ready,  (* history_ready                                                  *)
  mutex,  (* the task that holds history_mutex                              *)
  pc,     (* pc[t]: where task t is inside a call of this module            *)
  copy,   (* copy[t]: the local variable header of that call                *)
  rec,    (* rec[t]: the record an append is writing                        *)
  out     (* out[t]: the records the last export of t returned              *)

flash == <<file, hdr, data>>
vars == <<file, hdr, data, boot, ready, mutex, pc, copy, rec, out>>

-----------------------------------------------------------------------------
(* The header and the bytes it describes                                   *)

Header == [off : Nat, used : Nat]
EmptyHeader == [off |-> 0, used |-> 0]

(* header_valid does not relate the two fields to each other. *)
HeaderValid(h) == h.off < MaxRecords /\ h.used <= MaxRecords

(* The file opens and read_header succeeds. *)
Readable == file = "valid" /\ HeaderValid(hdr)

(* The header once a record has been written at h.off. *)
Advance(h) ==
  [off  |-> IF h.off + 1 >= MaxRecords THEN 0 ELSE h.off + 1,
   used |-> IF h.used < MaxRecords THEN h.used + 1 ELSE h.used]

Oldest_Front(h) == 0

Oldest(h) == IF h.used = MaxRecords THEN h.off ELSE 0

(* read_history_bytes: one read up to the end of the area, one from its    *)
(* beginning for the rest.                                                 *)
ReadHistory(h, d) ==
  LET first == IF Oldest(h) + h.used > MaxRecords
                 THEN MaxRecords - Oldest(h)
                 ELSE h.used
  IN  [i \in 1 .. h.used |-> IF i <= first THEN d[Oldest(h) + i - 1]
                                           ELSE d[i - first - 1]]

(* bike_history_field_json: the loop over the records keeps the last       *)
(* MaxPoints matching ones in a second, small ring.                        *)
SlotOf(h, i) == IF Oldest(h) + i >= MaxRecords
                  THEN Oldest(h) + i - MaxRecords
                  ELSE Oldest(h) + i

Collect(h, d, f) ==
  LET after[i \in 0 .. h.used] ==
        IF i = 0
          THEN [total |-> 0, points |-> [s \in 0 .. MaxPoints - 1 |-> Blank]]
          ELSE LET r   == d[SlotOf(h, i - 1)]
                   acc == after[i - 1]
               IN  IF FieldOf[r] # f
                     THEN acc
                     ELSE [total  |-> acc.total + 1,
                           points |-> [acc.points EXCEPT
                                         ![acc.total % MaxPoints] = r]]
  IN  after[h.used]

FieldPoints_NoRotation(h, d, f) ==
  LET c       == Collect(h, d, f)
      emitted == IF c.total > MaxPoints THEN MaxPoints ELSE c.total
  IN  [i \in 1 .. emitted |-> c.points[i - 1]]

FieldPoints(h, d, f) ==
  LET c       == Collect(h, d, f)
      emitted == IF c.total > MaxPoints THEN MaxPoints ELSE c.total
      start   == IF c.total > MaxPoints THEN c.total % MaxPoints ELSE 0
  IN  [i \in 1 .. emitted |-> c.points[(start + i - 1) % MaxPoints]]

-----------------------------------------------------------------------------
Init ==
  /\ file = "missing"
  /\ hdr = EmptyHeader
  /\ data = [s \in Slot |-> Blank]
  /\ boot = "off"
  /\ ready = FALSE
  /\ mutex = NoTask
  /\ pc = [t \in Task |-> "idle"]
  /\ copy = [t \in Task |-> EmptyHeader]
  /\ rec = [t \in Task |-> Blank]
  /\ out = [t \in Task |-> <<>>]

-----------------------------------------------------------------------------
(* bike_history_init, called once by app_main before the workers start     *)

BootUp(ok) == boot' = "up" /\ ready' = ok

(* The file is there and its header is valid. *)
BootKeep ==
  /\ boot = "off"
  /\ Readable
  /\ BootUp(TRUE)
  /\ UNCHANGED <<flash, mutex, pc, copy, rec, out>>

(* The header is not valid, or the open or the read of a good one failed:  *)
(* create_empty_file truncates what is there ...                           *)
BootTruncate ==
  /\ boot = "off"
  /\ ~Readable \/ Faults
  /\ file' = "truncated"
  /\ hdr' = EmptyHeader
  /\ data' = [s \in Slot |-> Blank]
  /\ boot' = "create"
  /\ UNCHANGED <<ready, mutex, pc, copy, rec, out>>

(* ... and writes an empty header. *)
BootCreate ==
  /\ boot = "create"
  /\ file' = "valid"
  /\ hdr' = EmptyHeader
  /\ BootUp(TRUE)
  /\ UNCHANGED <<data, mutex, pc, copy, rec, out>>

(* The file system did not mount (app_main then skips the history), or     *)
(* create_empty_file failed.                                               *)
BootFail ==
  /\ Faults
  /\ boot \in {"off", "create"}
  /\ BootUp(FALSE)
  /\ UNCHANGED <<flash, mutex, pc, copy, rec, out>>

-----------------------------------------------------------------------------
(* A call enters when it has the mutex and has read the header; it leaves  *)
(* by closing the file and giving the mutex, and its locals are gone.      *)

Enter(t, next) ==
  /\ boot = "up"
  /\ ready
  /\ mutex = NoTask
  /\ pc[t] = "idle"
  /\ mutex' = t
  /\ pc' = [pc EXCEPT ![t] = next]

Leave(t) ==
  /\ mutex' = NoTask
  /\ pc' = [pc EXCEPT ![t] = "idle"]
  /\ copy' = [copy EXCEPT ![t] = EmptyHeader]
  /\ rec' = [rec EXCEPT ![t] = Blank]

ReadHeader(t) ==
  /\ Readable
  /\ copy' = [copy EXCEPT ![t] = hdr]

(* A slip for the mutation runs: the error path forgets the mutex. *)
Fail_Leaks(t) ==
  /\ Faults
  /\ pc[t] # "idle"
  /\ pc' = [pc EXCEPT ![t] = "idle"]
  /\ copy' = [copy EXCEPT ![t] = EmptyHeader]
  /\ rec' = [rec EXCEPT ![t] = Blank]
  /\ UNCHANGED <<flash, boot, ready, mutex, out>>

(* The call fails: a write, a read or a malloc returned an error. *)
Fail(t) ==
  /\ Faults
  /\ pc[t] # "idle"
  /\ Leave(t)
  /\ UNCHANGED <<flash, boot, ready, out>>

(* bike_history_append *)
AppendBegin(t, r) ==
  /\ Enter(t, "record")
  /\ ReadHeader(t)
  /\ rec' = [rec EXCEPT ![t] = r]
  /\ UNCHANGED <<flash, boot, ready, out>>

AppendRecord(t) ==
  /\ pc[t] = "record"
  /\ data' = [data EXCEPT ![copy[t].off] = rec[t]]
  /\ pc' = [pc EXCEPT ![t] = "header"]
  /\ UNCHANGED <<file, hdr, boot, ready, mutex, copy, rec, out>>

AppendHeader(t) ==
  /\ pc[t] = "header"
  /\ hdr' = Advance(copy[t])
  /\ Leave(t)
  /\ UNCHANGED <<file, data, boot, ready, out>>

(* bike_history_export_json *)
ExportBegin(t) ==
  /\ Enter(t, "export")
  /\ ReadHeader(t)
  /\ UNCHANGED <<flash, boot, ready, rec, out>>

ExportRead(t) ==
  /\ pc[t] = "export"
  /\ out' = [out EXCEPT ![t] = ReadHistory(copy[t], data)]
  /\ Leave(t)
  /\ UNCHANGED <<flash, boot, ready>>

(* bike_history_field_json *)
FieldBegin(t) ==
  /\ Enter(t, "field")
  /\ ReadHeader(t)
  /\ UNCHANGED <<flash, boot, ready, rec, out>>

(* The answer is FieldPoints(copy[t], data, f); it goes to the browser and *)
(* leaves no trace here.                                                   *)
FieldRead(t) ==
  /\ pc[t] = "field"
  /\ Leave(t)
  /\ UNCHANGED <<flash, boot, ready, out>>

(* bike_history_clear: create_empty_file under the mutex *)
ClearBegin(t) ==
  /\ Enter(t, "truncate")
  /\ UNCHANGED <<flash, boot, ready, copy, rec, out>>

ClearTruncate(t) ==
  /\ pc[t] = "truncate"
  /\ file' = "truncated"
  /\ hdr' = EmptyHeader
  /\ data' = [s \in Slot |-> Blank]
  /\ pc' = [pc EXCEPT ![t] = "empty"]
  /\ UNCHANGED <<boot, ready, mutex, copy, rec, out>>

ClearHeader(t) ==
  /\ pc[t] = "empty"
  /\ file' = "valid"
  /\ hdr' = EmptyHeader
  /\ Leave(t)
  /\ UNCHANGED <<data, boot, ready, out>>

-----------------------------------------------------------------------------
(* A reset: the flash stays, everything else is gone.  out is kept only to *)
(* remember what was answered.                                             *)
Crash ==
  /\ Faults
  /\ boot' = "off"
  /\ ready' = FALSE
  /\ mutex' = NoTask
  /\ pc' = [t \in Task |-> "idle"]
  /\ copy' = [t \in Task |-> EmptyHeader]
  /\ rec' = [t \in Task |-> Blank]
  /\ UNCHANGED <<flash, out>>

AppendStep(t) == \/ \E r \in Record : AppendBegin(t, r)
                 \/ AppendRecord(t)
                 \/ AppendHeader(t)

ExportStep(t) == ExportBegin(t) \/ ExportRead(t)

FieldStep(t) == FieldBegin(t) \/ FieldRead(t)

ClearStep(t) == ClearBegin(t) \/ ClearTruncate(t) \/ ClearHeader(t)

BootStep == BootKeep \/ BootTruncate \/ BootCreate \/ BootFail

Next ==
  \/ BootStep
  \/ \E t \in Appenders : AppendStep(t)
  \/ \E t \in Exporters : ExportStep(t) \/ ClearStep(t)
  \/ \E t \in Viewers : FieldStep(t)
  \/ \E t \in Task : Fail(t)
  \/ Crash

(* What a task does once it holds the mutex: a bounded run of file calls,  *)
(* which the scheduler lets every task finish.                             *)
Finish(t) ==
  \/ AppendRecord(t) \/ AppendHeader(t)
  \/ ExportRead(t) \/ FieldRead(t)
  \/ ClearTruncate(t) \/ ClearHeader(t)
  \/ Fail(t)

Spec == Init /\ [][Next]_vars

FairSpec == Spec /\ \A t \in Task : WF_vars(Finish(t))

-----------------------------------------------------------------------------
(* Properties                                                              *)

Step == {"idle", "record", "header", "export", "field", "truncate", "empty"}

HistoryHeader == [off : Slot, used : 0 .. MaxRecords]

(* Every header, in the file or in a call, is one that header_valid (85)   *)
(* accepts; the data area holds records or was never written.              *)
TypeOK ==
  /\ file \in {"missing", "truncated", "valid"}
  /\ hdr \in HistoryHeader
  /\ data \in [Slot -> Record \cup {Blank}]
  /\ boot \in {"off", "create", "up"}
  /\ ready \in BOOLEAN
  /\ mutex \in Task \cup {NoTask}
  /\ pc \in [Task -> Step]
  /\ copy \in [Task -> HistoryHeader]
  /\ rec \in [Task -> Record \cup {Blank}]
  /\ out \in [Task -> Seq(Record)]

(* A ring that is not full has been written from slot 0: its next write    *)
(* goes right behind its records.  read_history_bytes (186) and            *)
(* bike_history_field_json (396) start reading at slot 0 on the strength   *)
(* of it, and header_valid (85) does not check it.                         *)
HeaderShape == hdr.used < MaxRecords => hdr.off = hdr.used

(* The header never covers a slot that no record was written to, whatever  *)
(* step of bike_history_append (259-270) a reset or an error falls on: an  *)
(* export contains only records.                                           *)
CoversOnlyRecords == \A i \in Slot : i < hdr.used => data[i] # Blank

(* The header a call has read is still the file's header when the call     *)
(* uses it, and only the holder of the mutex is inside a call.             *)
CopyIsCurrent ==
  \A t \in Task : pc[t] # "idle" =>
     /\ mutex = t
     /\ pc[t] \in {"record", "header", "export", "field"} =>
          file = "valid" /\ copy[t] = hdr

(* What these rest on: calls are under way only after boot, a file without *)
(* a header stands for an empty ring, and between the two writes of an     *)
(* append the slot at its offset holds the new record.                     *)
CallsAreAfterBoot == \A t \in Task : pc[t] # "idle" => boot = "up"

NoHeaderIsEmpty == file # "valid" => hdr = EmptyHeader

CreatingIsTruncated == boot = "create" => file = "truncated"

ClearingIsTruncated ==
  \A t \in Task : pc[t] = "empty" => file = "truncated"

RecordInHand ==
  \A t \in Task :
     /\ pc[t] \in {"record", "header"} => rec[t] \in Record
     /\ pc[t] = "header" => data[copy[t].off] = rec[t]

(* The inductive invariant. *)
IInv == /\ TypeOK
        /\ HeaderShape
        /\ CoversOnlyRecords
        /\ CopyIsCurrent
        /\ CallsAreAfterBoot
        /\ NoHeaderIsEmpty
        /\ CreatingIsTruncated
        /\ ClearingIsTruncated
        /\ RecordInHand

(* The file as the abstract log.  While a full ring's oldest slot has      *)
(* already been overwritten but the header not yet moved, that slot is the *)
(* pending record and the log is the rest.                                 *)
Overwriting == \E t \in Task : pc[t] = "header" /\ copy[t].used = MaxRecords

Contents == ReadHistory(hdr, data)

LogOfFile == IF Overwriting THEN Tail(Contents) ELSE Contents

PendingOfFile == IF Overwriting THEN data[hdr.off] ELSE Blank

Log == INSTANCE HistoryLog WITH
         Capacity <- MaxRecords, NoRecord <- Blank,
         log <- LogOfFile, pending <- PendingOfFile, answer <- out

(* The ring file implements a log of the last MaxRecords records, and an   *)
(* export returns that log, oldest record first.                           *)
ImplementsLog == Log!LogSpec

(* The places of field f in an export, and how many come behind place i.  *)
Matching(f) == {i \in 1 .. hdr.used : FieldOf[Contents[i]] = f}

Behind(f, i) == Cardinality({j \in Matching(f) : j > i})

(* What bike_history_field_json (366-455) collects in its small ring while *)
(* it holds the mutex is the last MaxPoints records of the field, oldest   *)
(* first, wherever the two rings wrap: as many as there are, and the one   *)
(* with k of the field behind it is the answer's last but k.               *)
FieldAnswerIsLatest ==
  \A t \in Viewers, f \in Field :
     pc[t] = "field" =>
       LET answer == FieldPoints(copy[t], data, f)
           n      == Cardinality(Matching(f))
       IN  /\ Len(answer) = IF n > MaxPoints THEN MaxPoints ELSE n
           /\ \A i \in Matching(f) :
                Behind(f, i) < MaxPoints =>
                  answer[Len(answer) - Behind(f, i)] = Contents[i]

(* Whoever takes history_mutex gives it back, on every return path.        *)
MutexIsGivenBack == \A t \in Task : mutex = t ~> mutex # t
=============================================================================
