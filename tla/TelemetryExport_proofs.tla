------------------------ MODULE TelemetryExport_proofs --------------------
(***************************************************************************)
(* Proofs about the history ring and the exporter, for every capacity,     *)
(* every set of tasks and records, with or without faults.  The ring:      *)
(*   InductiveInvariant     IInv is an invariant                           *)
(*   TypeCorrect, ExportsOnlyRecords, HeaderIsWellShaped, MutexProtectsCopy *)
(*   RingImplementsLog      the file implements the log of HistoryLog      *)
(*   FieldQueryIsLatest     a field query answers with the newest points   *)
(* The ring under the exporter:                                            *)
(*   ExportInvariant        ExportInv is an invariant                      *)
(*   DamageDoesNotAddUp     only the oldest record can be out of order     *)
(*   ClearsWhatWasSent      a clear removes what was delivered or is new   *)
(***************************************************************************)
EXTENDS TelemetryExport, SequenceTheorems, FiniteSetTheorems,
        WellFoundedInduction, TLAPS

USE HistoryAssumption

(* The header after an append is one the file may hold. *)
LEMMA AdvanceShape ==
  ASSUME NEW h \in HistoryHeader, h.used < MaxRecords => h.off = h.used
  PROVE  /\ Advance(h) \in HistoryHeader
         /\ Advance(h).used < MaxRecords => Advance(h).off = Advance(h).used
BY DEF Advance, HistoryHeader, Slot

(* A header covers the slots of its records only. *)
LEMMA ReadsCovered ==
  ASSUME NEW h \in HistoryHeader, NEW S,
         NEW d \in [Slot -> S \cup {Blank}], Blank \notin S,
         \A i \in Slot : i < h.used => d[i] # Blank
  PROVE  /\ ReadHistory(h, d) \in Seq(S)
         /\ Len(ReadHistory(h, d)) = h.used
<1> DEFINE first == IF Oldest(h) + h.used > MaxRecords
                      THEN MaxRecords - Oldest(h) ELSE h.used
           at(i) == IF i <= first THEN Oldest(h) + i - 1 ELSE i - first - 1
<1>1. \A i \in 1 .. h.used : at(i) \in Slot /\ at(i) < h.used
  BY DEF Oldest, HistoryHeader, Slot
<1>2. \A i \in 1 .. h.used : d[at(i)] \in S
  BY <1>1
<1>3. ReadHistory(h, d) = [i \in 1 .. h.used |-> d[at(i)]]
  BY DEF ReadHistory
<1>4. h.used \in Nat
  BY DEF HistoryHeader
<1> HIDE DEF at
<1>5. ReadHistory(h, d) \in [1 .. h.used -> S]
  BY <1>2, <1>3
<1> QED
  BY <1>4, <1>5, SeqDef

-----------------------------------------------------------------------------
(* IInv is inductive. *)

LEMMA InitIInv == Init => IInv
<1> SUFFICES ASSUME Init PROVE IInv
  OBVIOUS
<1>1. EmptyHeader \in HistoryHeader
  BY DEF EmptyHeader, HistoryHeader, Slot
<1>2. <<>> \in Seq(Record)
  BY EmptySeq
<1>3. TypeOK
  BY <1>1, <1>2 DEF Init, TypeOK, Step
<1> QED
  BY <1>3 DEF Init, IInv, HeaderShape, CoversOnlyRecords, CopyIsCurrent,
              CallsAreAfterBoot, NoHeaderIsEmpty, CreatingIsTruncated,
              ClearingIsTruncated, RecordInHand, EmptyHeader, Slot

LEMMA EmptyHeaderType == EmptyHeader \in HistoryHeader
BY DEF EmptyHeader, HistoryHeader, Slot

LEMMA StepIInv == IInv /\ [Next]_vars => IInv'
<1> SUFFICES ASSUME IInv, [Next]_vars PROVE IInv'
  OBVIOUS
<1> USE EmptyHeaderType
<1> USE DEF IInv, flash, HeaderShape, CoversOnlyRecords, CopyIsCurrent,
            CallsAreAfterBoot, NoHeaderIsEmpty, CreatingIsTruncated,
            ClearingIsTruncated, RecordInHand
<1>1. CASE BootKeep
  BY <1>1 DEF BootKeep, BootUp, TypeOK
<1>2. CASE BootTruncate
  <2> USE <1>2 DEF BootTruncate
  <2>1. TypeOK'
    BY DEF TypeOK
  <2>2. \A t \in Task : pc[t] = "idle"
    OBVIOUS
  <2> QED
    BY <2>1, <2>2 DEF TypeOK, EmptyHeader, Slot
<1>3. CASE BootCreate
  <2> USE <1>3 DEF BootCreate, BootUp
  <2>1. TypeOK'
    BY DEF TypeOK
  <2>2. \A t \in Task : pc[t] = "idle"
    OBVIOUS
  <2> QED
    BY <2>1, <2>2 DEF TypeOK, EmptyHeader, Slot
<1>4. CASE BootFail
  BY <1>4 DEF BootFail, BootUp, TypeOK
<1>5. ASSUME NEW t \in Task, NEW r \in Record, AppendBegin(t, r) PROVE IInv'
  BY <1>5 DEF AppendBegin, Enter, ReadHeader, Readable, TypeOK, Step
<1>6. ASSUME NEW t \in Task, AppendRecord(t) PROVE IInv'
  <2> USE <1>6 DEF AppendRecord
  <2>1. copy[t] \in HistoryHeader /\ copy[t].off \in Slot /\ rec[t] \in Record
    BY DEF TypeOK, HistoryHeader
  <2>2. TypeOK'
    BY <2>1 DEF TypeOK, Step
  <2>3. CoversOnlyRecords'
    BY <2>1 DEF TypeOK
  <2>4. \A u \in Task : u # t => pc[u] = "idle"
    OBVIOUS
  <2>5. RecordInHand'
    BY <2>1, <2>4 DEF TypeOK
  <2> QED
    BY <2>2, <2>3, <2>5 DEF TypeOK
<1>7. ASSUME NEW t \in Task, AppendHeader(t) PROVE IInv'
  <2> USE <1>7 DEF AppendHeader, Leave
  <2>1. /\ copy[t] = hdr /\ file = "valid" /\ mutex = t
        /\ data[hdr.off] = rec[t] /\ rec[t] \in Record
    OBVIOUS
  <2>2. hdr' \in HistoryHeader /\ HeaderShape'
    BY <2>1, AdvanceShape DEF TypeOK
  <2>3. TypeOK'
    BY <2>2 DEF TypeOK, Step
  <2>4. CoversOnlyRecords'
    <3>1. \A i \in Slot : i < hdr'.used => i < hdr.used \/ i = hdr.off
      BY <2>1 DEF TypeOK, Advance, HistoryHeader, Slot
    <3> QED
      BY <2>1, <3>1
  <2>5. \A u \in Task : u # t => pc[u] = "idle"
    OBVIOUS
  <2> QED
    BY <2>1, <2>2, <2>3, <2>4, <2>5 DEF TypeOK
<1>8. ASSUME NEW t \in Task, ExportBegin(t) PROVE IInv'
  BY <1>8 DEF ExportBegin, Enter, ReadHeader, Readable, TypeOK, Step
<1>9. ASSUME NEW t \in Task, ExportRead(t) PROVE IInv'
  <2> USE <1>9 DEF ExportRead, Leave
  <2>1. copy[t] = hdr
    OBVIOUS
  <2>2. ReadHistory(copy[t], data) \in Seq(Record)
    BY <2>1, ReadsCovered DEF TypeOK
  <2>3. TypeOK'
    BY <2>2 DEF TypeOK, Step
  <2>4. \A u \in Task : u # t => pc[u] = "idle"
    OBVIOUS
  <2> QED
    BY <2>3, <2>4 DEF TypeOK
<1>10. ASSUME NEW t \in Task, FieldBegin(t) PROVE IInv'
  BY <1>10 DEF FieldBegin, Enter, ReadHeader, Readable, TypeOK, Step
<1>11. ASSUME NEW t \in Task, FieldRead(t) PROVE IInv'
  <2>1. \A u \in Task : u # t => pc[u] = "idle"
    BY <1>11 DEF FieldRead
  <2> QED
    BY <1>11, <2>1 DEF FieldRead, Leave, TypeOK, Step
<1>12. ASSUME NEW t \in Task, ClearBegin(t) PROVE IInv'
  BY <1>12 DEF ClearBegin, Enter, TypeOK, Step
<1>13. ASSUME NEW t \in Task, ClearTruncate(t) PROVE IInv'
  <2> USE <1>13 DEF ClearTruncate
  <2>1. TypeOK'
    BY DEF TypeOK, Step
  <2>2. \A u \in Task : u # t => pc[u] = "idle"
    OBVIOUS
  <2> QED
    BY <2>1, <2>2 DEF TypeOK, EmptyHeader, Slot
<1>14. ASSUME NEW t \in Task, ClearHeader(t) PROVE IInv'
  <2> USE <1>14 DEF ClearHeader, Leave
  <2>1. TypeOK'
    BY DEF TypeOK, Step
  <2>2. \A u \in Task : u # t => pc[u] = "idle"
    OBVIOUS
  <2> QED
    BY <2>1, <2>2 DEF TypeOK, EmptyHeader, Slot
<1>15. ASSUME NEW t \in Task, Fail(t) PROVE IInv'
  <2>1. \A u \in Task : u # t => pc[u] = "idle"
    BY <1>15 DEF Fail
  <2> QED
    BY <1>15, <2>1 DEF Fail, Leave, TypeOK, Step
<1>16. CASE Crash
  <2> USE <1>16 DEF Crash
  <2>1. TypeOK'
    BY DEF TypeOK, Step
  <2> QED
    BY <2>1 DEF TypeOK
<1>17. CASE UNCHANGED vars
  BY <1>17 DEF vars, TypeOK
<1> QED
  BY <1>1, <1>2, <1>3, <1>4, <1>5, <1>6, <1>7, <1>8, <1>9, <1>10, <1>11,
     <1>12, <1>13, <1>14, <1>15, <1>16, <1>17
     DEF Next, BootStep, AppendStep, ExportStep, FieldStep, ClearStep, Task

THEOREM InductiveInvariant == Spec => []IInv
<1> QED
  BY InitIInv, StepIInv, PTL DEF Spec

(* Headers, slots, locals and answers always have their types: no offset   *)
(* leaves the data area, and every record an export returns is one.        *)
THEOREM TypeCorrect == Spec => []TypeOK
<1>1. IInv => TypeOK
  BY DEF IInv
<1> QED
  BY InductiveInvariant, <1>1, PTL

(* A ring that is not full starts at slot 0, across resets and errors.     *)
THEOREM HeaderIsWellShaped == Spec => []HeaderShape
<1>1. IInv => HeaderShape
  BY DEF IInv
<1> QED
  BY InductiveInvariant, <1>1, PTL

(* The header never covers a slot without a record in it, although append  *)
(* and clear write the file in two steps that a reset can part.            *)
THEOREM ExportsOnlyRecords == Spec => []CoversOnlyRecords
<1>1. IInv => CoversOnlyRecords
  BY DEF IInv
<1> QED
  BY InductiveInvariant, <1>1, PTL

(* A header read under the mutex is still current when it is used.         *)
THEOREM MutexProtectsCopy == Spec => []CopyIsCurrent
<1>1. IInv => CopyIsCurrent
  BY DEF IInv
<1> QED
  BY InductiveInvariant, <1>1, PTL

-----------------------------------------------------------------------------
(* The ring implements the log.                                            *)

(* Position i of what is read comes from the i-th slot after the oldest.   *)
LEMMA ReadAt ==
  ASSUME NEW h \in HistoryHeader, NEW d, NEW i \in 1 .. h.used
  PROVE  ReadHistory(h, d)[i] = d[SlotOf(h, i - 1)]
BY DEF ReadHistory, SlotOf, Oldest, HistoryHeader, Slot

(* Adding a record behind the others in a ring with room. *)
LEMMA GrowIsAppend ==
  ASSUME NEW h \in HistoryHeader, h.off = h.used, h.used < MaxRecords,
         NEW d \in [Slot -> Record \cup {Blank}],
         \A i \in Slot : i < h.used => d[i] # Blank,
         d[h.off] \in Record
  PROVE  ReadHistory(Advance(h), d) = Append(ReadHistory(h, d), d[h.off])
<1> DEFINE old == ReadHistory(h, d)
           new == ReadHistory(Advance(h), d)
<1>1. old \in Seq(Record) /\ Len(old) = h.used
  BY ReadsCovered DEF HistoryAssumption
<1>2. /\ Advance(h) \in HistoryHeader
      /\ Advance(h).used = h.used + 1
      /\ Oldest(Advance(h)) = 0 /\ Oldest(h) = 0
  BY AdvanceShape DEF Advance, Oldest, HistoryHeader, Slot
<1>3. \A i \in Slot : i < Advance(h).used => d[i] # Blank
  BY <1>2 DEF HistoryHeader, Slot
<1>4. new \in Seq(Record) /\ Len(new) = h.used + 1
  BY <1>2, <1>3, ReadsCovered
<1>5. /\ Append(old, d[h.off]) \in Seq(Record)
      /\ Len(Append(old, d[h.off])) = h.used + 1
      /\ \A i \in 1 .. h.used : Append(old, d[h.off])[i] = old[i]
      /\ Append(old, d[h.off])[h.used + 1] = d[h.off]
  BY <1>1, AppendProperties
<1>6. h.used \in Nat /\ h.used <= MaxRecords
  BY DEF HistoryHeader
<1>7. \A i \in 1 .. h.used : new[i] = d[i - 1] /\ old[i] = d[i - 1]
  <2> TAKE i \in 1 .. h.used
  <2>1. SlotOf(h, i - 1) = i - 1 /\ SlotOf(Advance(h), i - 1) = i - 1
    BY <1>2, <1>6 DEF SlotOf
  <2> QED
    BY <1>2, <1>6, <2>1, ReadAt
<1>8. new[h.used + 1] = d[h.used]
  <2>1. SlotOf(Advance(h), h.used) = h.used
    BY <1>2, <1>6 DEF SlotOf
  <2> QED
    BY <1>2, <1>6, <2>1, ReadAt
<1> HIDE DEF old, new
<1>9. \A i \in 1 .. Len(new) : new[i] = Append(old, d[h.off])[i]
  BY <1>4, <1>5, <1>6, <1>7, <1>8
<1>10. new = Append(old, d[h.off])
  BY <1>4, <1>5, <1>9, SeqEqual
<1> QED
  BY <1>10 DEF old, new

(* Moving the header over the overwritten oldest slot of a full ring makes *)
(* the record in it the youngest one.                                      *)
LEMMA TurnIsRotate ==
  ASSUME NEW h \in HistoryHeader, h.used = MaxRecords,
         NEW d \in [Slot -> Record \cup {Blank}],
         \A i \in Slot : d[i] # Blank
  PROVE  ReadHistory(Advance(h), d) = Append(Tail(ReadHistory(h, d)), d[h.off])
<1> DEFINE old == ReadHistory(h, d)
           new == ReadHistory(Advance(h), d)
           t == Tail(old)
<1>1. old \in Seq(Record) /\ Len(old) = MaxRecords
  BY ReadsCovered
<1>2. /\ Advance(h) \in HistoryHeader
      /\ Advance(h).used = MaxRecords
      /\ Oldest(Advance(h)) = Advance(h).off /\ Oldest(h) = h.off
      /\ h.off \in Slot /\ d[h.off] \in Record
      /\ Advance(h).off = IF h.off + 1 >= MaxRecords THEN 0 ELSE h.off + 1
  BY AdvanceShape DEF Advance, Oldest, HistoryHeader, Slot
<1>3. new \in Seq(Record) /\ Len(new) = MaxRecords
  BY <1>2, ReadsCovered
<1>4. old # <<>>
  BY <1>1, EmptySeq
<1>5. /\ t \in Seq(Record) /\ Len(t) = MaxRecords - 1
      /\ \A i \in 1 .. MaxRecords - 1 : t[i] = old[i + 1]
  BY <1>1, <1>4, HeadTailProperties
<1>6. /\ Append(t, d[h.off]) \in Seq(Record)
      /\ Len(Append(t, d[h.off])) = MaxRecords
      /\ \A i \in 1 .. MaxRecords - 1 : Append(t, d[h.off])[i] = t[i]
      /\ Append(t, d[h.off])[MaxRecords] = d[h.off]
  BY <1>2, <1>5, AppendProperties
<1>7. \A i \in 1 .. MaxRecords - 1 : new[i] = old[i + 1]
  <2> TAKE i \in 1 .. MaxRecords - 1
  <2>1. SlotOf(Advance(h), i - 1) = SlotOf(h, i)
    BY <1>2 DEF SlotOf, Slot
  <2> QED
    BY <1>2, <2>1, ReadAt
<1>8. new[MaxRecords] = d[h.off]
  <2>1. SlotOf(Advance(h), MaxRecords - 1) = h.off
    BY <1>2 DEF SlotOf, Slot
  <2> QED
    BY <1>2, <2>1, ReadAt
<1> HIDE DEF old, new, t
<1>9. \A i \in 1 .. Len(new) : new[i] = Append(t, d[h.off])[i]
  BY <1>3, <1>5, <1>6, <1>7, <1>8
<1>10. new = Append(t, d[h.off])
  BY <1>3, <1>6, <1>9, SeqEqual
<1> QED
  BY <1>10 DEF old, new, t

(* Overwriting the oldest slot of a full ring leaves the others alone. *)
LEMMA OverwriteKeepsTail ==
  ASSUME NEW h \in HistoryHeader, h.used = MaxRecords,
         NEW d \in [Slot -> Record \cup {Blank}],
         \A i \in Slot : d[i] # Blank,
         NEW r \in Record
  PROVE  LET old == ReadHistory(h, d)
             new == ReadHistory(h, [d EXCEPT ![h.off] = r])
         IN  /\ Tail(new) = Tail(old)
             /\ new = <<r>> \o Tail(old)
<1> DEFINE e == [d EXCEPT ![h.off] = r]
           old == ReadHistory(h, d)
           new == ReadHistory(h, e)
<1>1. e \in [Slot -> Record \cup {Blank}] /\ \A i \in Slot : e[i] # Blank
  BY DEF HistoryHeader
<1>2. h.off \in Slot /\ Oldest(h) = h.off
  BY DEF HistoryHeader, Oldest
<1>3. /\ old \in Seq(Record) /\ Len(old) = MaxRecords
      /\ new \in Seq(Record) /\ Len(new) = MaxRecords
  BY <1>1, ReadsCovered
<1>4. \A i \in 2 .. MaxRecords : new[i] = old[i]
  <2> TAKE i \in 2 .. MaxRecords
  <2>1. SlotOf(h, i - 1) \in Slot /\ SlotOf(h, i - 1) # h.off
    BY <1>2 DEF SlotOf, Slot
  <2>2. e[SlotOf(h, i - 1)] = d[SlotOf(h, i - 1)]
    BY <2>1
  <2>3. i \in 1 .. h.used
    OBVIOUS
  <2> QED
    BY <2>2, <2>3, ReadAt
<1>5. new[1] = r
  <2>1. SlotOf(h, 0) = h.off
    BY <1>2 DEF SlotOf, Slot
  <2>2. 1 \in 1 .. h.used /\ 1 - 1 = 0
    OBVIOUS
  <2>3. \A i \in 1 .. h.used : new[i] = e[SlotOf(h, i - 1)]
    BY ReadAt
  <2>4. e[h.off] = r
    BY <1>2
  <2> HIDE DEF new, e
  <2>5. new[1] = e[SlotOf(h, 0)]
    BY <2>2, <2>3
  <2> QED
    BY <2>1, <2>4, <2>5
<1> HIDE DEF old, new
<1>6. old # <<>> /\ new # <<>>
  BY <1>3, EmptySeq
<1>7. /\ Tail(old) \in Seq(Record) /\ Len(Tail(old)) = MaxRecords - 1
      /\ Tail(new) \in Seq(Record) /\ Len(Tail(new)) = MaxRecords - 1
      /\ \A i \in 1 .. MaxRecords - 1 : Tail(old)[i] = old[i + 1]
      /\ \A i \in 1 .. MaxRecords - 1 : Tail(new)[i] = new[i + 1]
  BY <1>3, <1>6, HeadTailProperties
<1>8. Tail(new) = Tail(old)
  <2>1. \A i \in 1 .. Len(Tail(new)) : Tail(new)[i] = Tail(old)[i]
    BY <1>4, <1>7
  <2> QED
    BY <1>7, <2>1, SeqEqual
<1>9. new = <<r>> \o Tail(new)
  <2> DEFINE glued == <<r>> \o Tail(new)
  <2>1. <<r>> \in Seq(Record) /\ Len(<<r>>) = 1 /\ <<r>>[1] = r
    OBVIOUS
  <2>2. /\ glued \in Seq(Record) /\ Len(glued) = MaxRecords
        /\ \A i \in 1 .. MaxRecords :
             glued[i] = IF i <= 1 THEN <<r>>[i] ELSE Tail(new)[i - 1]
    BY <1>7, <2>1, ConcatProperties
  <2> HIDE DEF glued
  <2>3. \A i \in 1 .. MaxRecords : new[i] = glued[i]
    BY <1>5, <1>7, <2>1, <2>2
  <2>4. new = glued
    BY <1>3, <2>2, <2>3, SeqEqual
  <2> QED
    BY <2>4 DEF glued
<1> QED
  BY <1>8, <1>9 DEF old, new, e

-----------------------------------------------------------------------------
(* Every step of the ring is a step of the log, or no step of it. *)

(* While nobody is between the two writes of an append to a full ring, the *)
(* log is what the header covers.                                          *)
LEMMA QuietMapping ==
  ASSUME \A t \in Task : pc[t] # "header"
  PROVE  LogOfFile = Contents /\ PendingOfFile = Blank
BY DEF LogOfFile, PendingOfFile, Overwriting

LEMMA ContentsType ==
  ASSUME IInv
  PROVE  Contents \in Seq(Record) /\ Len(Contents) = hdr.used
BY ReadsCovered DEF IInv, TypeOK, CoversOnlyRecords, Contents

LEMMA InitRefines == Init => Log!LogInit
<1> SUFFICES ASSUME Init PROVE Log!LogInit
  OBVIOUS
<1>1. LogOfFile = Contents /\ PendingOfFile = Blank
  BY QuietMapping DEF Init
<1>2. Len(Contents) = 0 /\ Contents \in Seq(Record)
  BY InitIInv, ContentsType DEF Init, EmptyHeader
<1>3. Contents = <<>>
  BY <1>2, EmptySeq
<1> QED
  BY <1>1, <1>3 DEF Init, Log!LogInit

(* A step that leaves the file, the header copies and the answers alone    *)
(* and neither enters nor leaves the window of an overwrite.               *)
LEMMA SameLog ==
  ASSUME UNCHANGED <<hdr, data, out>>, Overwriting' <=> Overwriting
  PROVE  UNCHANGED <<LogOfFile, PendingOfFile, out>>
BY DEF LogOfFile, PendingOfFile, Contents

(* What is known of the file between two steps. *)
LEMMA FileFacts ==
  ASSUME IInv
  PROVE  /\ TypeOK /\ HeaderShape /\ CoversOnlyRecords /\ CopyIsCurrent /\ RecordInHand
         /\ Contents \in Seq(Record) /\ Len(Contents) = hdr.used
         /\ \A t \in Task : pc[t] # "idle" => \A u \in Task : u # t => pc[u] = "idle"
         /\ ~Overwriting => LogOfFile = Contents /\ PendingOfFile = Blank
         /\ hdr.used = MaxRecords => \A i \in Slot : data[i] # Blank
         /\ \A t \in Task : pc[t] = "header" =>
              /\ copy[t] = hdr /\ mutex = t /\ rec[t] \in Record
              /\ hdr.off \in Slot /\ data[hdr.off] = rec[t]
              /\ Overwriting <=> hdr.used = MaxRecords
<1>1. TypeOK /\ HeaderShape /\ CoversOnlyRecords /\ CopyIsCurrent /\ RecordInHand
  BY DEF IInv
<1>2. Contents \in Seq(Record) /\ Len(Contents) = hdr.used
  BY ContentsType
<1>3. \A t \in Task : pc[t] # "idle" => \A u \in Task : u # t => pc[u] = "idle"
  BY <1>1 DEF CopyIsCurrent
<1>4. ~Overwriting => LogOfFile = Contents /\ PendingOfFile = Blank
  BY DEF LogOfFile, PendingOfFile
<1>5. hdr.used = MaxRecords => \A i \in Slot : data[i] # Blank
  BY <1>1 DEF CoversOnlyRecords, Slot, TypeOK, HistoryHeader
<1>6. ASSUME NEW t \in Task, pc[t] = "header"
      PROVE  /\ copy[t] = hdr /\ mutex = t /\ rec[t] \in Record
             /\ hdr.off \in Slot /\ data[hdr.off] = rec[t]
             /\ Overwriting <=> hdr.used = MaxRecords
  BY <1>1, <1>3, <1>6 DEF CopyIsCurrent, RecordInHand, TypeOK, HistoryHeader, Overwriting
<1> QED
  BY <1>1, <1>2, <1>3, <1>4, <1>5, <1>6

(* And of the file after a step that ends outside an overwrite. *)
LEMMA FileAfter ==
  ASSUME IInv'
  PROVE  /\ TypeOK'
         /\ Contents' \in Seq(Record) /\ Len(Contents') = hdr'.used
         /\ ~Overwriting' => LogOfFile' = Contents' /\ PendingOfFile' = Blank
<1>1. ~Overwriting' => LogOfFile' = Contents' /\ PendingOfFile' = Blank
  BY DEF LogOfFile, PendingOfFile
<1>2. Contents' \in Seq(Record) /\ Len(Contents') = hdr'.used
  BY ReadsCovered DEF IInv, TypeOK, CoversOnlyRecords, Contents
<1> QED
  BY <1>1, <1>2 DEF IInv

LEMMA SameOutsideHeader ==
  ASSUME UNCHANGED <<hdr, data, out>>,
         \A t \in Task : pc[t] # "header" /\ pc'[t] # "header"
  PROVE  UNCHANGED Log!logVars
BY SameLog DEF Overwriting, Log!logVars

(* What a fault leaves behind: nothing, or the pending record in front. *)
LEMMA LogOfFault ==
  ASSUME IInv, IInv', UNCHANGED <<hdr, data, out>>,
         \A t \in Task : pc'[t] # "header", Faults
  PROVE  Log!Misplace \/ UNCHANGED Log!logVars
<1>1. CASE \A t \in Task : pc[t] # "header"
  BY <1>1, SameOutsideHeader
<1>2. ASSUME NEW t \in Task, pc[t] = "header"
      PROVE  Log!Misplace \/ UNCHANGED Log!logVars
  <2>1. CASE hdr.used = MaxRecords
    <3>1. LogOfFile = Tail(Contents) /\ PendingOfFile = data[hdr.off]
      BY FileFacts, <1>2, <2>1 DEF LogOfFile, PendingOfFile
    <3>2. LogOfFile' = Contents /\ PendingOfFile' = Blank
      BY FileAfter DEF Overwriting, Contents
    <3>3. Contents = <<data[hdr.off]>> \o Tail(Contents)
      <4>1. hdr.off \in Slot /\ data[hdr.off] \in Record
        BY FileFacts, <1>2
      <4>2. [data EXCEPT ![hdr.off] = data[hdr.off]] = data
        BY FileFacts, <4>1 DEF TypeOK
      <4>3. ReadHistory(hdr, [data EXCEPT ![hdr.off] = data[hdr.off]])
              = <<data[hdr.off]>> \o Tail(ReadHistory(hdr, data))
        BY FileFacts, <2>1, <4>1, OverwriteKeepsTail DEF TypeOK
      <4> QED
        BY <4>2, <4>3 DEF Contents
    <3>4. PendingOfFile # Blank
      BY FileFacts, <1>2, <3>1
    <3> QED
      BY <3>1, <3>2, <3>3, <3>4 DEF Log!Misplace
  <2>2. CASE hdr.used # MaxRecords
    <3>1. ~Overwriting /\ ~Overwriting'
      BY FileFacts, <1>2, <2>2 DEF Overwriting
    <3> QED
      BY <3>1, SameLog DEF Log!logVars
  <2> QED
    BY <2>1, <2>2
<1> QED
  BY <1>1, <1>2

(* Boot finds the file as it is, or makes an empty one.                    *)
LEMMA LogOfBoot ==
  ASSUME IInv, IInv', BootStep
  PROVE  Log!Erase \/ UNCHANGED Log!logVars
<1>1. \A t \in Task : pc[t] = "idle" /\ pc'[t] = "idle"
  BY DEF BootStep, BootKeep, BootTruncate, BootCreate, BootFail, IInv, CallsAreAfterBoot
<1>2. ~Overwriting /\ ~Overwriting'
  BY <1>1 DEF Overwriting
<1>3. CASE BootTruncate
  <2>1. Contents' = <<>>
    BY FileAfter, EmptySeq, <1>3 DEF BootTruncate, EmptyHeader
  <2> QED
    BY FileFacts, FileAfter, <1>2, <1>3, <2>1 DEF BootTruncate, Log!Erase
<1>4. CASE BootKeep \/ BootCreate \/ BootFail
  <2>1. UNCHANGED <<hdr, data, out>>
    BY <1>4 DEF BootKeep, BootCreate, BootFail, IInv, CreatingIsTruncated,
       NoHeaderIsEmpty, flash
  <2> QED
    BY <1>2, <2>1, SameLog DEF Log!logVars
<1> QED
  BY <1>3, <1>4 DEF BootStep

(* The first write of an append: the oldest record goes, or nothing does. *)
LEMMA LogOfRecord ==
  ASSUME IInv, IInv', NEW t \in Task, AppendRecord(t)
  PROVE  Log!Overwrite(rec[t]) \/ UNCHANGED Log!logVars
<1> USE DEF AppendRecord
<1>1. /\ copy[t] = hdr /\ rec[t] \in Record /\ hdr.off \in Slot
      /\ hdr \in HistoryHeader
  BY FileFacts DEF CopyIsCurrent, RecordInHand, TypeOK, HistoryHeader
<1>2. ~Overwriting
  BY FileFacts DEF Overwriting
<1>3. pc'[t] = "header" /\ data' = [data EXCEPT ![hdr.off] = rec[t]]
  BY FileFacts, <1>1 DEF TypeOK
<1>4. Contents' = ReadHistory(hdr, data')
  BY DEF Contents
<1>5. CASE hdr.used = MaxRecords
  <2>1. Overwriting'
    BY <1>1, <1>3, <1>5 DEF Overwriting
  <2>2. Tail(Contents') = Tail(Contents)
    <3>1. data \in [Slot -> Record \cup {Blank}] /\ \A i \in Slot : data[i] # Blank
      BY FileFacts, <1>5 DEF TypeOK
    <3>2. Tail(ReadHistory(hdr, [data EXCEPT ![hdr.off] = rec[t]]))
            = Tail(ReadHistory(hdr, data))
      BY ONLY <1>1, <1>5, <3>1, OverwriteKeepsTail
    <3> QED
      BY <1>3, <1>4, <3>2 DEF Contents
  <2>3. data'[hdr.off] = rec[t]
    BY FileFacts, <1>1, <1>3 DEF TypeOK
  <2>4. /\ LogOfFile = Contents /\ PendingOfFile = Blank
        /\ LogOfFile' = Tail(Contents) /\ PendingOfFile' = rec[t]
    BY FileFacts, <1>2, <2>1, <2>2, <2>3 DEF LogOfFile, PendingOfFile
  <2> QED
    BY FileFacts, <1>5, <2>4 DEF Log!Overwrite
<1>6. CASE hdr.used # MaxRecords
  <2>1. ~Overwriting'
    BY FileFacts, <1>1, <1>3, <1>6 DEF Overwriting
  <2>2. Contents' = Contents
    <3>1. hdr.off = hdr.used /\ hdr.used < MaxRecords /\ hdr.used \in Nat
      BY FileFacts, <1>1, <1>6 DEF HeaderShape, HistoryHeader
    <3>2. \A i \in 1 .. hdr.used : data'[SlotOf(hdr, i - 1)] = data[SlotOf(hdr, i - 1)]
      BY FileFacts, <1>1, <1>3, <3>1 DEF SlotOf, Oldest, Slot, TypeOK
    <3>3. \A i \in 1 .. hdr.used : Contents'[i] = Contents[i]
      <4>1. \A i \in 1 .. hdr.used : Contents'[i] = data'[SlotOf(hdr, i - 1)]
        BY ONLY <1>1, <1>4, ReadAt
      <4>2. \A i \in 1 .. hdr.used : Contents[i] = data[SlotOf(hdr, i - 1)]
        BY ONLY <1>1, ReadAt DEF Contents
      <4> QED
        BY <3>2, <4>1, <4>2
    <3> QED
      BY FileFacts, FileAfter, <3>3, SeqEqual
  <2> QED
    BY FileFacts, FileAfter, <1>2, <2>1, <2>2 DEF Log!logVars
<1> QED
  BY <1>5, <1>6

(* The second one: the record is added at the young end. *)
LEMMA LogOfHeader ==
  ASSUME IInv, IInv', NEW t \in Task, AppendHeader(t)
  PROVE  /\ rec[t] \in Record
         /\ Log!Push(rec[t]) \/ (Log!Settle /\ PendingOfFile = rec[t])
<1> USE DEF AppendHeader, Leave
<1>1. /\ hdr' = Advance(hdr) /\ hdr \in HistoryHeader
      /\ data[hdr.off] \in Record /\ hdr.off \in Slot /\ data[hdr.off] = rec[t]
  BY FileFacts DEF TypeOK
<1>2. data[hdr.off] # Blank
  BY <1>1
<1>3. ~Overwriting'
  BY FileFacts DEF Overwriting, TypeOK
<1>4. LogOfFile' = ReadHistory(Advance(hdr), data) /\ PendingOfFile' = Blank
  BY FileAfter, <1>1, <1>3 DEF Contents
<1>5. CASE hdr.used = MaxRecords
  <2>1. LogOfFile = Tail(Contents) /\ PendingOfFile = data[hdr.off]
    BY FileFacts, <1>5 DEF LogOfFile, PendingOfFile
  <2>2. LogOfFile' = Append(Tail(Contents), data[hdr.off])
    BY FileFacts, <1>1, <1>4, <1>5, TurnIsRotate DEF TypeOK, Contents
  <2> QED
    BY <1>1, <1>2, <1>4, <2>1, <2>2 DEF Log!Settle
<1>6. CASE hdr.used # MaxRecords
  <2>1. hdr.off = hdr.used /\ hdr.used < MaxRecords
    BY FileFacts, <1>1, <1>6 DEF HeaderShape, HistoryHeader
  <2>2. LogOfFile = Contents /\ PendingOfFile = Blank
    BY FileFacts, <1>6
  <2>3. LogOfFile' = Append(Contents, data[hdr.off])
    BY FileFacts, <1>1, <1>4, <2>1, GrowIsAppend DEF TypeOK, CoversOnlyRecords, Contents
  <2> QED
    BY FileFacts, <1>1, <1>4, <2>1, <2>2, <2>3 DEF Log!Push
<1> QED
  BY <1>5, <1>6

(* Taking the mutex, and giving it back after a read or a clear. *)
LEMMA LogOfQuiet ==
  ASSUME IInv, IInv', NEW t \in Task,
         \/ \E r \in Record : AppendBegin(t, r)
         \/ ExportBegin(t) \/ FieldBegin(t) \/ ClearBegin(t)
         \/ FieldRead(t) \/ ClearHeader(t)
  PROVE  UNCHANGED Log!logVars
<1>1. ASSUME \/ \E r \in Record : AppendBegin(t, r)
             \/ ExportBegin(t) \/ FieldBegin(t) \/ ClearBegin(t)
      PROVE  UNCHANGED Log!logVars
  <2>1. \A u \in Task : pc[u] # "header" /\ pc'[u] # "header"
    BY <1>1, FileFacts DEF AppendBegin, ExportBegin, FieldBegin, ClearBegin, Enter,
       CopyIsCurrent, TypeOK
  <2> QED
    BY <1>1, <2>1, SameOutsideHeader DEF AppendBegin, ExportBegin, FieldBegin,
       ClearBegin, flash
<1>2. CASE FieldRead(t)
  <2>1. \A u \in Task : pc[u] # "header" /\ pc'[u] # "header"
    BY <1>2, FileFacts DEF FieldRead, Leave, TypeOK
  <2> QED
    BY <1>2, <2>1, SameOutsideHeader DEF FieldRead, flash
<1>3. CASE ClearHeader(t)
  <2>1. \A u \in Task : pc[u] # "header" /\ pc'[u] # "header"
    BY <1>3, FileFacts DEF ClearHeader, Leave, TypeOK
  <2>2. hdr = EmptyHeader
    BY <1>3 DEF ClearHeader, IInv, ClearingIsTruncated, NoHeaderIsEmpty
  <2> QED
    BY <1>3, <2>1, <2>2, SameOutsideHeader DEF ClearHeader
<1> QED
  BY <1>1, <1>2, <1>3

LEMMA LogOfExport ==
  ASSUME IInv, IInv', NEW t \in Task, ExportRead(t)
  PROVE  Log!Export(t)
<1>1. \A u \in Task : pc[u] # "header" /\ pc'[u] # "header"
  BY FileFacts DEF ExportRead, Leave, TypeOK
<1>2. ~Overwriting /\ ~Overwriting'
  BY <1>1 DEF Overwriting
<1>3. /\ LogOfFile = Contents /\ LogOfFile' = Contents
      /\ PendingOfFile = Blank /\ PendingOfFile' = Blank
  BY FileFacts, FileAfter, <1>2 DEF ExportRead, Contents, flash
<1>4. out' = [out EXCEPT ![t] = Contents]
  BY FileFacts DEF ExportRead, CopyIsCurrent, Contents
<1> QED
  BY <1>3, <1>4 DEF Log!Export

LEMMA LogOfClear ==
  ASSUME IInv, IInv', NEW t \in Task, ClearTruncate(t)
  PROVE  Log!Erase
<1>1. \A u \in Task : pc[u] # "header" /\ pc'[u] # "header"
  BY FileFacts DEF ClearTruncate, TypeOK
<1>2. ~Overwriting /\ ~Overwriting'
  BY <1>1 DEF Overwriting
<1>3. Contents' = <<>>
  BY FileAfter, EmptySeq DEF ClearTruncate, EmptyHeader
<1> QED
  BY FileFacts, FileAfter, <1>2, <1>3 DEF ClearTruncate, Log!Erase

LEMMA LogOfFail ==
  ASSUME IInv, IInv', NEW t \in Task, Fail(t)
  PROVE  Log!Misplace \/ UNCHANGED Log!logVars
<1>1. \A u \in Task : pc'[u] # "header"
  BY FileFacts DEF Fail, Leave, TypeOK
<1> QED
  BY <1>1, LogOfFault DEF Fail, flash

LEMMA LogOfCrash ==
  ASSUME IInv, IInv', Crash
  PROVE  Log!Misplace \/ UNCHANGED Log!logVars
BY LogOfFault DEF Crash, flash

LEMMA StepRefines == IInv /\ IInv' /\ [Next]_vars => [Log!LogNext]_Log!logVars
<1> SUFFICES ASSUME IInv, IInv', [Next]_vars
             PROVE  [Log!LogNext]_Log!logVars
  OBVIOUS
<1>1. CASE BootStep
  BY <1>1, LogOfBoot DEF Log!LogNext
<1>2. ASSUME NEW t \in Task, AppendStep(t) \/ ExportStep(t) \/ FieldStep(t) \/ ClearStep(t)
      PROVE  [Log!LogNext]_Log!logVars
  <2>1. CASE AppendRecord(t)
    BY <2>1, LogOfRecord, FileFacts DEF AppendRecord, RecordInHand, Log!LogNext
  <2>2. CASE AppendHeader(t)
    BY <2>2, LogOfHeader DEF Log!LogNext
  <2>3. CASE ExportRead(t)
    BY <2>3, LogOfExport DEF Log!LogNext
  <2>4. CASE ClearTruncate(t)
    BY <2>4, LogOfClear DEF Log!LogNext
  <2> QED
    BY <1>2, <2>1, <2>2, <2>3, <2>4, LogOfQuiet
       DEF AppendStep, ExportStep, FieldStep, ClearStep
<1>3. ASSUME NEW t \in Task, Fail(t) PROVE [Log!LogNext]_Log!logVars
  BY <1>3, LogOfFail DEF Log!LogNext
<1>4. CASE Crash
  BY <1>4, LogOfCrash DEF Log!LogNext
<1>5. CASE UNCHANGED vars
  <2>1. Overwriting' <=> Overwriting
    BY <1>5 DEF vars, Overwriting
  <2> QED
    BY <1>5, <2>1, SameLog DEF vars, Log!logVars
<1> QED
  BY <1>1, <1>2, <1>3, <1>4, <1>5 DEF Next, Task

(* bike_history.c implements a bounded log: exports return the last        *)
(* MaxRecords records in order, and a fault costs at most the order of one *)
(* record.                                                                 *)
THEOREM RingImplementsLog == Spec => ImplementsLog
<1> QED
  BY InitRefines, InductiveInvariant, StepRefines, PTL
     DEF Spec, ImplementsLog, Log!LogSpec

-----------------------------------------------------------------------------
(* The field query.                                                        *)

(* Induction over the numbers, as a statement about sets.                  *)
LEMMA LessIsWellFounded ==
  IsWellFoundedOn({ss \in Nat \X Nat : ss[1] < ss[2]}, Nat)
BY NatLessThanWellFounded DEF OpToRel

LEMMA SetInduction ==
  ASSUME NEW S, 0 \in S, \A n \in Nat : n \in S => n + 1 \in S
  PROVE  Nat \subseteq S
<1> DEFINE R == {ss \in Nat \X Nat : ss[1] < ss[2]}
           T == Nat \ S
<1>1. SUFFICES ASSUME T # {} PROVE FALSE
  OBVIOUS
<1>2. IsWellFoundedOn(R, Nat)
  BY LessIsWellFounded
<1>3. T \subseteq Nat
  OBVIOUS
<1> HIDE DEF R, T
<1>4. PICK x \in T : \A y \in T : ~ (<<y, x>> \in R)
  BY <1>1, <1>2, <1>3, WFMin
<1> USE DEF R, T
<1>5. x # 0 /\ x - 1 \in Nat
  OBVIOUS
<1>6. x - 1 \in T
  BY <1>5
<1>7. <<x - 1, x>> \in R
  BY <1>5
<1> QED BY <1>4, <1>6, <1>7

(* A ring of n points: two numbers less than n apart have different slots. *)
LEMMA Division ==
  ASSUME NEW n \in Nat \ {0}, NEW a \in Nat
  PROVE  /\ a \div n \in Int
         /\ a % n \in 0 .. n - 1
         /\ a = (n * (a \div n)) + (a % n)
OBVIOUS

LEMMA SmallMultiple ==
  ASSUME NEW n \in Nat \ {0}, NEW c \in Int, NEW x \in Int,
         x = n * c, x < n, - n < x
  PROVE  x = 0
<1>1. CASE c <= -1
  <2>1. n * c <= n * (-1)
    BY <1>1
  <2> QED BY <2>1
<1>2. CASE c >= 1
  <2>1. n * c >= n * 1
    BY <1>2
  <2> QED BY <2>1
<1>3. CASE c = 0
  BY <1>3
<1> QED BY <1>1, <1>2, <1>3

LEMMA OtherSlot ==
  ASSUME NEW n \in Nat \ {0}, NEW a \in Nat, NEW b \in Nat, a < b, b - a < n
  PROVE  a % n # b % n
<1>1. SUFFICES ASSUME a % n = b % n PROVE FALSE
  OBVIOUS
<1> DEFINE p == a \div n
           q == b \div n
<1>2. p \in Int /\ q \in Int
  BY Division
<1>3. a = (n * p) + (a % n) /\ b = (n * q) + (b % n)
  BY Division
<1>4. a % n \in Int
  BY Division
<1> HIDE DEF p, q
<1>5. b - a = n * (q - p)
  BY <1>1, <1>2, <1>3, <1>4
<1>6. b - a = 0
  BY <1>2, <1>5, SmallMultiple
<1> QED BY <1>6

LEMMA Rotated ==
  ASSUME NEW n \in Nat \ {0}, NEW a \in Nat, NEW k \in 0 .. n - 1, a >= n
  PROVE  ((a % n) + (n - k) - 1) % n = (a - k - 1) % n
<1> DEFINE x == a - k - 1
           y == (a % n) + (n - k) - 1
           p == a \div n
           q == x \div n
           r == y \div n
<1>1. p \in Int /\ a = (n * p) + (a % n) /\ a % n \in 0 .. n - 1
  BY Division
<1>2. x \in Nat /\ y \in Nat
  BY <1>1
<1>3. q \in Int /\ x = (n * q) + (x % n) /\ x % n \in 0 .. n - 1
  BY <1>2, Division
<1>4. r \in Int /\ y = (n * r) + (y % n) /\ y % n \in 0 .. n - 1
  BY <1>2, Division
<1>5. y - x = n * (1 - p)
  BY <1>1
<1> HIDE DEF x, y, p, q, r
<1> DEFINE c == (1 - p) - r + q
           z == (y % n) - (x % n)
<1>6. z = n * c
  <2>3. n * r \in Int /\ n * q \in Int
    BY <1>3, <1>4
  <2>4. y % n = y - (n * r)
    BY ONLY <1>2, <1>4, <2>3
  <2>5. x % n = x - (n * q)
    BY ONLY <1>2, <1>3, <2>3
  <2>1. z = (y - (n * r)) - (x - (n * q))
    BY <2>4, <2>5
  <2>2. n * c = (n * (1 - p)) - (n * r) + (n * q)
    BY <1>1, <1>3, <1>4
  <2> QED BY <1>1, <1>2, <1>3, <1>4, <1>5, <2>1, <2>2
<1>7. c \in Int /\ z \in Int /\ z < n /\ - n < z
  BY <1>1, <1>3, <1>4
<1> HIDE DEF c
<1>a. z = 0
  BY <1>6, <1>7, SmallMultiple
<1>8. y % n = x % n
  BY <1>3, <1>4, <1>a
<1> QED BY <1>8 DEF x, y


(* What bike_history_field_json has collected after i records.             *)
Collecting(h, d, f, after) ==
  after = [i \in 0 .. h.used |->
    IF i = 0
      THEN [total |-> 0, points |-> [s \in 0 .. MaxPoints - 1 |-> Blank]]
      ELSE LET r   == d[SlotOf(h, i - 1)]
               acc == after[i - 1]
           IN  IF FieldOf[r] # f
                 THEN acc
                 ELSE [total  |-> acc.total + 1,
                       points |-> [acc.points EXCEPT
                                     ![acc.total % MaxPoints] = r]]]

LEMMA CollectRuns ==
  ASSUME NEW h, h.used \in Nat, NEW d, NEW f
  PROVE  \E after : /\ Collecting(h, d, f, after)
                    /\ Collect(h, d, f) = after[h.used]
<1> DEFINE start == [total |-> 0, points |-> [s \in 0 .. MaxPoints - 1 |-> Blank]]
           V(acc, i) == LET r == d[SlotOf(h, i - 1)]
                        IN  IF FieldOf[r] # f
                             THEN acc
                             ELSE [total  |-> acc.total + 1,
                                   points |-> [acc.points EXCEPT
                                                 ![acc.total % MaxPoints] = r]]
           Runs(n, F) == F = [i \in 0 .. n |-> IF i = 0 THEN start ELSE V(F[i - 1], i)]
           S == {n \in Nat : \E F : Runs(n, F)}
<1> HIDE DEF start, V
<1>1. 0 \in S
  <2>1. Runs(0, [i \in 0 .. 0 |-> start])
    OBVIOUS
  <2> QED BY <2>1
<1>2. ASSUME NEW n \in Nat, n \in S PROVE n + 1 \in S
  <2>1. PICK run : Runs(n, run)
    BY <1>2
  <2> DEFINE G == [i \in 0 .. n + 1 |-> IF i = n + 1 THEN V(run[n], n + 1) ELSE run[i]]
  <2>2. \A i \in 0 .. n + 1 : G[i] = IF i = 0 THEN start ELSE V(G[i - 1], i)
    BY <2>1
  <2>3. Runs(n + 1, G)
    BY <2>2
  <2>4. \E F : Runs(n + 1, F)
    <3> HIDE DEF G, Runs
    <3> QED BY <2>3
  <2> QED BY <2>4
<1>3. Nat \subseteq S
  <2> HIDE DEF S
  <2> QED BY <1>1, <1>2, SetInduction
<1>4. \E F : Runs(h.used, F)
  BY <1>3
<1> DEFINE after[i \in 0 .. h.used] ==
        IF i = 0
          THEN [total |-> 0, points |-> [s \in 0 .. MaxPoints - 1 |-> Blank]]
          ELSE LET r   == d[SlotOf(h, i - 1)]
                   acc == after[i - 1]
               IN  IF FieldOf[r] # f
                     THEN acc
                     ELSE [total  |-> acc.total + 1,
                           points |-> [acc.points EXCEPT
                                         ![acc.total % MaxPoints] = r]]
<1>5. Collect(h, d, f) = after[h.used]
  BY DEF Collect
<1>6. Runs(h.used, after)
  BY <1>4 DEF start, V
<1>7. Collecting(h, d, f, after)
  BY <1>6 DEF start, V, Collecting
<1> QED BY <1>5, <1>7

(* How many of the first i places hold the field.                          *)
Upto(C, i) == Cardinality(C \cap 1 .. i)

LEMMA CountUp ==
  ASSUME NEW C, NEW n \in Nat
  PROVE  /\ Upto(C, n) \in Nat
         /\ n + 1 \notin C => Upto(C, n + 1) = Upto(C, n)
         /\ n + 1 \in C => Upto(C, n + 1) = Upto(C, n) + 1
         /\ \A j \in 1 .. n : /\ Upto(C, j) \in Nat
                              /\ Upto(C, j) <= Upto(C, n)
                              /\ j \in C => Upto(C, j) > 0
<1> DEFINE M(i) == C \cap 1 .. i
<1>1. \A i \in Nat : IsFiniteSet(M(i)) /\ Cardinality(M(i)) \in Nat
  <2> TAKE i \in Nat
  <2>1. IsFiniteSet(1 .. i)
    BY FS_Interval
  <2> QED BY <2>1, FS_Subset, FS_CardinalityType
<1>2. ASSUME n + 1 \in C PROVE Cardinality(M(n + 1)) = Cardinality(M(n)) + 1
  <2>1. M(n + 1) = M(n) \cup {n + 1} /\ n + 1 \notin M(n)
    BY <1>2
  <2> QED BY <1>1, <2>1, FS_AddElement
<1>3. ASSUME n + 1 \notin C PROVE M(n + 1) = M(n)
  BY <1>3
<1>4. ASSUME NEW j \in 1 .. n
      PROVE  Cardinality(M(j)) <= Cardinality(M(n)) /\ (j \in C => Cardinality(M(j)) > 0)
  <2>1. M(j) \subseteq M(n)
    OBVIOUS
  <2>2. j \in C => j \in M(j)
    OBVIOUS
  <2>3. IsFiniteSet(M(j)) /\ IsFiniteSet(M(n)) /\ Cardinality(M(j)) \in Nat
    BY <1>1
  <2> HIDE DEF M
  <2>4. j \in C => Cardinality(M(j)) # 0
    BY <2>2, <2>3, FS_EmptySet
  <2> QED BY <2>1, <2>3, <2>4, FS_Subset
<1>5. \A i : Upto(C, i) = Cardinality(M(i))
  BY DEF Upto
<1> HIDE DEF M
<1>6. Upto(C, n) \in Nat
  BY <1>1, <1>5
<1>7. n + 1 \notin C => Upto(C, n + 1) = Upto(C, n)
  BY <1>3, <1>5
<1>8. n + 1 \in C => Upto(C, n + 1) = Upto(C, n) + 1
  BY <1>2, <1>5
<1>9. ASSUME NEW j \in 1 .. n
      PROVE  /\ Upto(C, j) \in Nat
             /\ Upto(C, j) <= Upto(C, n)
             /\ j \in C => Upto(C, j) > 0
  <2>1. j \in Nat
    OBVIOUS
  <2> QED BY <1>1, <1>4, <1>5, <2>1
<1> QED BY <1>6, <1>7, <1>8, <1>9


(* After i records the small ring holds the last of the field among them,  *)
(* the one with k of the field up to it in slot k - 1 modulo MaxPoints.    *)
LEMMA CollectsLatest ==
  ASSUME NEW h, h.used \in Nat, NEW d, NEW f, NEW C,
         C = {i \in 1 .. h.used : FieldOf[d[SlotOf(h, i - 1)]] = f}
  PROVE  LET c == Collect(h, d, f)
         IN  /\ c.total = Upto(C, h.used)
             /\ \A j \in C : c.total - Upto(C, j) < MaxPoints =>
                  c.points[(Upto(C, j) - 1) % MaxPoints] = d[SlotOf(h, j - 1)]
<1>1. PICK after : /\ Collecting(h, d, f, after)
                   /\ Collect(h, d, f) = after[h.used]
  BY CollectRuns
<1> DEFINE R(i) == d[SlotOf(h, i - 1)]
           T == {R(i) : i \in 1 .. h.used} \cup {Blank}
           Good(i) ==
             /\ after[i].total = Upto(C, i)
             /\ after[i].points \in [0 .. MaxPoints - 1 -> T]
             /\ \A j \in C \cap 1 .. i : Upto(C, i) - Upto(C, j) < MaxPoints =>
                  after[i].points[(Upto(C, j) - 1) % MaxPoints] = R(j)
           S == {i \in Nat : i <= h.used => Good(i)}
<1> HIDE DEF R
<1>2. Good(0)
  <2>1. after[0] = [total |-> 0, points |-> [s \in 0 .. MaxPoints - 1 |-> Blank]]
    BY <1>1 DEF Collecting
  <2>2. Upto(C, 0) = 0
    <3>1. C \cap 1 .. 0 = {}
      OBVIOUS
    <3> QED BY <3>1, FS_EmptySet DEF Upto
  <2> QED BY <2>1, <2>2
<1>3. ASSUME NEW n \in Nat, n < h.used, Good(n) PROVE Good(n + 1)
  <2>1. after[n + 1] = IF FieldOf[R(n + 1)] # f
                         THEN after[n]
                         ELSE [total  |-> after[n].total + 1,
                               points |-> [after[n].points EXCEPT
                                            ![after[n].total % MaxPoints] = R(n + 1)]]
    <3>1. n + 1 \in 0 .. h.used /\ (n + 1) - 1 = n /\ n + 1 # 0
      BY <1>3
    <3> QED BY <1>1, <3>1 DEF R, Collecting
  <2>2. n + 1 \in C <=> FieldOf[R(n + 1)] = f
    BY <1>3 DEF R
  <2>3. CASE n + 1 \notin C
    <3>1. after[n + 1] = after[n] /\ C \cap 1 .. n + 1 = C \cap 1 .. n
      BY <2>1, <2>2, <2>3
    <3>2. Upto(C, n + 1) = Upto(C, n)
      BY <2>3, CountUp
    <3> QED BY <1>3, <3>1, <3>2
  <2>4. CASE n + 1 \in C
    <3> DEFINE u == Upto(C, n)
    <3>1. u \in Nat /\ Upto(C, n + 1) = u + 1
      BY <2>4, CountUp
    <3>2. u % MaxPoints \in 0 .. MaxPoints - 1
      BY <3>1, Division
    <3>3. /\ after[n + 1].total = u + 1
          /\ after[n + 1].points = [after[n].points EXCEPT ![u % MaxPoints] = R(n + 1)]
      BY <1>3, <2>1, <2>2, <2>4
    <3>4. R(n + 1) \in T
      BY <1>3
    <3>5. after[n + 1].points \in [0 .. MaxPoints - 1 -> T]
      BY <1>3, <3>3, <3>4
    <3>6. ASSUME NEW j \in C \cap 1 .. n + 1, (u + 1) - Upto(C, j) < MaxPoints
          PROVE  after[n + 1].points[(Upto(C, j) - 1) % MaxPoints] = R(j)
      <4>1. CASE j = n + 1
        <5>1. Upto(C, j) - 1 = u
          BY <3>1, <4>1
        <5> QED BY <1>3, <3>2, <3>3, <4>1, <5>1
      <4>2. CASE j # n + 1
        <5>1. j \in C \cap 1 .. n /\ j \in 1 .. n
          BY <4>2
        <5> DEFINE v == Upto(C, j)
        <5>2. v \in Nat /\ v <= u /\ v > 0
          BY <5>1, CountUp
        <5> HIDE DEF u, v
        <5>3. v - 1 \in Nat /\ v - 1 < u /\ u - (v - 1) < MaxPoints /\ u - v < MaxPoints
          BY <3>1, <3>6, <5>2 DEF v
        <5>4. (v - 1) % MaxPoints # u % MaxPoints
          BY <3>1, <5>3, OtherSlot
        <5>5. (v - 1) % MaxPoints \in 0 .. MaxPoints - 1
          BY <5>3, Division
        <5>6. after[n].points[(v - 1) % MaxPoints] = R(j)
          BY <1>3, <5>1, <5>3 DEF u, v
        <5>7. after[n + 1].points[(v - 1) % MaxPoints] = R(j)
          BY <1>3, <3>3, <5>4, <5>5, <5>6
        <5> QED BY <5>7 DEF v
      <4> QED BY <4>1, <4>2
    <3> QED BY <3>1, <3>3, <3>5, <3>6
  <2> QED BY <2>3, <2>4
<1>4. Nat \subseteq S
  <2>1. 0 \in S
    BY <1>2
  <2>2. ASSUME NEW n \in Nat, n \in S PROVE n + 1 \in S
    <3> HIDE DEF Good
    <3> QED BY <1>3, <2>2
  <2> HIDE DEF S
  <2> QED BY <2>1, <2>2, SetInduction
<1>5. Good(h.used)
  <2> HIDE DEF Good
  <2> QED BY <1>4
<1>6. C \subseteq 1 .. h.used
  OBVIOUS
<1> QED BY <1>1, <1>5, <1>6 DEF R

(* The answer made from it.                                                *)
After(C, i) == Cardinality({j \in C : j > i})

IsAnswer(C, answer, h, d) ==
  /\ Len(answer) = IF Cardinality(C) > MaxPoints THEN MaxPoints ELSE Cardinality(C)
  /\ \A i \in C : After(C, i) < MaxPoints =>
       answer[Len(answer) - After(C, i)] = d[SlotOf(h, i - 1)]

LEMMA AnswerIsLatest ==
  ASSUME NEW h \in HistoryHeader, NEW d, NEW f, NEW C,
         C = {i \in 1 .. h.used : FieldOf[d[SlotOf(h, i - 1)]] = f}
  PROVE  IsAnswer(C, FieldPoints(h, d, f), h, d)
<1> DEFINE c == Collect(h, d, f)
           n == Cardinality(C)
           emitted == IF n > MaxPoints THEN MaxPoints ELSE n
           start == IF n > MaxPoints THEN n % MaxPoints ELSE 0
           answer == FieldPoints(h, d, f)
<1>1. h.used \in Nat /\ IsFiniteSet(C) /\ n \in Nat
  <2>1. h.used \in Nat
    BY DEF HistoryHeader
  <2>2. IsFiniteSet(1 .. h.used)
    BY <2>1, FS_Interval
  <2> QED BY <2>1, <2>2, FS_Subset, FS_CardinalityType
<1>2. Upto(C, h.used) = n
  <2>1. C \cap 1 .. h.used = C
    OBVIOUS
  <2> QED BY <2>1 DEF Upto
<1>3. /\ c.total = n
      /\ \A j \in C : n - Upto(C, j) < MaxPoints =>
           c.points[(Upto(C, j) - 1) % MaxPoints] = d[SlotOf(h, j - 1)]
  BY <1>1, <1>2, CollectsLatest
<1>4. emitted \in Nat
  BY <1>1
<1>5. answer = [i \in 1 .. emitted |-> c.points[(start + i - 1) % MaxPoints]]
  BY <1>3 DEF FieldPoints
<1>6. Len(answer) = emitted
  <2> HIDE DEF emitted, start, c
  <2> QED BY <1>4, <1>5
<1>7. ASSUME NEW i \in C, After(C, i) < MaxPoints
      PROVE  answer[emitted - After(C, i)] = d[SlotOf(h, i - 1)]
  <2> DEFINE b == After(C, i)
             u == Upto(C, i)
  <2>1. i \in 1 .. h.used
    OBVIOUS
  <2>2. u \in Nat /\ u > 0 /\ u <= n
    BY <1>1, <1>2, <2>1, CountUp
  <2>3. b = n - u
    <3> DEFINE D == C \cap 1 .. i
    <3>1. {j \in C : j > i} = C \ D
      BY <1>1, <2>1
    <3>2. C \cap D = D
      OBVIOUS
    <3> HIDE DEF D
    <3>3. Cardinality(C \ D) = Cardinality(C) - Cardinality(C \cap D)
      BY ONLY <1>1, FS_Difference
    <3> QED BY <3>1, <3>2, <3>3 DEF D, Upto, After
  <2>4. c.points[(u - 1) % MaxPoints] = d[SlotOf(h, i - 1)]
    BY <1>3, <1>7, <2>3
  <2> HIDE DEF b, u, n
  <2>5. b \in 0 .. MaxPoints - 1 /\ u - 1 = n - b - 1 /\ b < n
    BY <1>1, <1>7, <2>2, <2>3 DEF b
  <2>6. emitted - b \in 1 .. emitted
    BY <1>1, <2>5
  <2>7. (start + (emitted - b) - 1) % MaxPoints = (u - 1) % MaxPoints
    <3>1. CASE n > MaxPoints
      <4>1. start = n % MaxPoints /\ emitted = MaxPoints
        BY <3>1
      <4>a. n \in Nat /\ n >= MaxPoints
        BY <1>1, <3>1
      <4>2. ((n % MaxPoints) + (MaxPoints - b) - 1) % MaxPoints = (n - b - 1) % MaxPoints
        BY ONLY HistoryAssumption, <4>a, <2>5, Rotated
      <4> QED BY <2>5, <4>1, <4>2
    <3>2. CASE ~ (n > MaxPoints)
      BY <1>1, <2>5, <3>2
    <3> QED BY <3>1, <3>2
  <2> HIDE DEF emitted, start, c
  <2>8. answer[emitted - b] = c.points[(start + (emitted - b) - 1) % MaxPoints]
    BY <1>5, <2>6
  <2> QED BY <2>4, <2>7, <2>8 DEF b
<1> QED BY <1>6, <1>7 DEF IsAnswer

LEMMA FieldAnswer == IInv => FieldAnswerIsLatest
<1> SUFFICES ASSUME IInv, NEW t \in Viewers, NEW f \in Field, pc[t] = "field"
             PROVE  LET answer == FieldPoints(copy[t], data, f)
                        n      == Cardinality(Matching(f))
                    IN  /\ Len(answer) = IF n > MaxPoints THEN MaxPoints ELSE n
                        /\ \A i \in Matching(f) :
                             Behind(f, i) < MaxPoints =>
                               answer[Len(answer) - Behind(f, i)] = Contents[i]
  BY DEF FieldAnswerIsLatest
<1>1. copy[t] = hdr /\ hdr \in HistoryHeader
  BY DEF IInv, CopyIsCurrent, TypeOK, Task
<1>2. \A i \in 1 .. hdr.used : Contents[i] = data[SlotOf(hdr, i - 1)]
  BY <1>1, ReadAt DEF Contents
<1>3. Matching(f) = {i \in 1 .. hdr.used : FieldOf[data[SlotOf(hdr, i - 1)]] = f}
  BY <1>2 DEF Matching
<1>4. Matching(f) \subseteq 1 .. hdr.used
  BY DEF Matching
<1>5. IsAnswer(Matching(f), FieldPoints(hdr, data, f), hdr, data)
  BY ONLY <1>1, <1>3, AnswerIsLatest
<1> QED BY <1>1, <1>2, <1>4, <1>5 DEF IsAnswer, Behind, After

(* A field query holds the newest points of its field, oldest first: as    *)
(* many as the small ring has room for, in the order they were appended    *)
(* (bike_history_field_json).                                              *)
THEOREM FieldQueryIsLatest == Spec => []FieldAnswerIsLatest
<1>1. Spec => []IInv
  BY InductiveInvariant
<1>2. QED
  BY <1>1, FieldAnswer, PTL

-----------------------------------------------------------------------------
(* The export task on top of the ring. *)

(* Every step of the system is a step of the ring, or none of it. *)
LEMMA ExportIsNext == [ExportNext]_allVars => [Next]_vars
<1> SUFFICES ASSUME [ExportNext]_allVars PROVE [Next]_vars
  OBVIOUS
<1> USE ExportAssumption
<1>1. CASE Append1
  BY <1>1 DEF Append1, Next, AppendStep
<1>2. CASE OtherStep
  BY <1>2 DEF OtherStep, Next, AppendStep, Task
<1>3. CASE WifiChange \/ PostOk \/ PostAnswerLost
  BY <1>3 DEF WifiChange, PostOk, PostAnswerLost
<1>4. CASE ResetChip
  BY <1>4 DEF ResetChip, Next
<1>5. CASE ExportTask
  <2>1. CASE Wake \/ CheckYes \/ CheckNo \/ PostFail
    BY <2>1 DEF Wake, CheckYes, CheckNo, PostFail
  <2>2. CASE SnapshotBegin \/ SnapshotRead
    BY <2>2 DEF SnapshotBegin, SnapshotRead, Next, ExportStep
  <2>3. CASE SnapshotFail \/ ClearFail
    BY <2>3 DEF SnapshotFail, ClearFail, Next, Task
  <2>4. CASE ClearStart \/ Truncate \/ ClearEnd
    BY <2>4 DEF ClearStart, Truncate, ClearEnd, Next, ClearStep
  <2> QED
    BY <1>5, <2>1, <2>2, <2>3, <2>4 DEF ExportTask
<1>6. CASE UNCHANGED allVars
  BY <1>6 DEF allVars
<1> QED
  BY <1>1, <1>2, <1>3, <1>4, <1>5, <1>6 DEF ExportNext

LEMMA ExportHasRing == ExportSpec => Spec
<1>1. ExportInit => Init
  BY DEF ExportInit
<1> QED
  BY <1>1, ExportIsNext, PTL DEF ExportSpec, Spec

LEMMA RangeIs ==
  ASSUME NEW S, NEW s \in Seq(S)
  PROVE  Range(s) = {s[i] : i \in 1 .. Len(s)}
BY DEF Range

LEMMA LogType ==
  ASSUME IInv
  PROVE  /\ LogOfFile \in Seq(Record)
         /\ InFile = {LogOfFile[i] : i \in 1 .. Len(LogOfFile)}
         /\ InHand \subseteq Record
         /\ PendingOfFile # Blank => PendingOfFile \in InHand
<1>1. LogOfFile \in Seq(Record)
  <2>1. CASE Overwriting
    <3>1. Len(Contents) = MaxRecords /\ Contents \in Seq(Record)
      BY FileFacts, <2>1 DEF Overwriting
    <3>2. Contents # <<>>
      BY <3>1, EmptySeq
    <3> QED
      BY <2>1, <3>1, <3>2, HeadTailProperties DEF LogOfFile
  <2>2. CASE ~Overwriting
    BY FileFacts, <2>2
  <2> QED
    BY <2>1, <2>2
<1>2. InHand \subseteq Record
  BY FileFacts DEF InHand, RecordInHand
<1>3. ASSUME PendingOfFile # Blank PROVE PendingOfFile \in InHand
  <2>1. Overwriting
    BY <1>3 DEF PendingOfFile
  <2>2. PICK t \in Task : pc[t] = "header"
    BY <2>1 DEF Overwriting
  <2>3. PendingOfFile = rec[t]
    BY FileFacts, <2>1, <2>2 DEF PendingOfFile
  <2> QED
    BY <2>2, <2>3 DEF InHand
<1> QED
  BY <1>1, <1>2, <1>3, RangeIs DEF InFile

LEMMA LogTypeNow ==
  IInv => /\ LogOfFile \in Seq(Record)
          /\ InFile = {LogOfFile[i] : i \in 1 .. Len(LogOfFile)}
BY LogType

LEMMA LogTypeAfter ==
  IInv' => /\ LogOfFile' \in Seq(Record)
           /\ InFile' = {LogOfFile'[i] : i \in 1 .. Len(LogOfFile')}
<1>1. (IInv => /\ LogOfFile \in Seq(Record)
               /\ InFile = {LogOfFile[i] : i \in 1 .. Len(LogOfFile)})'
  BY LogTypeNow, PTL
<1> QED
  BY <1>1

(* A step of the ring other than the first of an append. *)
RingMoves ==
  \/ BootStep \/ Crash \/ UNCHANGED vars
  \/ \E t \in Task : AppendRecord(t) \/ AppendHeader(t) \/ Fail(t)
  \/ \E t \in Task : ExportStep(t) \/ FieldStep(t) \/ ClearStep(t)

(* What a step of the ring, other than the first of an append, does to the *)
(* log and to the records in hand.                                         *)
LEMMA LogMoves ==
  ASSUME IInv, IInv', RingMoves
  PROVE  \/ UNCHANGED <<LogOfFile, PendingOfFile>> /\ InHand' \subseteq InHand
         \/ InHand' = InHand /\ \E r \in InHand : Log!Overwrite(r)
         \/ InHand' = {} /\ \E r \in InHand :
              Log!Push(r) \/ (Log!Settle /\ PendingOfFile = r)
         \/ InHand' = {} /\ (Log!Misplace \/ Log!Erase)
<1> USE ExportAssumption
<1>1. CASE BootStep
  <2>1. \A t \in Task : pc[t] = "idle" /\ pc'[t] = "idle"
    BY <1>1 DEF BootStep, BootKeep, BootTruncate, BootCreate, BootFail, IInv,
       CallsAreAfterBoot
  <2>2. InHand = {} /\ InHand' = {}
    BY <2>1 DEF InHand
  <2> QED
    BY <1>1, <2>2, LogOfBoot DEF Log!logVars
<1>2. ASSUME NEW t \in Task, AppendRecord(t)
      PROVE  InHand' = InHand /\ rec[t] \in InHand
  BY <1>2, FileFacts DEF AppendRecord, InHand, TypeOK
<1>3. ASSUME NEW t \in Task, AppendHeader(t)
      PROVE  InHand' = {} /\ rec[t] \in InHand
  <2>1. rec[t] \in InHand
    BY <1>3 DEF AppendHeader, InHand
  <2>2. \A u \in Task : pc'[u] = "idle"
    BY <1>3, FileFacts DEF AppendHeader, Leave, TypeOK
  <2> QED
    BY <2>1, <2>2 DEF InHand
<1>4. ASSUME NEW t \in Task, Fail(t) PROVE InHand' = {}
  BY <1>4, FileFacts DEF Fail, Leave, InHand, TypeOK
<1>5. CASE Crash
  <2>1. InHand' = {}
    BY <1>5 DEF Crash, InHand
  <2> QED
    BY <1>5, <2>1, LogOfCrash DEF Log!logVars
<1>6. ASSUME NEW t \in Task, ClearTruncate(t) PROVE InHand' = {}
  BY <1>6, FileFacts DEF ClearTruncate, InHand, TypeOK
<1>7. ASSUME NEW t \in Task,
             \/ ExportBegin(t) \/ FieldBegin(t) \/ ClearBegin(t)
             \/ FieldRead(t) \/ ClearHeader(t) \/ ExportRead(t)
      PROVE  InHand' \subseteq InHand
  BY <1>7, FileFacts DEF ExportBegin, FieldBegin, ClearBegin, Enter, Leave, FieldRead,
     ClearHeader, ExportRead, InHand, TypeOK
<1>8. CASE UNCHANGED vars
  <2>1. (Overwriting' <=> Overwriting) /\ InHand' = InHand
    BY <1>8 DEF vars, Overwriting, InHand
  <2> QED
    BY <1>8, <2>1, SameLog DEF vars
<1>9. ASSUME NEW t \in Task, AppendRecord(t) \/ AppendHeader(t) \/ Fail(t)
      PROVE  \/ UNCHANGED <<LogOfFile, PendingOfFile>> /\ InHand' \subseteq InHand
             \/ InHand' = InHand /\ \E r \in InHand : Log!Overwrite(r)
             \/ InHand' = {} /\ \E r \in InHand :
                  Log!Push(r) \/ (Log!Settle /\ PendingOfFile = r)
             \/ InHand' = {} /\ (Log!Misplace \/ Log!Erase)
  BY <1>2, <1>3, <1>4, <1>9, LogOfRecord, LogOfHeader, LogOfFail DEF Log!logVars
<1>10. ASSUME NEW t \in Task, ExportStep(t) \/ FieldStep(t) \/ ClearStep(t)
       PROVE  \/ UNCHANGED <<LogOfFile, PendingOfFile>> /\ InHand' \subseteq InHand
              \/ InHand' = {} /\ (Log!Misplace \/ Log!Erase)
  BY <1>6, <1>7, <1>10, LogOfQuiet, LogOfExport, LogOfClear
     DEF ExportStep, FieldStep, ClearStep, Log!logVars, Log!Export
<1> QED
  BY <1>1, <1>5, <1>8, <1>9, <1>10 DEF RingMoves

(* No step but the first of an append brings a record in. *)
LEMMA NothingNew ==
  ASSUME IInv, IInv', RingMoves
  PROVE  /\ InFile' \cup InHand' \subseteq InFile \cup InHand
         /\ InHand' = {} \/ (InHand' \subseteq InHand /\ InFile' \subseteq InFile)
<1>1. /\ LogOfFile \in Seq(Record) /\ InHand \subseteq Record
      /\ InFile = {LogOfFile[i] : i \in 1 .. Len(LogOfFile)}
      /\ PendingOfFile # Blank => PendingOfFile \in InHand
  BY LogType
<1>2. /\ LogOfFile' \in Seq(Record)
      /\ InFile' = {LogOfFile'[i] : i \in 1 .. Len(LogOfFile')}
  BY LogTypeAfter
<1>3. CASE UNCHANGED <<LogOfFile, PendingOfFile>> /\ InHand' \subseteq InHand
  BY <1>3 DEF InFile
<1>4. ASSUME InHand' = InHand, NEW r \in InHand, Log!Overwrite(r)
      PROVE  InFile' \subseteq InFile
  <2>1. LogOfFile # <<>>
    BY <1>1, <1>4, EmptySeq DEF Log!Overwrite
  <2> QED
    BY <1>1, <1>2, <1>4, <2>1, HeadTailProperties DEF Log!Overwrite
<1>5. ASSUME NEW r \in InHand, LogOfFile' = Append(LogOfFile, r)
      PROVE  InFile' \subseteq InFile \cup InHand
  BY <1>1, <1>2, <1>5, AppendProperties
<1>6. ASSUME Log!Misplace PROVE InFile' \subseteq InFile \cup InHand
  <2>1. <<PendingOfFile>> \in Seq(Record) /\ Len(<<PendingOfFile>>) = 1
        /\ <<PendingOfFile>>[1] = PendingOfFile /\ PendingOfFile \in InHand
    BY <1>1, <1>6 DEF Log!Misplace
  <2>2. LogOfFile' = <<PendingOfFile>> \o LogOfFile
    BY <1>6 DEF Log!Misplace
  <2>3. \A i \in 1 .. Len(LogOfFile') :
          LogOfFile'[i] = IF i <= 1 THEN PendingOfFile ELSE LogOfFile[i - 1]
    BY <1>1, <2>1, <2>2, ConcatProperties
  <2>4. Len(LogOfFile') = 1 + Len(LogOfFile)
    BY <1>1, <2>1, <2>2, ConcatProperties
  <2> QED
    BY <1>1, <1>2, <2>1, <2>3, <2>4
<1>7. ASSUME Log!Erase PROVE InFile' \subseteq InFile \cup InHand
  BY <1>2, <1>7, EmptySeq DEF Log!Erase
<1> QED
  BY LogMoves, <1>3, <1>4, <1>5, <1>6, <1>7 DEF Log!Push, Log!Settle

-----------------------------------------------------------------------------
(* ExportInv is inductive. *)

LEMMA InitExportInv == ExportInit => ExportInv
<1> SUFFICES ASSUME ExportInit PROVE ExportInv
  OBVIOUS
<1> USE ExportAssumption
<1>1. IInv /\ Init
  BY InitIInv DEF ExportInit
<1>2. LogOfFile = <<>> /\ PendingOfFile = Blank
  BY <1>1, InitRefines DEF Log!LogInit
<1>3. InFile = {} /\ InHand = {}
  <2>1. InHand = {}
    BY <1>1 DEF InHand, Init
  <2>2. Len(LogOfFile) = 0
    BY <1>2, EmptySeq
  <2>3. InFile = {LogOfFile[i] : i \in 1 .. Len(LogOfFile)}
    BY <1>1, LogType
  <2> HIDE DEF InFile
  <2> QED
    BY <2>1, <2>2, <2>3
<1>4. ExportTypeOK
  <2>1. TypeOK /\ <<>> \in Seq(Record)
    BY <1>1, EmptySeq DEF IInv
  <2>2. step = "sleep" /\ wifi \in BOOLEAN /\ delivered = {}
    BY DEF ExportInit
  <2>3. payload \in Seq(Record)
    BY <2>1 DEF ExportInit
  <2>4. appended \in Nat /\ snapshot \in 0 .. appended
    BY DEF ExportInit
  <2> QED
    BY <2>1, <2>2, <2>3, <2>4 DEF ExportTypeOK
<1>5. PlacesAgree
  BY DEF PlacesAgree, ExportInit, Init, Task
<1>6. OrderedAndOlder
  BY <1>2, <1>3, EmptySeq DEF OrderedAndOlder
<1> QED
  BY <1>1, <1>4, <1>5, <1>6 DEF ExportInv, KeptIsSentOrNew, Erasable, ExportInit

(* The order of the log while no record comes in. *)
LEMMA OrderStays ==
  ASSUME IInv, IInv', RingMoves, OrderedAndOlder, appended \in Nat,
         appended' = appended
  PROVE  OrderedAndOlder'
<1> USE ExportAssumption
<1> DEFINE n == Len(LogOfFile)
           At(i) == LogOfFile[i]
<1>1. /\ LogOfFile \in Seq(Record) /\ n \in Nat
      /\ InFile = {At(i) : i \in 1 .. n}
      /\ InHand \subseteq Record /\ Record \subseteq Nat
      /\ PendingOfFile # Blank => PendingOfFile \in InHand
  BY LogType
<1>2. /\ LogOfFile' \in Seq(Record)
      /\ InFile' = {LogOfFile'[i] : i \in 1 .. Len(LogOfFile')}
  BY LogTypeAfter
<1>3. /\ \A i \in 1 .. n : At(i) \in InFile /\ At(i) \in Nat /\ At(i) <= appended
      /\ \A r \in InHand : r = appended /\ \A i \in 1 .. n : At(i) < appended
  <2>1. \A i \in 1 .. n : At(i) \in Nat /\ At(i) \in InFile
    <3>1. \A i \in 1 .. n : At(i) \in Record
      BY <1>1
    <3> HIDE DEF n, At
    <3> QED
      BY <1>1, <3>1
  <2>2. /\ \A m \in InFile : m <= appended
        /\ \A m \in InHand : m = appended /\ m \notin InFile
    BY DEF OrderedAndOlder
  <2> HIDE DEF n, At
  <2> QED
    BY <2>1, <2>2
<1>4. \A m \in InFile' : m <= appended'
  <2>1. InFile' \subseteq InFile \cup InHand
    BY NothingNew
  <2>2. \A m \in InFile \cup InHand : m <= appended
    <3>1. (\A m \in InFile : m <= appended) /\ \A m \in InHand : m = appended
      BY DEF OrderedAndOlder
    <3> QED
      BY <3>1
  <2> QED
    BY <2>1, <2>2
<1>5. \A m \in InHand' : m = appended' /\ m \notin InFile'
  BY NothingNew DEF OrderedAndOlder
<1>6. \A i, j \in 1 .. Len(LogOfFile') :
         i < j /\ (i > 1 \/ PendingOfFile' # Blank) => LogOfFile'[i] < LogOfFile'[j]
  <2>1. CASE UNCHANGED <<LogOfFile, PendingOfFile>>
    BY <2>1 DEF OrderedAndOlder
  <2>2. ASSUME NEW r \in InHand, Log!Overwrite(r)
        PROVE  \A i, j \in 1 .. Len(LogOfFile') : i < j => LogOfFile'[i] < LogOfFile'[j]
    <3>1. LogOfFile # <<>> /\ LogOfFile' = Tail(LogOfFile)
      BY <1>1, <2>2, EmptySeq DEF Log!Overwrite
    <3>2. /\ Len(LogOfFile') = n - 1
          /\ \A i \in 1 .. n - 1 : LogOfFile'[i] = At(i + 1)
      BY <1>1, <3>1, HeadTailProperties
    <3>3. \A i, j \in 2 .. n : i < j => At(i) < At(j)
      BY <1>1 DEF OrderedAndOlder
    <3> HIDE DEF n, At
    <3> QED
      BY <1>1, <3>2, <3>3
  <2>3. ASSUME NEW r \in InHand, LogOfFile' = Append(LogOfFile, r), PendingOfFile' = Blank
        PROVE  \A i, j \in 1 .. Len(LogOfFile') :
                 i < j /\ i > 1 => LogOfFile'[i] < LogOfFile'[j]
    <3>1. /\ Len(LogOfFile') = n + 1 /\ LogOfFile'[n + 1] = appended
          /\ \A i \in 1 .. n : LogOfFile'[i] = At(i)
      BY <1>1, <1>3, <2>3, AppendProperties
    <3>2. \A i, j \in 2 .. n : i < j => At(i) < At(j)
      BY <1>1 DEF OrderedAndOlder
    <3>3. \A i \in 1 .. n : At(i) < appended
      BY <1>3
    <3> HIDE DEF n, At
    <3> QED
      BY <1>1, <3>1, <3>2, <3>3
  <2>4. ASSUME Log!Misplace
        PROVE  \A i, j \in 1 .. Len(LogOfFile') :
                 i < j /\ i > 1 => LogOfFile'[i] < LogOfFile'[j]
    <3>1. <<PendingOfFile>> \in Seq(Record) /\ Len(<<PendingOfFile>>) = 1
      <4>1. PendingOfFile \in Record
        BY <1>1, <2>4 DEF Log!Misplace
      <4> QED
        BY <4>1
    <3>2. LogOfFile' = <<PendingOfFile>> \o LogOfFile
      BY <2>4 DEF Log!Misplace
    <3>3. /\ Len(LogOfFile') = n + 1
          /\ \A i \in 2 .. n + 1 : LogOfFile'[i] = At(i - 1)
      BY <1>1, <3>1, <3>2, ConcatProperties
    <3>4. \A i, j \in 1 .. n : i < j => At(i) < At(j)
      BY <1>1, <2>4 DEF OrderedAndOlder, Log!Misplace
    <3> HIDE DEF n, At
    <3> QED
      BY <1>1, <3>3, <3>4
  <2>5. ASSUME Log!Erase PROVE Len(LogOfFile') = 0
    BY <1>2, <2>5, EmptySeq DEF Log!Erase
  <2> QED
    BY LogMoves, <2>1, <2>2, <2>3, <2>4, <2>5
       DEF Log!Push, Log!Settle, Log!Misplace, Log!Erase
<1> QED
  BY <1>4, <1>5, <1>6 DEF OrderedAndOlder

LEMMA StepExportInv == ExportInv /\ [ExportNext]_allVars => ExportInv'
<1> SUFFICES ASSUME ExportInv, [ExportNext]_allVars PROVE ExportInv'
  OBVIOUS
<1> USE ExportAssumption
<1>1. /\ IInv /\ IInv' /\ TypeOK /\ TypeOK' /\ CopyIsCurrent
      /\ ExportTypeOK /\ PlacesAgree /\ OrderedAndOlder /\ KeptIsSentOrNew
  BY ExportIsNext, StepIInv DEF ExportInv, IInv
<1>2. /\ LogOfFile \in Seq(Record) /\ InHand \subseteq Record /\ InFile \subseteq Record
      /\ appended \in Nat /\ snapshot \in 0 .. appended
      /\ \A t \in Task : pc[t] # "idle" => \A u \in Task : u # t => pc[u] = "idle"
      /\ exporter \in Task
  BY <1>1, LogType, FileFacts DEF ExportTypeOK, Task
<1>3. ASSUME RingMoves, appended' = appended PROVE OrderedAndOlder'
  BY <1>1, <1>2, <1>3, OrderStays
<1>4. ASSUME RingMoves, UNCHANGED <<step, payload, snapshot, delivered>>
      PROVE  KeptIsSentOrNew'
  BY <1>1, <1>4, NothingNew DEF KeptIsSentOrNew, Erasable
<1>5. ASSUME ~Erasable' PROVE KeptIsSentOrNew'
  BY <1>5 DEF KeptIsSentOrNew
<1>6. CASE Append1
  <2>1. PICK t \in Appenders : AppendBegin(t, appended + 1)
    BY <1>6 DEF Append1
  <2>2. /\ appended' = appended + 1 /\ appended' \in Record
        /\ UNCHANGED <<step, payload, wifi, snapshot, delivered>>
    BY <1>6 DEF Append1
  <2>3. UNCHANGED <<LogOfFile, PendingOfFile>> /\ InFile' = InFile
    BY <1>1, <2>1, <2>2, LogOfQuiet DEF Log!logVars, InFile, Task
  <2>4. InHand' = {appended'}
    <3>1. t \in Task /\ \A u \in Task : pc[u] = "idle"
      BY <1>1, <2>1 DEF AppendBegin, Enter, CopyIsCurrent, Task
    <3>2. pc'[t] = "record" /\ rec'[t] = appended' /\ \A u \in Task : u # t => pc'[u] = "idle"
      BY <1>1, <2>1, <2>2, <3>1 DEF AppendBegin, Enter, TypeOK
    <3> QED
      BY <3>1, <3>2 DEF InHand
  <2>5. \A n \in InFile : n \in Nat /\ n <= appended
    BY <1>1, <1>2 DEF OrderedAndOlder
  <2>6. OrderedAndOlder'
    BY <1>1, <1>2, <2>2, <2>3, <2>4, <2>5 DEF OrderedAndOlder
  <2>7. PlacesAgree'
    BY <1>1, <2>1, <2>2 DEF PlacesAgree, AppendBegin, Enter, TypeOK, Task
  <2>8. KeptIsSentOrNew'
    BY <1>1, <1>2, <2>2, <2>3, <2>4 DEF KeptIsSentOrNew, Erasable
  <2>9. ExportTypeOK'
    BY <1>1, <1>2, <2>2 DEF ExportTypeOK
  <2> QED
    BY <1>1, <2>6, <2>7, <2>8, <2>9 DEF ExportInv
<1>7. CASE OtherStep
  <2>1. UNCHANGED exportVars
    BY <1>7 DEF OtherStep
  <2>2. RingMoves
    BY <1>7 DEF OtherStep, RingMoves, Task
  <2>3. PlacesAgree'
    <3>1. CASE BootStep
      BY <1>1, <2>1, <3>1 DEF PlacesAgree, BootStep, BootKeep, BootTruncate, BootCreate,
         BootFail, exportVars
    <3>2. ASSUME NEW t \in Appenders \cup Viewers, Fail(t) \/ AppendRecord(t) \/
                 AppendHeader(t) \/ FieldStep(t)
          PROVE  pc'[exporter] = pc[exporter] /\ boot' = boot
      BY <1>1, <3>2 DEF Fail, AppendRecord, AppendHeader, FieldStep, FieldBegin, FieldRead,
         Enter, Leave, TypeOK, Task
    <3> QED
      BY <1>1, <1>7, <2>1, <3>1, <3>2 DEF OtherStep, PlacesAgree, exportVars
  <2>4. ExportTypeOK'
    BY <1>1, <2>1 DEF ExportTypeOK, exportVars
  <2> QED
    BY <1>1, <1>3, <1>4, <2>1, <2>2, <2>3, <2>4 DEF ExportInv, exportVars
<1>8. CASE /\ UNCHANGED vars /\ UNCHANGED <<appended, snapshot>>
           /\ \/ WifiChange \/ Wake \/ CheckYes \/ CheckNo \/ SnapshotFail
              \/ PostOk \/ PostAnswerLost \/ PostFail \/ ClearFail
              \/ UNCHANGED exportVars
  <2>1. RingMoves
    BY <1>8 DEF RingMoves
  <2>2. OrderedAndOlder'
    BY <1>3, <1>8, <2>1
  <2>3. InFile' \cup InHand' \subseteq InFile \cup InHand
    BY <1>1, <2>1, NothingNew
  <2>4. pc' = pc /\ boot' = boot /\ TypeOK'
    BY <1>1, <1>8 DEF vars
  <2>5. CASE WifiChange
    BY <1>1, <1>4, <2>1, <2>2, <2>4, <2>5 DEF WifiChange, ExportInv, ExportTypeOK, PlacesAgree
  <2>6. CASE Wake \/ CheckYes
    BY <1>1, <1>5, <2>2, <2>4, <2>6
       DEF Wake, CheckYes, ExportInv, ExportTypeOK, PlacesAgree, Erasable
  <2>7. CASE CheckNo \/ SnapshotFail
    <3>1. step' = "post" /\ payload' = <<>> /\ UNCHANGED <<wifi, delivered>>
      BY <2>7 DEF CheckNo, SnapshotFail
    <3>2. step = "check" \/ step = "snapshot"
      BY <2>7 DEF CheckNo, SnapshotFail
    <3>3. pc[exporter] # "export"
      BY <1>1, <1>2, <1>8, <2>4, <2>7, <3>1
         DEF PlacesAgree, CheckNo, SnapshotFail, TakeTimesOut, CopyIsCurrent, Fail, Leave, TypeOK
    <3>4. ExportTypeOK'
      BY <1>1, <1>8, <2>4, <3>1, EmptySeq DEF ExportTypeOK
    <3> QED
      BY <1>1, <1>5, <2>2, <2>4, <3>1, <3>2, <3>3, <3>4 DEF ExportInv, PlacesAgree, Erasable
  <2>8. CASE PostOk \/ PostAnswerLost
    <3>1. delivered' = delivered \cup Range(payload) /\ step = "post" /\ wifi' = wifi
      BY <2>8 DEF PostOk, PostAnswerLost
    <3>2. \/ step' = "clear" /\ payload' = payload /\ payload # <<>>
          \/ step' = "sleep" /\ payload' = <<>>
      BY <2>8 DEF PostOk, PostAnswerLost, Sleep
    <3>3. Range(payload) \subseteq Record
      BY <1>1, RangeIs DEF ExportTypeOK
    <3>4. ExportTypeOK'
      BY <1>1, <1>8, <2>4, <3>1, <3>2, <3>3, EmptySeq DEF ExportTypeOK
    <3>5. KeptIsSentOrNew'
      BY <1>1, <1>8, <2>3, <3>1, <3>2 DEF KeptIsSentOrNew, Erasable
    <3>6. PlacesAgree'
      BY <1>1, <2>4, <3>1, <3>2 DEF PlacesAgree
    <3> QED
      BY <1>1, <2>2, <3>4, <3>5, <3>6 DEF ExportInv
  <2>9. CASE PostFail \/ ClearFail
    <3>1. step' = "sleep" /\ payload' = <<>> /\ UNCHANGED <<wifi, delivered>>
      BY <2>9 DEF PostFail, ClearFail, Sleep
    <3>2. step \in {"post", "clear"}
      BY <2>9 DEF PostFail, ClearFail
    <3>3. pc[exporter] = "idle"
      BY <1>1, <1>2, <1>8, <2>4, <2>9, <3>2
         DEF PlacesAgree, PostFail, ClearFail, TakeTimesOut, CopyIsCurrent, Fail, Leave, TypeOK
    <3>4. ExportTypeOK'
      BY <1>1, <1>8, <2>4, <3>1, EmptySeq DEF ExportTypeOK
    <3> QED
      BY <1>1, <1>5, <2>2, <2>4, <3>1, <3>3, <3>4 DEF ExportInv, PlacesAgree, Erasable
  <2>10. CASE UNCHANGED exportVars
    BY <1>1, <1>4, <2>1, <2>2, <2>4, <2>10 DEF exportVars, ExportInv, ExportTypeOK, PlacesAgree
  <2> QED
    BY <1>8, <2>5, <2>6, <2>7, <2>8, <2>9, <2>10
<1>9. CASE ResetChip
  <2>1. /\ step' = "sleep" /\ payload' = <<>> /\ wifi' = FALSE
        /\ UNCHANGED <<appended, snapshot, delivered>> /\ Crash
    BY <1>9 DEF ResetChip, Sleep
  <2>2. RingMoves
    BY <2>1 DEF RingMoves
  <2>3. ExportTypeOK'
    BY <1>1, <2>1, EmptySeq DEF ExportTypeOK
  <2>4. PlacesAgree'
    BY <2>1, <1>2 DEF PlacesAgree, Crash
  <2> QED
    BY <1>1, <1>3, <1>5, <2>1, <2>2, <2>3, <2>4 DEF ExportInv, Erasable
<1>10. CASE SnapshotBegin
  <2>1. ExportBegin(exporter) /\ UNCHANGED exportVars /\ step = "snapshot"
    BY <1>10 DEF SnapshotBegin
  <2>2. RingMoves
    BY <1>2, <2>1 DEF RingMoves, ExportStep
  <2>3. ExportTypeOK'
    BY <1>1, <2>1 DEF ExportTypeOK, exportVars
  <2>4. PlacesAgree'
    BY <1>1, <1>2, <2>1 DEF PlacesAgree, ExportBegin, Enter, TypeOK, exportVars
  <2> QED
    BY <1>1, <1>3, <1>4, <2>1, <2>2, <2>3, <2>4 DEF ExportInv, exportVars
<1>11. CASE SnapshotRead
  <2>1. /\ ExportRead(exporter) /\ UNCHANGED <<wifi, appended, delivered>>
        /\ payload' = out'[exporter] /\ snapshot' = appended /\ step' = "post"
    BY <1>11 DEF SnapshotRead
  <2>2. RingMoves
    BY <1>2, <2>1 DEF RingMoves, ExportStep
  <2>3. /\ Log!Export(exporter) /\ pc[exporter] = "export"
    BY <1>1, <1>2, <2>1, LogOfExport DEF ExportRead
  <2>4. payload' = LogOfFile' /\ payload' \in Seq(Record)
    BY <1>1, <1>2, <2>1, <2>3 DEF Log!Export, TypeOK
  <2>5. ExportTypeOK'
    BY <1>1, <1>2, <2>1, <2>4 DEF ExportTypeOK
  <2>6. PlacesAgree'
    BY <1>1, <1>2, <2>1, <2>3 DEF PlacesAgree, ExportRead, Leave, TypeOK
  <2>7. InHand' = {}
    BY <1>1, <1>2, <2>1, <2>3 DEF ExportRead, Leave, TypeOK, InHand
  <2>8. KeptIsSentOrNew'
    BY <2>1, <2>4, <2>7 DEF KeptIsSentOrNew, InFile
  <2> QED
    BY <1>1, <1>3, <2>1, <2>2, <2>5, <2>6, <2>8 DEF ExportInv
<1>12. CASE Fail(exporter) /\ (SnapshotFail \/ ClearFail)
  <2>1. /\ UNCHANGED <<wifi, appended, snapshot, delivered>> /\ payload' = <<>>
        /\ step' \in {"post", "sleep"} /\ step # "sleep"
    BY <1>12 DEF SnapshotFail, ClearFail, Sleep
  <2>2. RingMoves
    BY <1>2, <1>12 DEF RingMoves
  <2>3. ExportTypeOK'
    BY <1>1, <2>1, EmptySeq DEF ExportTypeOK
  <2>4. PlacesAgree'
    BY <1>1, <1>2, <1>12, <2>1 DEF PlacesAgree, Fail, Leave, TypeOK
  <2> QED
    BY <1>1, <1>3, <1>5, <2>1, <2>2, <2>3, <2>4 DEF ExportInv, Erasable
<1>13. CASE ClearStart \/ Truncate
  <2>1. /\ ClearBegin(exporter) \/ ClearTruncate(exporter)
        /\ UNCHANGED exportVars /\ step = "clear"
    BY <1>1, <1>13 DEF ClearStart, Truncate, ClearTruncate, PlacesAgree
  <2>2. RingMoves
    BY <1>2, <2>1 DEF RingMoves, ClearStep
  <2>3. ExportTypeOK'
    BY <1>1, <2>1 DEF ExportTypeOK, exportVars
  <2>4. PlacesAgree'
    BY <1>1, <1>2, <2>1 DEF PlacesAgree, ClearBegin, ClearTruncate, Enter, TypeOK, exportVars
  <2> QED
    BY <1>1, <1>3, <1>4, <2>1, <2>2, <2>3, <2>4 DEF ExportInv, exportVars
<1>14. CASE ClearEnd
  <2>1. /\ ClearHeader(exporter) /\ step' = "sleep" /\ payload' = <<>>
        /\ UNCHANGED <<wifi, appended, snapshot, delivered>>
    BY <1>14 DEF ClearEnd, Sleep
  <2>2. RingMoves
    BY <1>2, <2>1 DEF RingMoves, ClearStep
  <2>3. ExportTypeOK'
    BY <1>1, <2>1, EmptySeq DEF ExportTypeOK
  <2>4. PlacesAgree'
    BY <1>1, <1>2, <2>1 DEF PlacesAgree, ClearHeader, Leave, TypeOK
  <2> QED
    BY <1>1, <1>3, <1>5, <2>1, <2>2, <2>3, <2>4 DEF ExportInv, Erasable
<1>15. CASE WifiChange \/ Wake \/ CheckYes \/ CheckNo \/ PostOk \/ PostAnswerLost \/ PostFail
  BY <1>8, <1>15 DEF WifiChange, Wake, CheckYes, CheckNo, PostOk, PostAnswerLost, PostFail
<1>16. CASE SnapshotFail \/ ClearFail
  <2>1. UNCHANGED <<appended, snapshot>> /\ (UNCHANGED vars \/ Fail(exporter))
    BY <1>16 DEF SnapshotFail, ClearFail
  <2> QED
    BY <1>8, <1>12, <1>16, <2>1
<1>17. CASE UNCHANGED allVars
  BY <1>8, <1>17 DEF allVars, exportVars
<1> QED
  BY <1>6, <1>7, <1>9, <1>10, <1>11, <1>13, <1>14, <1>15, <1>16, <1>17
     DEF ExportNext, ExportTask

THEOREM ExportInvariant == ExportSpec => []ExportInv
<1> QED
  BY InitExportInv, StepExportInv, PTL DEF ExportSpec

(* The variables of the export task keep their types on top of the ring's. *)
THEOREM ExportTypeCorrect == ExportSpec => []ExportTypeOK
<1>1. ExportInv => ExportTypeOK
  BY DEF ExportInv
<1> QED
  BY ExportInvariant, <1>1, PTL

(* For every capacity and any number of resets and errors, the ring is in  *)
(* the order of time behind its first record: each interrupted append      *)
(* (bike_history.c:259-270) moves one record to the front, and the next    *)
(* append to the full ring pushes just that one out.                       *)
THEOREM DamageDoesNotAddUp == ExportSpec => []OrderedBehindFirst
<1>1. ExportInv => OrderedBehindFirst
  <2> SUFFICES ASSUME ExportInv PROVE OrderedBehindFirst
    OBVIOUS
  <2>1. Len(LogOfFile) \in Nat
    BY LogType DEF ExportInv
  <2> QED
    BY <2>1 DEF ExportInv, OrderedAndOlder, OrderedBehindFirst
<1> QED
  BY ExportInvariant, <1>1, PTL

(* What a clear removes has been delivered or was appended after the       *)
(* snapshot: export_bike_data (telemetry_export.c:141-149) never clears    *)
(* what it has read and failed to send, whoever appends, reads or fails    *)
(* between its steps.                                                      *)
THEOREM ClearsWhatWasSent == ExportSpec => ErasesOnlySentOrNew
<1>1. ExportInv /\ [ExportNext]_allVars
        => [\A n \in Record : n \in InFile /\ Truncate => n \in delivered \/ n > snapshot]_allVars
  <2> SUFFICES ASSUME ExportInv, NEW n \in Record, n \in InFile, Truncate
               PROVE  n \in delivered \/ n > snapshot
    OBVIOUS
  <2>1. pc[exporter] = "truncate"
    BY DEF Truncate, ClearTruncate
  <2>2. step = "clear"
    BY <2>1 DEF ExportInv, PlacesAgree
  <2> QED
    BY <2>2 DEF ExportInv, KeptIsSentOrNew, Erasable
<1> QED
  BY ExportInvariant, <1>1, PTL DEF ExportSpec, ErasesOnlySentOrNew

(* The ring still is the bounded log of HistoryLog when the export task    *)
(* reads and clears it in its own order.                                   *)
THEOREM ExportedRingImplementsLog == ExportSpec => ImplementsLog
<1> QED
  BY ExportHasRing, RingImplementsLog
=============================================================================
