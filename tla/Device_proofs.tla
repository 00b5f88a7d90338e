--------------------------- MODULE Device_proofs ---------------------------
(***************************************************************************)
(* Proofs about the logs, for every size of the ring and every set of      *)
(* lines and buffers, every set of tasks and every size of the files, and  *)
(* about the firmware update, for every set of images of every size:       *)
(*   RingTypeCorrect        the variables keep their types                 *)
(*   RingImplementsLastBytes   the ring implements the log of LastBytes    *)
(*   NewestLinesAreKept     the two files hold the newest lines            *)
(*   FilesStayBounded       and keep within their size                     *)
(*   OtaTypeCorrect         the variables keep their types                 *)
(*   RunningIsKept          the slot that runs is not written              *)
(*   StartIsChosen          what was chosen is what starts                 *)
(*   DeviceCorrect          all of these for the device as a whole         *)
(***************************************************************************)
EXTENDS Device, SequenceTheorems, WellFoundedInduction, TLAPS

USE LogStoreAssumption

(* The remainder of a sum of two offsets. *)
LEMMA ModSmall ==
  ASSUME NEW x \in Nat, x < 2 * Size
  PROVE  x % Size = IF x < Size THEN x ELSE x - Size
<1>1. CASE x < Size
  BY <1>1
<1>2. CASE x >= Size
  BY <1>2
<1> QED
  BY <1>1, <1>2

LEMMA ModSum ==
  ASSUME NEW a \in Nat, NEW b \in Nat, a + b < 2 * Size
  PROVE  (a + b) % Size = IF a + b < Size THEN a + b ELSE a + b - Size
<1>1. CASE a + b < Size
  BY <1>1
<1>2. CASE a + b >= Size
  BY <1>2
<1> QED
  BY <1>1, <1>2

(* Whatever vsnprintf prints, bytes are stored. *)
LEMMA StoredType ==
  ASSUME NEW line \in Line
  PROVE  Stored(line) \in Seq(Byte)
<1>1. line \in Seq(Byte)
  OBVIOUS
<1>2. CASE Len(line) >= LineSize
  <2> DEFINE cut == [i \in 1 .. LineSize - 2 |-> line[i]]
  <2>1. LineSize - 2 \in Nat
    OBVIOUS
  <2>2. \A i \in 1 .. LineSize - 2 : line[i] \in Byte
    BY <1>1, <1>2, <2>1, ElementOfSeq
  <2>3. cut \in Seq(Byte)
    BY <2>1, <2>2, IsASeq
  <2> HIDE DEF cut
  <2>4. Append(cut, newline) \in Seq(Byte)
    BY <2>3, AppendProperties
  <2> QED
    BY <1>2, <2>4 DEF Stored, cut
<1>3. CASE ~(Len(line) >= LineSize)
  BY <1>1, <1>3 DEF Stored
<1> QED
  BY <1>2, <1>3

-----------------------------------------------------------------------------
(* Types                                                                   *)

LEMMA UsedAndStart ==
  RingTypeOK => /\ Used \in 0 .. Size
                /\ Start \in Offset
                /\ Used = Size \/ Start = 0
BY DEF RingTypeOK, Used, Start, Offset

(* A byte of the ring *)
LEMMA ByteAt ==
  ASSUME RingTypeOK, NEW x \in Nat, x < 2 * Size
  PROVE  x % Size \in Offset /\ buffer[x % Size] \in Byte
BY ModSmall DEF RingTypeOK, Offset

LEMMA CopyType ==
  ASSUME RingTypeOK, NEW n \in OutLen, LogStoreCopy(n)
  PROVE  out' \in Seq(Byte)
<1> DEFINE got == Least(Used, n - 1)
           start == (Start + (Used - got)) % Size
<1>1. n - 1 \in Nat /\ got \in 0 .. Used /\ got \in Nat
  BY UsedAndStart DEF LogStoreCopy, Least
<1>2. start \in Offset
  <2>1. Start + (Used - got) \in Nat /\ Start + (Used - got) < 2 * Size
    BY <1>1, UsedAndStart DEF Offset
  <2> QED
    BY <2>1, ByteAt
<1> HIDE DEF start
<1>3. \A i \in 1 .. got : buffer[(start + (i - 1)) % Size] \in Byte
  <2> TAKE i \in 1 .. got
  <2>1. start + (i - 1) \in Nat /\ start + (i - 1) < 2 * Size
    BY <1>1, <1>2, UsedAndStart DEF Offset
  <2> QED
    BY <2>1, ByteAt
<1>4. out' = [i \in 1 .. got |-> buffer[(start + (i - 1)) % Size]]
  BY DEF LogStoreCopy, start
<1> HIDE DEF got
<1>5. [i \in 1 .. got |-> buffer[(start + (i - 1)) % Size]] \in Seq(Byte)
  BY <1>1, <1>3, IsASeq
<1> QED
  BY <1>4, <1>5

LEMMA StepRingTypeOK ==
  RingTypeOK /\ [RingStep \/ RingReset]_ringVars => RingTypeOK'
<1> SUFFICES ASSUME RingTypeOK, [RingStep \/ RingReset]_ringVars
             PROVE  RingTypeOK'
  OBVIOUS
<1>1. ASSUME NEW line \in Line, Vprintf(line) PROVE RingTypeOK'
  BY <1>1, StoredType DEF Vprintf, RingTypeOK
<1>2. CASE StoreByte
  <2> USE <1>2 DEF StoreByte, RingTypeOK
  <2>1. rest[1] \in Byte /\ Tail(rest) \in Seq(Byte)
    BY HeadTailProperties
  <2>2. head + 1 \in Nat /\ head + 1 < 2 * Size
    BY DEF Offset
  <2>3. head' \in Offset
    BY <2>2, ModSmall DEF Offset
  <2>4. buffer' \in [Offset -> Byte]
    BY <2>1
  <2> QED
    BY <2>1, <2>3, <2>4
<1>3. ASSUME NEW n \in OutLen, LogStoreCopy(n) PROVE RingTypeOK'
  BY <1>3, CopyType DEF LogStoreCopy, RingTypeOK
<1>4. CASE RingReset
  BY <1>4, EmptySeq DEF RingReset, RingTypeOK, Offset
<1>5. CASE UNCHANGED ringVars
  BY <1>5 DEF ringVars, RingTypeOK
<1> QED
  BY <1>1, <1>2, <1>3, <1>4, <1>5 DEF RingStep

(* The variables keep their types: in particular the head stays inside the *)
(* buffer, and a copy is made of bytes only.                               *)
THEOREM RingTypeCorrect == RingSpec => []RingTypeOK
<1>1. <<>> \in Seq(Byte) /\ 0 \in Offset
  BY EmptySeq DEF Offset
<1>2. RingInit => RingTypeOK
  BY <1>1 DEF RingInit, RingTypeOK
<1> QED
  BY <1>2, StepRingTypeOK, PTL DEF RingSpec

-----------------------------------------------------------------------------
(* What the log has taken, byte by byte                                    *)

LEMMA ContentsShape ==
  RingTypeOK => /\ Contents \in Seq(Byte)
                /\ Len(Contents) = Used
                /\ \A i \in 1 .. Used : Contents[i] = buffer[(Start + (i - 1)) % Size]
<1> SUFFICES ASSUME RingTypeOK
             PROVE  /\ Contents \in Seq(Byte)
                    /\ Len(Contents) = Used
                    /\ \A i \in 1 .. Used : Contents[i] = buffer[(Start + (i - 1)) % Size]
  OBVIOUS
<1>1. Used \in Nat
  BY UsedAndStart
<1>2. \A i \in 1 .. Used : buffer[(Start + (i - 1)) % Size] \in Byte
  <2> TAKE i \in 1 .. Used
  <2>1. Start + (i - 1) \in Nat /\ Start + (i - 1) < 2 * Size
    BY UsedAndStart DEF Offset
  <2> QED
    BY <2>1, ByteAt
<1>3. Contents \in Seq(Byte)
  BY <1>1, <1>2, IsASeq DEF Contents
<1> QED
  BY <1>1, <1>3 DEF Contents

LEMMA TakenShape ==
  RingTypeOK => /\ Taken \in Seq(Byte)
                /\ Len(Taken) = Used + Len(rest)
                /\ \A i \in 1 .. Used : Taken[i] = buffer[(Start + (i - 1)) % Size]
                /\ \A i \in Used + 1 .. Used + Len(rest) : Taken[i] = rest[i - Used]
<1> SUFFICES ASSUME RingTypeOK
             PROVE  /\ Taken \in Seq(Byte)
                    /\ Len(Taken) = Used + Len(rest)
                    /\ \A i \in 1 .. Used : Taken[i] = buffer[(Start + (i - 1)) % Size]
                    /\ \A i \in Used + 1 .. Used + Len(rest) : Taken[i] = rest[i - Used]
  OBVIOUS
<1>1. rest \in Seq(Byte) /\ Len(rest) \in Nat /\ Used \in Nat
  BY UsedAndStart DEF RingTypeOK
<1>2. /\ Taken \in Seq(Byte)
      /\ Len(Taken) = Len(Contents) + Len(rest)
      /\ \A i \in 1 .. Len(Contents) + Len(rest) :
           Taken[i] = IF i <= Len(Contents) THEN Contents[i] ELSE rest[i - Len(Contents)]
  BY <1>1, ContentsShape, ConcatProperties DEF Taken
<1>3. /\ Len(Contents) = Used
      /\ \A i \in 1 .. Used : Contents[i] = buffer[(Start + (i - 1)) % Size]
  BY ContentsShape
<1>4. ASSUME NEW i \in 1 .. Used PROVE Taken[i] = buffer[(Start + (i - 1)) % Size]
  <2>1. i \in 1 .. Len(Contents) + Len(rest) /\ i <= Len(Contents)
    BY <1>1, <1>3
  <2>2. Taken[i] = Contents[i]
    BY <1>2, <2>1
  <2> QED
    BY <1>3, <2>2
<1>5. ASSUME NEW i \in Used + 1 .. Used + Len(rest) PROVE Taken[i] = rest[i - Used]
  BY <1>1, <1>2, <1>3
<1> QED
  BY <1>2, <1>3, <1>4, <1>5

(* Between two lines nothing is on its way. *)
LEMMA TakenAtRest ==
  RingTypeOK /\ rest = <<>> => Taken = Contents
BY ContentsShape, ConcatEmptySeq DEF Taken

(* The last Size bytes of a log that has them *)
LEMMA EndShape ==
  ASSUME NEW s \in Seq(Byte), Len(s) >= Size
  PROVE  EndOf(s) = [i \in 1 .. Size |-> s[Len(s) - Size + i]]
<1>1. CASE Len(s) = Size
  <2> DEFINE t == [i \in 1 .. Size |-> s[Len(s) - Size + i]]
  <2>1. \A i \in 1 .. Size : s[i] \in Byte /\ Len(s) - Size + i = i
    BY <1>1, ElementOfSeq
  <2>2. \A i \in 1 .. Size : s[Len(s) - Size + i] = s[i]
    BY <2>1
  <2>3. t \in Seq(Byte) /\ Len(t) = Size /\ \A i \in 1 .. Size : t[i] = s[i]
    BY <2>1, <2>2, IsASeq
  <2> HIDE DEF t
  <2>4. s = t
    BY <1>1, <2>3, SeqEqual
  <2> QED
    BY <1>1, <2>4 DEF EndOf, t
<1>2. CASE Len(s) > Size
  BY <1>2 DEF EndOf
<1> QED
  BY <1>1, <1>2

(* A byte that is forgotten was not among the last Size. *)
LEMMA EndOfTail ==
  ASSUME NEW s \in Seq(Byte), NEW t \in Seq(Byte),
         Len(s) > Size, Len(t) = Len(s) - 1,
         \A i \in 1 .. Len(t) : t[i] = s[i + 1]
  PROVE  EndOf(t) = EndOf(s)
<1>0. Len(s) \in Nat /\ Len(t) \in Nat /\ Len(t) >= Size /\ Len(s) >= Size
  OBVIOUS
<1>1. EndOf(t) = [i \in 1 .. Size |-> t[Len(t) - Size + i]]
  BY <1>0, EndShape
<1>2. EndOf(s) = [i \in 1 .. Size |-> s[Len(s) - Size + i]]
  BY <1>0, EndShape
<1>3. \A i \in 1 .. Size : t[Len(t) - Size + i] = s[Len(s) - Size + i]
  <2> TAKE i \in 1 .. Size
  <2>1. Len(t) - Size + i \in 1 .. Len(t) /\ Len(t) - Size + i + 1 = Len(s) - Size + i
    OBVIOUS
  <2> QED
    BY <2>1
<1> QED
  BY <1>1, <1>2, <1>3

-----------------------------------------------------------------------------
(* Every step of the ring is a step of the log, or no step of it.          *)

(* A byte that is stored before the ring has wrapped, or that wraps it,    *)
(* only moves from the line to the ring.                                   *)
LEMMA GrowingStep ==
  ASSUME RingTypeOK, RingTypeOK', StoreByte, ~wrapped
  PROVE  Taken' = Taken
<1> USE DEF StoreByte
<1>1. /\ rest \in Seq(Byte) /\ Len(rest) \in Nat \ {0}
      /\ rest' \in Seq(Byte) /\ Len(rest') = Len(rest) - 1
      /\ \A i \in 1 .. Len(rest') : rest'[i] = rest[i + 1]
  BY HeadTailProperties, EmptySeq DEF RingTypeOK
<1>2. /\ Used = head /\ Start = 0 /\ head \in Nat /\ head < Size
  BY DEF Used, Start, RingTypeOK, Offset
<1>3. head' = IF head + 1 < Size THEN head + 1 ELSE 0
  <2>1. head \in Nat /\ head + 1 < 2 * Size
    BY <1>2
  <2>2. (head + 1) % Size = IF head + 1 < Size THEN head + 1 ELSE head + 1 - Size
    BY ONLY LogStoreAssumption, <2>1, ModSum
  <2> QED
    BY <1>2, <2>2
<1>4. Used' = head + 1 /\ Start' = 0
  <2>1. CASE head + 1 < Size
    <3>1. head' = head + 1 /\ head' # 0
      BY <1>2, <1>3, <2>1
    <3>2. wrapped' = FALSE
      BY <3>1
    <3> QED
      BY <3>1, <3>2 DEF Used, Start
  <2>2. CASE ~(head + 1 < Size)
    <3>1. head' = 0 /\ head + 1 = Size
      BY <1>2, <1>3, <2>2
    <3>2. wrapped' = TRUE
      BY <3>1
    <3> QED
      BY <3>1, <3>2 DEF Used, Start
  <2> QED
    BY <2>1, <2>2
<1>5. /\ Taken \in Seq(Byte) /\ Len(Taken) = head + Len(rest)
      /\ \A i \in 1 .. head : Taken[i] = buffer[(0 + (i - 1)) % Size]
      /\ \A i \in head + 1 .. head + Len(rest) : Taken[i] = rest[i - head]
  BY <1>2, TakenShape
<1>6. (/\ Taken \in Seq(Byte)
       /\ Len(Taken) = Used + Len(rest)
       /\ \A i \in 1 .. Used : Taken[i] = buffer[(Start + (i - 1)) % Size]
       /\ \A i \in Used + 1 .. Used + Len(rest) : Taken[i] = rest[i - Used])'
  BY TakenShape, PTL
<1>7. /\ Taken' \in Seq(Byte) /\ Len(Taken') = head + 1 + Len(rest')
      /\ \A i \in 1 .. head + 1 : Taken'[i] = buffer'[(0 + (i - 1)) % Size]
      /\ \A i \in head + 2 .. head + 1 + Len(rest') : Taken'[i] = rest'[i - (head + 1)]
  BY <1>2, <1>4, <1>6
<1>8. \A i \in 1 .. head : Taken'[i] = Taken[i]
  <2> TAKE i \in 1 .. head
  <2>1. (0 + (i - 1)) % Size = i - 1 /\ i - 1 \in Offset /\ i - 1 # head
    BY <1>2, ModSmall DEF Offset
  <2>2. buffer'[i - 1] = buffer[i - 1]
    BY <2>1 DEF RingTypeOK
  <2>3. i \in 1 .. head + 1
    BY <1>2
  <2> QED
    BY <1>5, <1>7, <2>1, <2>2, <2>3
<1>9. Taken'[head + 1] = Taken[head + 1]
  <2>1. (0 + ((head + 1) - 1)) % Size = head /\ head \in Offset
    BY <1>2, ModSmall DEF Offset
  <2>2. buffer'[head] = rest[1]
    BY <2>1 DEF RingTypeOK
  <2>3. head + 1 \in 1 .. head + 1 /\ head + 1 \in head + 1 .. head + Len(rest)
        /\ (head + 1) - head = 1
    BY <1>1, <1>2
  <2>4. Taken'[head + 1] = buffer'[head]
    BY <1>7, <2>1, <2>3
  <2>5. Taken[head + 1] = rest[1]
    BY <1>5, <2>3
  <2> QED
    BY <2>2, <2>4, <2>5
<1>10. \A i \in head + 2 .. head + Len(rest) : Taken'[i] = Taken[i]
  <2> TAKE i \in head + 2 .. head + Len(rest)
  <2>1. /\ i \in head + 2 .. head + 1 + Len(rest') /\ i \in head + 1 .. head + Len(rest)
        /\ i - (head + 1) \in 1 .. Len(rest') /\ i - (head + 1) + 1 = i - head
    BY <1>1, <1>2
  <2>2. Taken'[i] = rest'[i - (head + 1)]
    BY <1>7, <2>1
  <2>3. rest'[i - (head + 1)] = rest[i - head]
    BY <1>1, <2>1
  <2>4. Taken[i] = rest[i - head]
    BY <1>5, <2>1
  <2> QED
    BY <2>2, <2>3, <2>4
<1>11. Len(Taken') = Len(Taken)
  BY <1>1, <1>2, <1>5, <1>7
<1>12. \A i \in 1 .. Len(Taken') : Taken'[i] = Taken[i]
  <2> TAKE i \in 1 .. Len(Taken')
  <2>1. i \in 1 .. head \/ i = head + 1 \/ i \in head + 2 .. head + Len(rest)
    BY <1>1, <1>2, <1>5, <1>11
  <2> QED
    BY <1>8, <1>9, <1>10, <2>1
<1> QED
  BY <1>5, <1>7, <1>11, <1>12, SeqEqual

(* A byte that is stored later pushes out the oldest.                      *)
LEMMA WrappedStep ==
  ASSUME RingTypeOK, RingTypeOK', StoreByte, wrapped
  PROVE  EndOf(Taken') = EndOf(Taken)
<1> USE DEF StoreByte
<1>1. /\ rest \in Seq(Byte) /\ Len(rest) \in Nat \ {0}
      /\ rest' \in Seq(Byte) /\ Len(rest') = Len(rest) - 1
      /\ \A i \in 1 .. Len(rest') : rest'[i] = rest[i + 1]
  BY HeadTailProperties, EmptySeq DEF RingTypeOK
<1>2. /\ Used = Size /\ Start = head /\ head \in Nat /\ head < Size
      /\ Used' = Size /\ Start' = head'
  <2>1. wrapped' = TRUE
    OBVIOUS
  <2> HIDE DEF StoreByte
  <2>2. head \in Nat /\ head < Size
    BY DEF RingTypeOK, Offset
  <2> QED
    BY <2>1, <2>2 DEF Used, Start
<1>3. head' = IF head + 1 < Size THEN head + 1 ELSE head + 1 - Size
  <2>1. head \in Nat /\ head + 1 < 2 * Size
    BY <1>2
  <2>2. (head + 1) % Size = IF head + 1 < Size THEN head + 1 ELSE head + 1 - Size
    BY ONLY LogStoreAssumption, <2>1, ModSum
  <2> QED
    BY <2>2
<1>4. /\ Taken \in Seq(Byte) /\ Len(Taken) = Size + Len(rest)
      /\ \A i \in 1 .. Size : Taken[i] = buffer[(head + (i - 1)) % Size]
      /\ \A i \in Size + 1 .. Size + Len(rest) : Taken[i] = rest[i - Size]
  BY <1>2, TakenShape
<1>5. (/\ Taken \in Seq(Byte)
       /\ Len(Taken) = Used + Len(rest)
       /\ \A i \in 1 .. Used : Taken[i] = buffer[(Start + (i - 1)) % Size]
       /\ \A i \in Used + 1 .. Used + Len(rest) : Taken[i] = rest[i - Used])'
  BY TakenShape, PTL
<1>6. /\ Taken' \in Seq(Byte) /\ Len(Taken') = Size + Len(rest')
      /\ \A i \in 1 .. Size : Taken'[i] = buffer'[(head' + (i - 1)) % Size]
      /\ \A i \in Size + 1 .. Size + Len(rest') : Taken'[i] = rest'[i - Size]
  BY <1>2, <1>5
<1>7. \A i \in 1 .. Size - 1 : Taken'[i] = Taken[i + 1]
  <2> TAKE i \in 1 .. Size - 1
  <2>0. /\ head \in Nat /\ i \in Nat /\ head + i < 2 * Size
        /\ head' \in Nat /\ i - 1 \in Nat /\ head' + (i - 1) < 2 * Size
    BY <1>2, <1>3
  <2>1. /\ (head + i) % Size = IF head + i < Size THEN head + i ELSE head + i - Size
        /\ (head' + (i - 1)) % Size
             = IF head' + (i - 1) < Size THEN head' + (i - 1)
               ELSE head' + (i - 1) - Size
    BY ONLY LogStoreAssumption, <2>0, ModSum
  <2>2. (head' + (i - 1)) % Size = (head + i) % Size
        /\ (head + i) % Size \in Offset /\ (head + i) % Size # head
    <3> HIDE DEF StoreByte
    <3> QED
      BY <1>2, <1>3, <2>0, <2>1 DEF Offset
  <2>3. buffer'[(head + i) % Size] = buffer[(head + i) % Size]
    BY <2>2 DEF RingTypeOK
  <2>4. i \in 1 .. Size /\ i + 1 \in 1 .. Size /\ (i + 1) - 1 = i
    OBVIOUS
  <2>5. Taken'[i] = buffer'[(head + i) % Size]
    BY <1>6, <2>2, <2>4
  <2>6. Taken[i + 1] = buffer[(head + i) % Size]
    BY <1>4, <2>4
  <2> QED
    BY <2>3, <2>5, <2>6
<1>8. Taken'[Size] = Taken[Size + 1]
  <2>1. head' \in Nat /\ Size - 1 \in Nat /\ head' + (Size - 1) < 2 * Size
    BY <1>2, <1>3
  <2>2. (head' + (Size - 1)) % Size = head /\ head \in Offset
    <3> HIDE DEF StoreByte
    <3>1. (head' + (Size - 1)) % Size
            = IF head' + (Size - 1) < Size THEN head' + (Size - 1)
              ELSE head' + (Size - 1) - Size
      BY ONLY LogStoreAssumption, <2>1, ModSum
    <3> QED
      BY <1>2, <1>3, <2>1, <3>1 DEF Offset
  <2>3. buffer'[head] = rest[1]
    BY <2>2 DEF RingTypeOK
  <2>4. Size \in 1 .. Size /\ Size + 1 \in Size + 1 .. Size + Len(rest) /\ (Size + 1) - Size = 1
    BY <1>1
  <2>5. Taken'[Size] = buffer'[head]
    BY <1>6, <2>2, <2>4
  <2>6. Taken[Size + 1] = rest[1]
    BY <1>4, <2>4
  <2> QED
    BY <2>3, <2>5, <2>6
<1>9. \A i \in Size + 1 .. Size + Len(rest') : Taken'[i] = Taken[i + 1]
  <2> TAKE i \in Size + 1 .. Size + Len(rest')
  <2>1. /\ i + 1 \in Size + 1 .. Size + Len(rest)
        /\ i - Size \in 1 .. Len(rest') /\ (i - Size) + 1 = (i + 1) - Size
    BY <1>1
  <2>2. Taken'[i] = rest'[i - Size]
    BY <1>6
  <2>3. rest'[i - Size] = rest[(i + 1) - Size]
    BY <1>1, <2>1
  <2>4. Taken[i + 1] = rest[(i + 1) - Size]
    BY <1>4, <2>1
  <2> QED
    BY <2>2, <2>3, <2>4
<1>10. \A i \in 1 .. Len(Taken') : Taken'[i] = Taken[i + 1]
  <2> TAKE i \in 1 .. Len(Taken')
  <2>1. i \in 1 .. Size - 1 \/ i = Size \/ i \in Size + 1 .. Size + Len(rest')
    BY <1>1, <1>6
  <2> QED
    BY <1>7, <1>8, <1>9, <2>1
<1>11. Len(Taken) > Size /\ Len(Taken') = Len(Taken) - 1
  BY <1>1, <1>4, <1>6
<1> QED
  BY <1>4, <1>6, <1>10, <1>11, EndOfTail

(* Storing a byte is no step of the log. *)
LEMMA StoreByteStutters ==
  ASSUME RingTypeOK, RingTypeOK', StoreByte
  PROVE  UNCHANGED <<EndOf(Taken), out>>
<1>1. CASE ~wrapped
  BY <1>1, GrowingStep DEF StoreByte
<1>2. CASE wrapped
  BY <1>2, WrappedStep DEF StoreByte
<1> QED
  BY <1>1, <1>2

(* Between two lines, what is kept is what the ring holds. *)
LEMMA KeptAtRest ==
  RingTypeOK /\ rest = <<>> => EndOf(Taken) = Contents
BY TakenAtRest, ContentsShape, UsedAndStart DEF EndOf

(* A line is added as a whole when its bytes begin to be stored. *)
LEMMA VprintfAdds ==
  ASSUME RingTypeOK, NEW line \in Line, Vprintf(line)
  PROVE  EndOf(Taken)' = Log!Last(EndOf(Taken) \o Stored(line), Size)
<1>1. EndOf(Taken) = Contents
  BY KeptAtRest DEF Vprintf, Unlocked
<1>2. Contents' = Contents
  BY DEF Vprintf, Contents, Used, Start
<1>3. Taken' = Contents \o Stored(line)
  BY <1>2 DEF Taken, Vprintf
<1> QED
  BY <1>1, <1>3 DEF EndOf, Log!Last

(* A copy is the end of what the ring holds. *)
LEMMA CopyIsEnd ==
  ASSUME RingTypeOK, NEW n \in OutLen, LogStoreCopy(n)
  PROVE  out' = Log!Last(EndOf(Taken), n - 1)
<1> DEFINE got == Least(Used, n - 1)
           start == (Start + (Used - got)) % Size
           nth(i) == buffer[(start + (i - 1)) % Size]
<1>1. EndOf(Taken) = Contents
  BY KeptAtRest DEF LogStoreCopy, Unlocked
<1>2. /\ Contents \in Seq(Byte) /\ Len(Contents) = Used
      /\ \A i \in 1 .. Used : Contents[i] = buffer[(Start + (i - 1)) % Size]
  BY ContentsShape
<1>3. /\ n - 1 \in Nat /\ Used \in Nat /\ Used <= Size
      /\ Start \in Nat /\ Start < Size /\ (Used = Size \/ Start = 0)
  BY UsedAndStart DEF LogStoreCopy, Offset
<1>4. got \in Nat /\ got = IF Used <= n - 1 THEN Used ELSE n - 1
  BY <1>3 DEF Least
<1>5. out' = [i \in 1 .. got |-> nth(i)]
  BY DEF LogStoreCopy
<1>6. \A i \in 1 .. got : nth(i) = Contents[Used - got + i]
  <2> TAKE i \in 1 .. got
  <2>1. Start \in Nat /\ Used - got \in Nat /\ Start + (Used - got) < 2 * Size
    BY <1>3, <1>4
  <2>2. start = IF Start + (Used - got) < Size THEN Start + (Used - got)
                ELSE Start + (Used - got) - Size
    BY ONLY LogStoreAssumption, <2>1, ModSum
  <2>3. Used - got + i \in 1 .. Used
        /\ Used - got + i - 1 \in Nat /\ Start + (Used - got + i - 1) < 2 * Size
    BY <1>3, <1>4
  <2> HIDE DEF start, got
  <2>4. start \in Nat /\ i - 1 \in Nat /\ start + (i - 1) < 2 * Size
    BY <1>3, <1>4, <2>1, <2>2
  <2>5. (start + (i - 1)) % Size = (Start + (Used - got + i - 1)) % Size
    <3>1. (start + (i - 1)) % Size
            = IF start + (i - 1) < Size THEN start + (i - 1) ELSE start + (i - 1) - Size
      BY ONLY LogStoreAssumption, <2>4, ModSum
    <3>2. (Start + (Used - got + i - 1)) % Size
            = IF Start + (Used - got + i - 1) < Size THEN Start + (Used - got + i - 1)
              ELSE Start + (Used - got + i - 1) - Size
      BY ONLY LogStoreAssumption, <2>1, <2>3, ModSum
    <3> QED
      BY <1>3, <1>4, <2>2, <2>3, <2>4, <3>1, <3>2
  <2>6. Contents[Used - got + i] = buffer[(Start + (Used - got + i - 1)) % Size]
    BY <1>2, <1>3, <1>4, <2>3
  <2> QED
    BY <2>5, <2>6
<1> HIDE DEF nth, got
<1>7. CASE Used <= n - 1
  <2>1. got = Used
    BY <1>4, <1>7
  <2>2. \A i \in 1 .. Used : nth(i) = Contents[i] /\ Contents[i] \in Byte
    <3> TAKE i \in 1 .. Used
    <3>1. i \in 1 .. got /\ Used - got + i = i
      BY <1>3, <2>1
    <3>2. nth(i) = Contents[i]
      BY <1>6, <3>1
    <3>3. Contents[i] \in Byte
      BY <1>2, ElementOfSeq
    <3> QED
      BY <3>2, <3>3
  <2>3. out' = [i \in 1 .. Used |-> Contents[i]]
    BY <1>5, <2>1, <2>2
  <2>4. out' \in Seq(Byte) /\ Len(out') = Used /\ \A i \in 1 .. Used : out'[i] = Contents[i]
    BY <1>3, <2>2, <2>3, IsASeq
  <2>5. out' = Contents
    BY <1>2, <2>4, SeqEqual
  <2> QED
    BY <1>1, <1>2, <1>7, <2>5 DEF Log!Last
<1>8. CASE ~(Used <= n - 1)
  <2>1. got = n - 1
    BY <1>4, <1>8
  <2>2. \A i \in 1 .. n - 1 : nth(i) = Contents[Used - (n - 1) + i]
    BY <1>6, <2>1
  <2>3. out' = [i \in 1 .. n - 1 |-> Contents[Used - (n - 1) + i]]
    BY <1>5, <2>1, <2>2
  <2> QED
    BY <1>1, <1>2, <1>8, <2>3 DEF Log!Last
<1> QED
  BY <1>7, <1>8

LEMMA EmptyIsKept ==
  RingInit => EndOf(Taken) = <<>>
<1> SUFFICES ASSUME RingInit
             PROVE  EndOf(Taken) = <<>>
  OBVIOUS
<1>1. RingTypeOK
  <2>1. <<>> \in Seq(Byte) /\ 0 \in Offset
    BY EmptySeq DEF Offset
  <2> QED
    BY <2>1 DEF RingInit, RingTypeOK
<1>2. EndOf(Taken) = Contents
  BY <1>1, KeptAtRest DEF RingInit
<1>3. Contents \in Seq(Byte) /\ Len(Contents) = 0
  BY <1>1, ContentsShape DEF RingInit, Used
<1> QED
  BY <1>2, <1>3, EmptySeq

(* A step of the ring is a step of the log, or none. *)
LEMMA StepImplements ==
  ASSUME RingTypeOK, RingTypeOK', [RingStep \/ RingReset]_ringVars
  PROVE  [Log!LastNext]_(Log!lastVars)
<1>1. ASSUME NEW line \in Line, Vprintf(line) PROVE Log!LastNext
  <2>1. out' = out
    BY <1>1 DEF Vprintf
  <2>2. Log!Add(Stored(line))
    BY <1>1, <2>1, VprintfAdds DEF Log!Add
  <2> QED
    BY <2>2 DEF Log!LastNext
<1>2. CASE StoreByte
  BY <1>2, StoreByteStutters DEF Log!lastVars
<1>3. ASSUME NEW n \in OutLen, LogStoreCopy(n) PROVE Log!LastNext
  <2>1. EndOf(Taken)' = EndOf(Taken)
    BY <1>3 DEF LogStoreCopy, Taken, Contents, Used, Start
  <2>2. n \in OutLen \ {0}
    BY <1>3 DEF LogStoreCopy
  <2>3. Log!Copy(n - 1)
    BY <1>3, <2>1, CopyIsEnd DEF Log!Copy
  <2> QED
    BY <2>2, <2>3 DEF Log!LastNext
<1>4. CASE RingReset
  <2>1. RingInit'
    BY <1>4 DEF RingReset, RingInit
  <2>2. (EndOf(Taken) = <<>>)'
    BY <2>1, EmptyIsKept, PTL
  <2> QED
    BY <1>4, <2>2 DEF RingReset, Log!LastNext, Log!Restart
<1>5. CASE UNCHANGED ringVars
  BY <1>5 DEF ringVars, Taken, Contents, Used, Start, Log!lastVars
<1> QED
  BY <1>1, <1>2, <1>3, <1>4, <1>5 DEF RingStep

(* ImplementsLastBytes: for every size of the ring, whatever tasks log and *)
(* copy, the ring of log_store.c is a log of its last bytes to which whole *)
(* lines are added.                                                        *)
THEOREM RingImplementsLastBytes == RingSpec => ImplementsLastBytes
<1>1. RingInit => Log!LastInit
  BY EmptyIsKept DEF RingInit, Log!LastInit
<1>2. RingTypeOK /\ RingTypeOK' /\ [RingStep \/ RingReset]_ringVars
        => [Log!LastNext]_(Log!lastVars)
  BY StepImplements
<1> QED
  BY <1>1, <1>2, RingTypeCorrect, PTL DEF RingSpec, ImplementsLastBytes, Log!LastSpec

-----------------------------------------------------------------------------
(* The firmware update *)

HIDE LogStoreAssumption
USE OtaAssumption

(* The slot that is written is not the one that runs. *)
UploadIsElsewhere ==
  upload # NoUpload =>
    /\ upload.at \in {"write", "boot", "answer"}
    /\ upload.image \in Image
    /\ upload.slot = NextUpdatePartition
    /\ upload.at \in {"write", "boot"} /\ upload.slot = boot => clobbered
    /\ upload.at = "write" /\ upload.written = Chunks => flash[upload.slot] = upload.image
    /\ upload.at = "boot" => flash[upload.slot] = upload.image /\ upload.image \in Whole

(* What the bootloader would start is what was chosen: the partition to    *)
(* boot holds it, or is broken and the device runs from the next one that  *)
(* the bootloader tries.                                                   *)
StartIsKnown ==
  ~clobbered => \/ flash[boot] \in Whole /\ flash[boot] = chosen
                \/ /\ flash[boot] \notin Whole
                   /\ running = Tried[2]
                   /\ upload = NoUpload
                   /\ flash[running] = chosen

OtaInv ==
  /\ OtaTypeOK
  /\ flash["factory"] \in Whole
  /\ RunningIsWhole
  /\ boot = "ota_1" => running # "factory"
  /\ UploadIsElsewhere
  /\ StartIsKnown

LEMMA Partitions ==
  /\ Partition = {"ota_0", "ota_1", "factory"}
  /\ NextUpdatePartition \in {"ota_0", "ota_1"}
  /\ NextUpdatePartition # running
  /\ NextUpdatePartition = "ota_1" => running = "ota_0"
BY DEF Partition, Slot, NextUpdatePartition

LEMMA NoUploadType ==
  /\ NoUpload \in [at : {"idle", "write", "boot", "answer"}, image : Image \cup {Broken},
                   slot : Partition, written : 0 .. Chunks]
  /\ NoUpload.at = "idle"
BY DEF NoUpload, Partition

(* What the bootloader starts *)
LEMMA Started ==
  ASSUME OtaInv, OtaReset
  PROVE  /\ running' \in Partition /\ flash[running'] \in Whole
         /\ flash[boot] \in Whole => running' = boot
         /\ flash[boot] \notin Whole => running' = Tried[2]
         /\ chosen' = flash[running']
<1>1. PICK i \in 1 .. 3 : Bootable(i) /\ running' = Tried[i] /\ chosen' = flash[Tried[i]]
  BY DEF OtaReset
<1>2. boot \in {"ota_0", "ota_1", "factory"}
  BY Partitions DEF OtaInv, OtaTypeOK
<1>3. /\ Tried[1] = boot
      /\ Tried[1] \in Partition /\ Tried[2] \in Partition /\ Tried[3] \in Partition
  BY <1>2 DEF Tried, Partition, Slot
<1>4. flash[boot] \notin Whole => flash[Tried[2]] \in Whole
  <2>1. CASE boot = "factory"
    BY <2>1 DEF OtaInv
  <2>2. CASE boot = "ota_0"
    BY <2>2 DEF Tried, OtaInv
  <2>3. CASE boot = "ota_1"
    BY <2>3 DEF Tried, OtaInv, RunningIsWhole, OtaTypeOK, Partition, Slot
  <2> QED
    BY <1>2, <2>1, <2>2, <2>3
<1>5. i = 1 \/ i = 2 \/ i = 3
  OBVIOUS
<1>6. flash[Tried[i]] \in Whole /\ \A j \in 1 .. i - 1 : flash[Tried[j]] \notin Whole
  BY <1>1 DEF Bootable
<1>7. CASE i = 1
  BY <1>1, <1>3, <1>6, <1>7
<1>8. CASE i = 2
  BY <1>1, <1>3, <1>6, <1>8
<1>9. CASE i = 3
  BY <1>3, <1>4, <1>6, <1>9
<1> QED
  BY <1>5, <1>7, <1>8, <1>9

LEMMA InitOtaInv ==
  OtaInit => OtaInv
<1> SUFFICES ASSUME OtaInit PROVE OtaInv
  OBVIOUS
<1>1. Shipped \in Image /\ "factory" \in Partition
  BY DEF Partition
<1>2. OtaTypeOK
  BY <1>1, NoUploadType DEF OtaInit, OtaTypeOK
<1>3. flash["factory"] = Shipped
  BY <1>1 DEF OtaInit
<1> QED
  BY <1>2, <1>3 DEF OtaInit, OtaInv, RunningIsWhole, UploadIsElsewhere, StartIsKnown

LEMMA StepOtaTypeOK ==
  ASSUME OtaInv, [OtaStep \/ OtaReset]_otaVars
  PROVE  OtaTypeOK'
<1> USE DEF OtaTypeOK
<1>1. OtaTypeOK /\ UploadIsElsewhere
  BY DEF OtaInv
<1>2. ASSUME NEW i \in Image, OtaBegin(i) PROVE OtaTypeOK'
  <2>1. NextUpdatePartition \in Partition
    BY Partitions
  <2>2. [at |-> "write", image |-> i, slot |-> NextUpdatePartition, written |-> 0]
          \in [at : {"idle", "write", "boot", "answer"}, image : Image \cup {Broken},
               slot : Partition, written : 0 .. Chunks]
    BY <2>1
  <2> QED
    BY <1>1, <1>2, <2>1, <2>2 DEF OtaBegin
<1>3. CASE OtaWrite
  <2>1. [upload EXCEPT !.written = @ + 1]
          \in [at : {"idle", "write", "boot", "answer"}, image : Image \cup {Broken},
               slot : Partition, written : 0 .. Chunks]
    BY <1>1, <1>3 DEF OtaWrite
  <2> QED
    BY <1>1, <1>3, <2>1 DEF OtaWrite
<1>4. CASE OtaAbort \/ SetBootFails \/ Answer
  BY <1>1, <1>4, NoUploadType DEF OtaAbort, SetBootFails, Answer
<1>5. CASE OtaEnd
  BY <1>1, <1>5, NoUploadType DEF OtaEnd
<1>6. CASE SetBootPartition
  <2>1. upload # NoUpload /\ upload.image \in Image /\ upload.slot \in Partition
    BY <1>1, <1>6, NoUploadType DEF SetBootPartition, UploadIsElsewhere
  <2> QED
    BY <1>1, <1>6, <2>1 DEF SetBootPartition
<1>7. CASE OtaReset
  BY <1>1, <1>7, Started, NoUploadType DEF OtaReset
<1>8. CASE UNCHANGED otaVars
  BY <1>1, <1>8 DEF otaVars
<1> QED
  BY <1>2, <1>3, <1>4, <1>5, <1>6, <1>7, <1>8 DEF OtaStep

LEMMA StepOtaInv ==
  OtaInv /\ [OtaStep \/ OtaReset]_otaVars => OtaInv'
<1> SUFFICES ASSUME OtaInv, [OtaStep \/ OtaReset]_otaVars PROVE OtaInv'
  OBVIOUS
<1> USE DEF RunningIsWhole
<1>1. /\ OtaTypeOK /\ OtaTypeOK' /\ flash["factory"] \in Whole /\ flash[running] \in Whole
      /\ boot = "ota_1" => running # "factory"
      /\ UploadIsElsewhere /\ StartIsKnown
  BY StepOtaTypeOK DEF OtaInv
<1>2. boot \in Partition /\ running \in Partition /\ flash \in [Partition -> Image \cup {Broken}]
  BY <1>1 DEF OtaTypeOK
(* A step that starts nothing and chooses nothing *)
<1>3. ASSUME NEW s \in {"ota_0", "ota_1"}, s = NextUpdatePartition,
             \A p \in Partition \ {s} : flash'[p] = flash[p],
             UNCHANGED <<boot, running, chosen>>,
             UploadIsElsewhere',
             clobbered => clobbered',
             s = boot /\ flash'[s] # flash[s] => clobbered',
             upload' # NoUpload => upload # NoUpload \/ boot # s \/ clobbered'
      PROVE  OtaInv'
  <2>1. flash'["factory"] \in Whole /\ flash'[running'] \in Whole
    BY <1>1, <1>2, <1>3, Partitions
  <2>2. NextUpdatePartition' = NextUpdatePartition /\ Tried' = Tried
    BY <1>3 DEF NextUpdatePartition, Tried
  <2>3. StartIsKnown'
    <3> SUFFICES ASSUME ~clobbered'
                 PROVE  \/ flash'[boot] \in Whole /\ flash'[boot] = chosen
                        \/ /\ flash'[boot] \notin Whole
                           /\ running = Tried[2]
                           /\ upload' = NoUpload
                           /\ flash'[running] = chosen
      BY <1>3, <2>2 DEF StartIsKnown
    <3>1. flash'[boot] = flash[boot]
      BY <1>2, <1>3
    <3>2. flash'[running] = flash[running]
      BY <1>2, <1>3, Partitions
    <3>3. CASE flash[boot] \in Whole /\ flash[boot] = chosen
      BY <3>1, <3>3
    <3>4. CASE /\ flash[boot] \notin Whole
               /\ running = Tried[2]
               /\ upload = NoUpload
               /\ flash[running] = chosen
      <4>1. boot = s
        BY <1>1, <1>2, <1>3, <3>4, Partitions DEF Tried, NextUpdatePartition
      <4> QED
        BY <1>3, <3>1, <3>2, <3>4, <4>1
    <3> QED
      BY <1>1, <1>3, <3>3, <3>4 DEF StartIsKnown
  <2> QED
    BY <1>1, <1>3, <2>1, <2>3 DEF OtaInv
<1>4. ASSUME NEW i \in Image, OtaBegin(i) PROVE OtaInv'
  <2>1. \A p \in Partition \ {NextUpdatePartition} : flash'[p] = flash[p]
    BY <1>2, <1>4 DEF OtaBegin
  <2>2. NextUpdatePartition' = NextUpdatePartition /\ boot' = boot
    BY <1>4 DEF OtaBegin, NextUpdatePartition
  <2>3. clobbered' = (clobbered \/ boot = NextUpdatePartition)
    BY <1>4 DEF OtaBegin
  <2>4. upload = NoUpload
    BY <1>1, <1>4 DEF OtaBegin, UploadIsElsewhere
  <2>5. UploadIsElsewhere'
    <3>1. CASE upload' = NoUpload
      BY <3>1 DEF UploadIsElsewhere, NoUpload
    <3>2. CASE upload' = [at |-> "write", image |-> i,
                          slot |-> NextUpdatePartition, written |-> 0]
      BY <2>2, <2>3, <3>2 DEF UploadIsElsewhere
    <3> QED
      BY <1>4, <2>4, <3>1, <3>2 DEF OtaBegin
  <2> QED
    BY <1>3, <1>4, <2>1, <2>3, <2>5, Partitions DEF OtaBegin
<1>5. CASE OtaWrite
  <2>1. /\ upload # NoUpload /\ upload.at = "write"
        /\ upload.slot = NextUpdatePartition /\ upload.image \in Image
        /\ upload.slot = boot => clobbered
    BY <1>1, <1>5, NoUploadType DEF OtaWrite, UploadIsElsewhere
  <2>2. /\ UNCHANGED <<boot, running, chosen, clobbered>>
        /\ \A p \in Partition \ {NextUpdatePartition} : flash'[p] = flash[p]
    BY <1>2, <1>5, <2>1 DEF OtaWrite
  <2>3. /\ upload'.at = "write" /\ upload'.slot = upload.slot
        /\ upload'.image = upload.image
    BY <1>1, <1>5, <2>1 DEF OtaWrite, OtaTypeOK
  <2>4. NextUpdatePartition' = NextUpdatePartition
    BY <2>2 DEF NextUpdatePartition
  <2>5. upload'.written = Chunks => flash'[upload'.slot] = upload'.image
    <3>1. upload'.written = upload.written + 1
      BY <1>1, <1>5 DEF OtaWrite, OtaTypeOK
    <3>2. upload.written + 1 = Chunks => flash' = [flash EXCEPT ![upload.slot] = upload.image]
      BY <1>5 DEF OtaWrite
    <3>3. upload.slot \in Partition
      BY <2>1, Partitions
    <3> QED
      BY <1>2, <2>3, <3>1, <3>2, <3>3
  <2>6. UploadIsElsewhere'
    BY <2>1, <2>2, <2>3, <2>4, <2>5 DEF UploadIsElsewhere
  <2> QED
    BY <1>3, <2>1, <2>2, <2>6, Partitions
<1>6. CASE OtaAbort \/ SetBootFails \/ Answer
  <2>1. UNCHANGED <<flash, boot, running, chosen, clobbered>> /\ upload' = NoUpload
    BY <1>6 DEF OtaAbort, SetBootFails, Answer
  <2>2. UploadIsElsewhere'
    BY <2>1 DEF UploadIsElsewhere, NoUpload
  <2> QED
    BY <1>3, <2>1, <2>2, Partitions
<1>7. CASE OtaEnd
  <2>1. UNCHANGED <<flash, boot, running, chosen, clobbered>>
    BY <1>7 DEF OtaEnd
  <2>2. /\ upload # NoUpload /\ upload.slot = NextUpdatePartition
        /\ upload.image \in Image /\ upload.slot = boot => clobbered
    BY <1>1, <1>7, NoUploadType DEF OtaEnd, UploadIsElsewhere
  <2>3. NextUpdatePartition' = NextUpdatePartition
    BY <2>1 DEF NextUpdatePartition
  <2>4. CASE flash[upload.slot] \in Whole
    <3>1. /\ upload.slot = boot => clobbered
          /\ flash[upload.slot] = upload.image
      BY <1>1, <1>7, <2>2 DEF OtaEnd, UploadIsElsewhere
    <3>2. upload' = [upload EXCEPT !.at = "boot"]
      BY <1>7, <2>4 DEF OtaEnd
    <3>3. /\ upload'.at = "boot" /\ upload'.slot = upload.slot
          /\ upload'.image = upload.image
      BY <1>1, <3>2 DEF OtaTypeOK
    <3>4. UploadIsElsewhere'
      BY <2>1, <2>2, <2>3, <2>4, <3>1, <3>3 DEF UploadIsElsewhere
    <3> QED
      BY <1>3, <2>1, <2>2, <3>4, Partitions
  <2>5. CASE flash[upload.slot] \notin Whole
    <3>1. upload' = NoUpload
      BY <1>7, <2>5 DEF OtaEnd
    <3>2. UploadIsElsewhere'
      BY <3>1 DEF UploadIsElsewhere, NoUpload
    <3> QED
      BY <1>3, <2>1, <2>2, <3>2, Partitions
  <2> QED
    BY <2>4, <2>5
<1>8. CASE SetBootPartition
  <2>1. /\ upload # NoUpload /\ upload.slot = NextUpdatePartition
        /\ upload.image \in Whole /\ flash[upload.slot] = upload.image
    BY <1>1, <1>8, NoUploadType DEF SetBootPartition, UploadIsElsewhere
  <2>2. /\ boot' = upload.slot /\ chosen' = upload.image
        /\ UNCHANGED <<flash, running>>
        /\ upload' = [upload EXCEPT !.at = "answer"]
    BY <1>8 DEF SetBootPartition
  <2>3. /\ upload'.at = "answer" /\ upload'.slot = upload.slot
        /\ upload'.image = upload.image
    BY <1>1, <2>2 DEF OtaTypeOK
  <2>4. NextUpdatePartition' = NextUpdatePartition
    BY <2>2 DEF NextUpdatePartition
  <2>5. UploadIsElsewhere'
    BY <2>1, <2>3, <2>4 DEF UploadIsElsewhere
  <2>6. StartIsKnown'
    BY <2>1, <2>2 DEF StartIsKnown
  <2>7. boot' = "ota_1" => running' # "factory"
    BY <2>1, <2>2, Partitions
  <2> QED
    BY <1>1, <2>2, <2>5, <2>6, <2>7 DEF OtaInv
<1>9. CASE OtaReset
  <2>1. /\ UNCHANGED <<flash, boot>> /\ upload' = NoUpload
    BY <1>9 DEF OtaReset
  <2>2. /\ flash[running'] \in Whole /\ chosen' = flash[running']
        /\ flash[boot] \in Whole => running' = boot
        /\ flash[boot] \notin Whole => running' = Tried[2]
    BY <1>9, Started
  <2>3. UploadIsElsewhere'
    BY <2>1 DEF UploadIsElsewhere, NoUpload
  <2>4. StartIsKnown'
    <3>1. Tried' = Tried
      BY <2>1 DEF Tried
    <3> QED
      BY <2>1, <2>2, <3>1 DEF StartIsKnown
  <2>5. boot' = "ota_1" => running' # "factory"
    BY <2>1, <2>2 DEF Tried
  <2> QED
    BY <1>1, <2>1, <2>2, <2>3, <2>4, <2>5 DEF OtaInv
<1>10. CASE UNCHANGED otaVars
  BY <1>1, <1>10
     DEF otaVars, OtaInv, UploadIsElsewhere, StartIsKnown, NextUpdatePartition, Tried
<1> QED
  BY <1>4, <1>5, <1>6, <1>7, <1>8, <1>9, <1>10 DEF OtaStep

(* In every state, the next start brings what was chosen. *)
LEMMA StepStartIsChosen ==
  OtaInv /\ OtaReset => flash[running'] = chosen \/ clobbered
<1> SUFFICES ASSUME OtaInv, OtaReset, ~clobbered
             PROVE  flash[running'] = chosen
  OBVIOUS
<1>1. /\ flash[boot] \in Whole => running' = boot
      /\ flash[boot] \notin Whole => running' = Tried[2]
  BY Started
<1> QED
  BY <1>1 DEF OtaInv, StartIsKnown

LEMMA OtaInvariant == OtaSpec => []OtaInv
BY InitOtaInv, StepOtaInv, PTL DEF OtaSpec

(* The variables keep their types. *)
THEOREM OtaTypeCorrect == OtaSpec => []OtaTypeOK
<1>1. OtaInv => OtaTypeOK
  BY DEF OtaInv
<1> QED
  BY <1>1, OtaInvariant, PTL

(* RunningIsWhole: whatever uploads, failures and restarts there are, and  *)
(* with however many chunks an image has, the slot that is erased and      *)
(* written is never the one the device runs from.                          *)
THEOREM RunningIsKept == OtaSpec => []RunningIsWhole
<1>1. OtaInv => RunningIsWhole
  BY DEF OtaInv
<1> QED
  BY <1>1, OtaInvariant, PTL

(* StartsChosen: every start brings the image of the last upload that      *)
(* succeeded, or the one that ran, unless a later upload has overwritten   *)
(* it before the restart.                                                  *)
THEOREM StartIsChosen == OtaSpec => StartsChosen
<1>1. OtaInv /\ [OtaStep \/ OtaReset]_otaVars
        => [OtaReset => flash[running'] = chosen \/ clobbered]_otaVars
  BY StepStartIsChosen
<1> QED
  BY <1>1, OtaInvariant, PTL DEF OtaSpec, StartsChosen

-----------------------------------------------------------------------------
(* The persistent log *)

HIDE LogStoreAssumption

(* Induction over the numbers, as a statement about sets.                  *)
LEMMA LessIsWellFounded ==
  IsWellFoundedOn({ss \in Nat \X Nat : ss[1] < ss[2]}, Nat)
BY NatLessThanWellFounded DEF OpToRel

LEMMA SetInduction ==
  ASSUME NEW S, 0 \in S, \A n \in Nat : n \in S => n + 1 \in S
  PROVE  Nat \subseteq S
<1> DEFINE R == {ss \in Nat \X Nat : ss[1] < ss[2]}
           T == Nat \ S
<1>1. SUFFICES ASSUME T # {} PROVE FALSE
  OBVIOUS
<1>2. IsWellFoundedOn(R, Nat)
  BY LessIsWellFounded
<1>3. T \subseteq Nat
  OBVIOUS
<1> HIDE DEF R, T
<1>4. PICK m \in T : \A k \in T : ~ (<<k, m>> \in R)
  BY <1>1, <1>2, <1>3, WFMin
<1> USE DEF R, T
<1>5. m # 0 /\ m - 1 \in Nat
  OBVIOUS
<1>6. m - 1 \in T
  BY <1>5
<1>7. <<m - 1, m>> \in R
  BY <1>5
<1> QED BY <1>4, <1>6, <1>7

(* The size of a file, write by write.                                     *)
Sized(file, upTo) ==
  upTo = [i \in 0 .. Len(file) |-> IF i = 0 THEN 0 ELSE upTo[i - 1] + file[i].len]

LEMMA SizeRuns ==
  ASSUME NEW file, Len(file) \in Nat
  PROVE  \E upTo : Sized(file, upTo) /\ SizeOf(file) = upTo[Len(file)]
<1> DEFINE V(size, i) == size + file[i].len
           Runs(n, run) == run = [i \in 0 .. n |-> IF i = 0 THEN 0 ELSE V(run[i - 1], i)]
           S == {n \in Nat : \E run : Runs(n, run)}
<1> HIDE DEF V
<1>1. 0 \in S
  <2>1. Runs(0, [i \in 0 .. 0 |-> 0])
    OBVIOUS
  <2> QED BY <2>1
<1>2. ASSUME NEW n \in Nat, n \in S PROVE n + 1 \in S
  <2>1. PICK old : Runs(n, old)
    BY <1>2
  <2> DEFINE new == [i \in 0 .. n + 1 |-> IF i = n + 1 THEN V(old[n], n + 1) ELSE old[i]]
  <2>2. \A i \in 0 .. n + 1 : new[i] = IF i = 0 THEN 0 ELSE V(new[i - 1], i)
    BY <2>1
  <2>3. Runs(n + 1, new)
    BY <2>2
  <2>4. \E run : Runs(n + 1, run)
    <3> HIDE DEF new, Runs
    <3> QED BY <2>3
  <2> QED BY <2>4
<1>3. Nat \subseteq S
  <2> HIDE DEF S
  <2> QED BY <1>1, <1>2, SetInduction
<1>4. \E run : Runs(Len(file), run)
  BY <1>3
<1> DEFINE upTo[i \in 0 .. Len(file)] == IF i = 0 THEN 0 ELSE upTo[i - 1] + file[i].len
<1>5. SizeOf(file) = upTo[Len(file)]
  BY DEF SizeOf
<1>6. Runs(Len(file), upTo)
  BY <1>4 DEF V
<1>7. Sized(file, upTo)
  BY <1>6 DEF V, Sized
<1> QED BY <1>5, <1>7

LEMMA SizeOfEmpty == SizeOf(<<>>) = 0
<1>1. Len(<<>>) = 0
  OBVIOUS
<1>2. PICK upTo : Sized(<<>>, upTo) /\ SizeOf(<<>>) = upTo[Len(<<>>)]
  BY <1>1, SizeRuns
<1> QED BY <1>1, <1>2 DEF Sized

LEMMA SizeOfAppend ==
  ASSUME NEW file \in Seq(Piece), NEW p \in Piece
  PROVE  SizeOf(Append(file, p)) = SizeOf(file) + p.len
<1> DEFINE more == Append(file, p)
           n == Len(file)
<1>1. /\ n \in Nat /\ Len(more) = n + 1 /\ more[n + 1] = p
      /\ \A i \in 1 .. n : more[i] = file[i]
  BY LenProperties, AppendProperties
<1>2. PICK old : Sized(file, old) /\ SizeOf(file) = old[n]
  BY <1>1, SizeRuns
<1>3. PICK new : Sized(more, new) /\ SizeOf(more) = new[n + 1]
  <2> HIDE DEF more
  <2>1. Len(more) \in Nat
    BY <1>1
  <2>2. \E upTo : Sized(more, upTo) /\ SizeOf(more) = upTo[Len(more)]
    BY <2>1, SizeRuns
  <2> QED BY <1>1, <2>2
<1> DEFINE S == {i \in Nat : i <= n => new[i] = old[i]}
<1> HIDE DEF more, n
<1>4. 0 \in S
  BY <1>1, <1>2, <1>3 DEF Sized, n
<1>5. ASSUME NEW i \in Nat, i \in S PROVE i + 1 \in S
  <2>1. SUFFICES ASSUME i + 1 <= n PROVE new[i + 1] = old[i + 1]
    OBVIOUS
  <2>2. new[i] = old[i] /\ more[i + 1] = file[i + 1]
    BY <1>1, <1>5, <2>1
  <2>3. new[i + 1] = new[(i + 1) - 1] + more[i + 1].len
    <3>1. i + 1 \in 0 .. Len(more) /\ i + 1 # 0
      BY <1>1, <2>1
    <3> QED BY <1>3, <3>1 DEF Sized
  <2>4. old[i + 1] = old[(i + 1) - 1] + file[i + 1].len
    BY <1>1, <1>2, <2>1 DEF Sized, n
  <2>5. (i + 1) - 1 = i
    OBVIOUS
  <2> QED BY <2>2, <2>3, <2>4, <2>5
<1>6. n \in S
  <2> HIDE DEF S
  <2> QED BY <1>1, <1>4, <1>5, SetInduction
<1>7. new[n] = old[n]
  BY <1>1, <1>6
<1>8. new[n + 1] = new[(n + 1) - 1] + more[n + 1].len
  BY <1>1, <1>3 DEF Sized
<1>9. (n + 1) - 1 = n
  BY <1>1
<1> QED BY <1>1, <1>2, <1>3, <1>7, <1>8, <1>9 DEF more

LEMMA SizeOfType ==
  ASSUME NEW file \in Seq(Piece)
  PROVE  SizeOf(file) \in Nat
<1> DEFINE n == Len(file)
           S == {i \in Nat : i <= n => \A upTo : Sized(file, upTo) => upTo[i] \in Nat}
<1>1. n \in Nat /\ \A i \in 1 .. n : file[i].len \in Nat
  <2>1. \A i \in 1 .. n : file[i] \in Piece
    OBVIOUS
  <2> QED BY <2>1, LenProperties DEF Piece
<1> HIDE DEF n
<1>2. 0 \in S
  BY <1>1 DEF Sized, n
<1>3. ASSUME NEW i \in Nat, i \in S PROVE i + 1 \in S
  <2>1. SUFFICES ASSUME i + 1 <= n, NEW upTo, Sized(file, upTo)
                 PROVE  upTo[i + 1] \in Nat
    OBVIOUS
  <2>2. upTo[i] \in Nat /\ file[i + 1].len \in Nat /\ (i + 1) - 1 = i
    BY <1>1, <1>3, <2>1
  <2>3. upTo[i + 1] = upTo[(i + 1) - 1] + file[i + 1].len
    BY <1>1, <2>1 DEF Sized, n
  <2> QED BY <2>2, <2>3
<1>4. n \in S
  <2> HIDE DEF S
  <2> QED BY <1>1, <1>2, <1>3, SetInduction
<1>5. PICK upTo : Sized(file, upTo) /\ SizeOf(file) = upTo[n]
  BY <1>1, SizeRuns DEF n
<1> QED BY <1>1, <1>4, <1>5


USE PersistentLogAssumption

(* The longest line is one, and fits a file. *)
LEMMA LongestIs ==
  /\ Longest \in LineLen
  /\ \A m \in LineLen : m <= Longest
  /\ Longest \in 1 .. MaxBytes
BY DEF Longest

LEMMA InitFilesInv == FilesInit => FilesInv
<1> SUFFICES ASSUME FilesInit PROVE FilesInv
  OBVIOUS
<1>1. FilesTypeOK
  <2>1. /\ at \in [Logger -> {"idle", "take", "rotate", "remove", "rename", "append"}]
        /\ len \in [Logger -> Nat]
    BY DEF FilesInit
  <2>2. current \in Seq(Piece) /\ previous \in Seq(Piece)
    BY EmptySeq DEF FilesInit
  <2>3. lines \in 0 .. MaxLines /\ total \in 0 .. MaxBytes
    BY DEF FilesInit
  <2> QED BY <2>1, <2>2, <2>3 DEF FilesInit, FilesTypeOK
<1>2. WorkerHasMutex /\ FullBeforeRemove /\ RoomForLine
  BY DEF FilesInit, WorkerHasMutex, FullBeforeRemove, RoomForLine, Working
<1>3. Kept = <<>> /\ SizeOf(Kept) = 0 /\ Len(Kept) = 0
  BY SizeOfEmpty DEF FilesInit, Kept
<1>4. NewestAreKept
  BY <1>3, LongestIs DEF FilesInit, NewestAreKept, UpTo
<1>5. FilesAreBounded
  BY SizeOfEmpty DEF FilesInit, FilesAreBounded
<1> QED BY <1>1, <1>2, <1>4, <1>5 DEF FilesInv

(* What a write does to the two files. *)
LEMMA WriteKeeps ==
  ASSUME FilesInv, NEW n \in 1 .. MaxBytes, NEW w \in BOOLEAN,
         Write(n, w), previous' = previous
  PROVE  /\ current' \in Seq(Piece) /\ lines' \in 0 .. MaxLines /\ total' \in 0 .. MaxBytes
         /\ SizeOf(current') = SizeOf(current) + n
         /\ NewestAreKept'
<1> DEFINE p == [line |-> lines + 1, len |-> n, whole |-> w]
<1>1. /\ current \in Seq(Piece) /\ previous \in Seq(Piece)
      /\ lines \in 0 .. MaxLines /\ total \in 0 .. MaxBytes
      /\ lines < MaxLines
  BY DEF FilesInv, FilesTypeOK, Write
<1>2. p \in Piece
  BY <1>1 DEF Piece
<1>3. /\ lines' = lines + 1 /\ total' = UpTo(total + n, MaxBytes)
      /\ current' = Append(current, p)
  BY DEF Write
<1> HIDE DEF p
<1>4. current' \in Seq(Piece)
  BY <1>1, <1>2, <1>3
<1>5. SizeOf(current') = SizeOf(current) + n
  BY <1>1, <1>2, <1>3, SizeOfAppend DEF p
<1>6. Kept \in Seq(Piece) /\ Kept' = Append(Kept, p)
  <2>1. Kept \in Seq(Piece)
    BY <1>1 DEF Kept
  <2>2. previous \o Append(current, p) = Append(previous \o current, p)
    BY <1>1, <1>2
  <2> QED BY <1>3, <2>1, <2>2 DEF Kept
<1>7. NewestAreKept'
  <2> DEFINE k == Len(Kept)
  <2>1. /\ k \in Nat /\ Len(Kept') = k + 1 /\ Kept'[k + 1] = p
        /\ \A i \in 1 .. k : Kept'[i] = Kept[i]
    BY <1>2, <1>6, LenProperties, AppendProperties
  <2>2. /\ \A i \in 1 .. k : Kept[i].line = lines - k + i
        /\ SizeOf(Kept) >= UpTo(total, MaxBytes - Longest + 1)
    BY DEF FilesInv, NewestAreKept
  <2> HIDE DEF k
  <2>3. ASSUME NEW i \in 1 .. k + 1 PROVE Kept'[i].line = lines' - (k + 1) + i
    <3>1. CASE i \in 1 .. k
      <4>1. Kept[i].line = lines - k + i
        BY <2>2, <3>1
      <4> QED BY <1>1, <1>3, <2>1, <3>1, <4>1
    <3>2. CASE i = k + 1
      BY <1>1, <1>3, <2>1, <3>2 DEF p
    <3> QED BY <2>1, <3>1, <3>2
  <2>4. SizeOf(Kept') = SizeOf(Kept) + n
    BY <1>2, <1>6, SizeOfAppend DEF p
  <2>5. SizeOf(Kept') >= UpTo(total', MaxBytes - Longest + 1)
    <3>1. SizeOf(Kept) \in Nat
      BY <1>6, SizeOfType
    <3> QED BY <1>1, <1>3, <2>2, <2>4, <3>1, LongestIs DEF UpTo
  <2> QED BY <2>1, <2>3, <2>5 DEF NewestAreKept
<1>8. lines' \in 0 .. MaxLines /\ total' \in 0 .. MaxBytes
  BY <1>1, <1>3 DEF UpTo
<1> QED BY <1>4, <1>5, <1>7, <1>8

(* A formatted disk. *)
LEMMA EmptyKeeps ==
  ASSUME current' = <<>>, previous' = <<>>, lines' = 0, total' = 0
  PROVE  NewestAreKept' /\ FilesAreBounded'
<1>1. Kept' = <<>> /\ SizeOf(Kept') = 0 /\ Len(Kept') = 0
  BY SizeOfEmpty DEF Kept
<1>2. NewestAreKept'
  BY <1>1, LongestIs DEF NewestAreKept, UpTo
<1> QED BY <1>2, SizeOfEmpty DEF FilesAreBounded

(* The line in hand, and part of it. *)
LEMMA CutKeeps ==
  ASSUME FilesInv, NEW t \in Working, at[t] = "append",
         previous' = previous, stuck' = stuck,
         (Write(len[t], TRUE) /\ UNCHANGED stuck) \/ Cut(t)
         \/ UNCHANGED <<current, lines, total>>
  PROVE  /\ current' \in Seq(Piece) /\ lines' \in 0 .. MaxLines /\ total' \in 0 .. MaxBytes
         /\ NewestAreKept' /\ FilesAreBounded'
<1>1. /\ FilesTypeOK /\ FilesAreBounded /\ NewestAreKept
      /\ len[t] \in LineLen
      /\ ~stuck => SizeOf(current) + len[t] <= MaxBytes
  BY DEF FilesInv, WorkerHasMutex, RoomForLine
<1>2. SizeOf(current) \in Nat
  BY <1>1, SizeOfType DEF FilesTypeOK
<1>7. len[t] \in 1 .. MaxBytes
  BY <1>1
<1>3. CASE UNCHANGED <<current, lines, total>>
  BY <1>1, <1>3 DEF FilesTypeOK, FilesAreBounded, NewestAreKept, Kept
<1>4. ASSUME NEW n \in 1 .. MaxBytes, NEW w \in BOOLEAN, Write(n, w), n <= len[t]
      PROVE  /\ current' \in Seq(Piece) /\ lines' \in 0 .. MaxLines
             /\ total' \in 0 .. MaxBytes
             /\ NewestAreKept' /\ FilesAreBounded'
  <2>1. /\ current' \in Seq(Piece) /\ lines' \in 0 .. MaxLines /\ total' \in 0 .. MaxBytes
        /\ SizeOf(current') = SizeOf(current) + n
        /\ NewestAreKept'
    BY <1>4, WriteKeeps
  <2>2. FilesAreBounded'
    <3>1. SUFFICES ASSUME ~stuck
                   PROVE  SizeOf(current') <= MaxBytes /\ SizeOf(previous') <= MaxBytes
      BY DEF FilesAreBounded
    <3>2. SizeOf(previous) <= MaxBytes
      BY <1>1, <3>1 DEF FilesAreBounded
    <3>3. SizeOf(current) + n <= MaxBytes
      BY <1>1, <1>2, <1>4, <1>7, <3>1
    <3> QED BY <2>1, <3>2, <3>3
  <2> QED BY <2>1, <2>2
<1>5. CASE Write(len[t], TRUE)
  <2>1. len[t] <= len[t]
    BY <1>7
  <2> QED BY <1>4, <1>5, <1>7, <2>1
<1>6. CASE \E n \in 1 .. len[t] - 1 : Write(n, FALSE)
  <2>1. PICK n \in 1 .. len[t] - 1 : Write(n, FALSE)
    BY <1>6
  <2>2. n \in 1 .. MaxBytes /\ n <= len[t]
    BY <1>7
  <2> QED BY <1>4, <2>1, <2>2
<1> QED BY <1>3, <1>5, <1>6 DEF Cut

Places == {"idle", "take", "rotate", "remove", "rename", "append"}

(* The worker is alone, and stays so until it gives the mutex. *)
LEMMA WorkerIsAlone ==
  ASSUME FilesInv, NEW t \in Working
  PROVE  /\ Working = {t} /\ mutex = t /\ len[t] \in LineLen /\ mounted
         /\ t \in Logger /\ at \in [Logger -> Places] /\ len \in [Logger -> Nat]
BY DEF FilesInv, FilesTypeOK, WorkerHasMutex, Working, Places

LEMMA WorkerGoesOn ==
  ASSUME FilesInv, NEW t \in Logger, NEW from \in Places \ {"idle", "take"},
         NEW to \in Places \ {"idle", "take"}, Step(t, from, to),
         UNCHANGED <<mounted, mutex, len>>
  PROVE  /\ t \in Working /\ Working' = {t} /\ at'[t] = to /\ len[t] \in LineLen
         /\ len' = len /\ at' \in [Logger -> Places]
         /\ WorkerHasMutex'
<1>1. t \in Working
  BY DEF Step, Working, Places
<1>2. /\ Working = {t} /\ mutex = t /\ len[t] \in LineLen /\ mounted
      /\ at \in [Logger -> Places] /\ len \in [Logger -> Nat]
  BY <1>1, WorkerIsAlone
<1>3. at' = [at EXCEPT ![t] = to]
  BY DEF Step
<1>4. at' \in [Logger -> Places] /\ at'[t] = to
  BY <1>2, <1>3
<1>5. Working' = {t}
  BY <1>2, <1>3 DEF Working, Places
<1> QED BY <1>1, <1>2, <1>4, <1>5 DEF WorkerHasMutex

LEMMA WorkerLeaves ==
  ASSUME FilesInv, NEW t \in Working, Give(t), mounted' = mounted
  PROVE  /\ Working' = {} /\ at' \in [Logger -> Places] /\ len' \in [Logger -> Nat]
         /\ mutex' = Nobody
         /\ WorkerHasMutex' /\ FullBeforeRemove' /\ RoomForLine'
<1>1. /\ Working = {t} /\ mutex = t /\ mounted
      /\ at \in [Logger -> Places] /\ len \in [Logger -> Nat]
  BY WorkerIsAlone
<1>2. /\ at' = [at EXCEPT ![t] = "idle"] /\ len' = [len EXCEPT ![t] = 0]
      /\ mutex' = Nobody
  BY DEF Give, Return
<1>3. at' \in [Logger -> Places] /\ len' \in [Logger -> Nat]
  BY <1>1, <1>2 DEF Places
<1>4. Working' = {}
  BY <1>1, <1>2 DEF Working
<1> QED BY <1>1, <1>2, <1>3, <1>4 DEF WorkerHasMutex, FullBeforeRemove, RoomForLine

LEMMA StepFilesInv == FilesInv /\ [FilesStep \/ FilesReset]_fileVars => FilesInv'
<1> SUFFICES ASSUME FilesInv, [FilesStep \/ FilesReset]_fileVars PROVE FilesInv'
  OBVIOUS
<1>1. /\ mounted \in BOOLEAN /\ recent \in BOOLEAN /\ stuck \in BOOLEAN
      /\ mutex \in Logger \cup {Nobody}
      /\ at \in [Logger -> Places] /\ len \in [Logger -> Nat]
      /\ current \in Seq(Piece) /\ previous \in Seq(Piece)
      /\ lines \in 0 .. MaxLines /\ total \in 0 .. MaxBytes
      /\ WorkerHasMutex /\ FullBeforeRemove /\ RoomForLine
      /\ NewestAreKept /\ FilesAreBounded
  BY DEF FilesInv, FilesTypeOK, Places
<1>2. SizeOf(current) \in Nat /\ SizeOf(previous) \in Nat
  BY <1>1, SizeOfType
<1>3. ASSUME UNCHANGED <<files, counts>> PROVE NewestAreKept' /\ FilesAreBounded'
  BY <1>1, <1>3 DEF NewestAreKept, FilesAreBounded, Kept, files, counts
<1>4. ASSUME UNCHANGED <<mutex, len, mounted, files, counts>>, recent' \in BOOLEAN,
             at' \in [Logger -> Places], Working' = Working, mounted,
             \A t \in Working : at'[t] = at[t]
      PROVE  FilesInv'
  <2>1. FilesTypeOK'
    BY <1>1, <1>4 DEF FilesTypeOK, Places, files, counts
  <2>2. WorkerHasMutex' /\ FullBeforeRemove' /\ RoomForLine'
    BY <1>1, <1>4 DEF WorkerHasMutex, FullBeforeRemove, RoomForLine, files, counts
  <2> QED BY <1>3, <1>4, <2>1, <2>2 DEF FilesInv
<1>5. ASSUME Mount PROVE FilesInv'
  <2>1. PICK t \in Logger : at' = [at EXCEPT ![t] = "take"]
    BY <1>5 DEF Mount
  <2>2. mounted' = TRUE /\ UNCHANGED <<mutex, len, recent>> /\ ~mounted
    BY <1>5 DEF Mount
  <2>3. \A u \in Logger : at[u] = "idle"
    BY <1>1, <2>2 DEF WorkerHasMutex
  <2>4. at' \in [Logger -> Places] /\ Working' = {}
    BY <1>1, <2>1, <2>3 DEF Places, Working
  <2>5. \/ UNCHANGED <<files, counts>>
        \/ current' = <<>> /\ previous' = <<>> /\ lines' = 0 /\ total' = 0 /\ stuck' = FALSE
    BY <1>5 DEF Mount
  <2>6. NewestAreKept' /\ FilesAreBounded'
    BY <1>3, <2>5, EmptyKeeps
  <2>7. /\ current' \in Seq(Piece) /\ previous' \in Seq(Piece)
        /\ lines' \in 0 .. MaxLines /\ total' \in 0 .. MaxBytes /\ stuck' \in BOOLEAN
    <3>1. CASE UNCHANGED <<files, counts>>
      BY <1>1, <3>1 DEF files, counts
    <3>2. <<>> \in Seq(Piece) /\ 0 \in 0 .. MaxLines /\ 0 \in 0 .. MaxBytes
      BY EmptySeq
    <3> QED BY <2>5, <3>1, <3>2
  <2>8. FilesTypeOK'
    BY <1>1, <2>2, <2>4, <2>7 DEF FilesTypeOK, Places
  <2> QED BY <2>2, <2>4, <2>6, <2>8
          DEF FilesInv, WorkerHasMutex, FullBeforeRemove, RoomForLine
<1>6. ASSUME FiveSeconds PROVE FilesInv'
  <2>1. /\ UNCHANGED <<mounted, mutex, at, len, files, counts>> /\ recent' = FALSE
    BY <1>6 DEF FiveSeconds, callers
  <2>2. FilesTypeOK' /\ WorkerHasMutex' /\ FullBeforeRemove' /\ RoomForLine'
    BY <1>1, <2>1 DEF FilesTypeOK, Places, WorkerHasMutex, FullBeforeRemove, RoomForLine,
       Working, files, counts
  <2> QED BY <1>3, <2>1, <2>2 DEF FilesInv
<1>7. ASSUME NEW t \in Logger, LogEvent(t) \/ LogBikeData(t) PROVE FilesInv'
  <2>1. /\ at' = [at EXCEPT ![t] = "take"] /\ at[t] = "idle" /\ mounted
        /\ UNCHANGED <<mounted, mutex, len, files, counts>> /\ recent' \in BOOLEAN
    BY <1>1, <1>7 DEF LogEvent, LogBikeData, Event, Step
  <2>2. /\ at' \in [Logger -> Places] /\ Working' = Working
        /\ \A u \in Working : at'[u] = at[u]
    BY <1>1, <2>1 DEF Working, Places
  <2> QED BY <1>4, <2>1, <2>2
<1>8. ASSUME NEW t \in Logger, TimeOut(t) PROVE FilesInv'
  <2>1. /\ at' = [at EXCEPT ![t] = "idle"] /\ at[t] = "take"
        /\ len' = [len EXCEPT ![t] = 0]
        /\ UNCHANGED <<mounted, mutex, recent, files, counts>>
    BY <1>8 DEF TimeOut, Return
  <2>2. /\ at' \in [Logger -> Places] /\ Working' = Working
        /\ \A u \in Working : at'[u] = at[u] /\ len'[u] = len[u]
        /\ len' \in [Logger -> Nat] /\ mounted
    BY <1>1, <2>1 DEF Working, Places, WorkerHasMutex
  <2>3. FilesTypeOK'
    BY <1>1, <2>1, <2>2 DEF FilesTypeOK, Places, files, counts
  <2>4. WorkerHasMutex' /\ FullBeforeRemove' /\ RoomForLine'
    BY <1>1, <2>1, <2>2 DEF WorkerHasMutex, FullBeforeRemove, RoomForLine, files, counts
  <2> QED BY <1>3, <2>1, <2>3, <2>4 DEF FilesInv
<1>9. ASSUME NEW t \in Logger, Take(t) PROVE FilesInv'
  <2>1. PICK n \in LineLen : len' = [len EXCEPT ![t] = n]
    BY <1>9 DEF Take, Enter
  <2>2. /\ at' = [at EXCEPT ![t] = "rotate"] /\ at[t] = "take"
        /\ mutex = Nobody /\ mutex' = t
        /\ UNCHANGED <<mounted, recent, files, counts>>
    BY <1>9 DEF Take, Enter, Step
  <2>3. Working = {} /\ mounted
    BY <1>1, <2>2 DEF WorkerHasMutex, Working
  <2>4. /\ at' \in [Logger -> Places] /\ Working' = {t} /\ at'[t] = "rotate"
        /\ len' \in [Logger -> Nat] /\ len'[t] = n
    BY <1>1, <2>1, <2>2, <2>3 DEF Working, Places
  <2>5. FilesTypeOK'
    BY <1>1, <2>2, <2>4 DEF FilesTypeOK, Places, files, counts
  <2>6. WorkerHasMutex' /\ FullBeforeRemove' /\ RoomForLine'
    BY <2>2, <2>3, <2>4 DEF WorkerHasMutex, FullBeforeRemove, RoomForLine
  <2> QED BY <1>3, <2>2, <2>5, <2>6 DEF FilesInv
<1>10. ASSUME NEW t \in Logger, Fits(t) \/ Full(t) PROVE FilesInv'
  <2>1. \/ Step(t, "rotate", "append") /\ SizeOf(current) + len[t] <= MaxBytes
        \/ Step(t, "rotate", "remove") /\ SizeOf(current) + len[t] > MaxBytes
    BY <1>10 DEF Fits, Full
  <2>2. UNCHANGED <<mounted, mutex, len, recent, files, counts>>
    BY <1>10 DEF Fits, Full
  <2>3. PICK to \in {"append", "remove"} :
          /\ Step(t, "rotate", to)
          /\ to = "append" => SizeOf(current) + len[t] <= MaxBytes
          /\ to = "remove" => SizeOf(current) + len[t] > MaxBytes
    BY <2>1
  <2>4. /\ Working' = {t} /\ at'[t] = to /\ at' \in [Logger -> Places]
        /\ WorkerHasMutex'
    BY <2>2, <2>3, WorkerGoesOn DEF Places
  <2>5. FilesTypeOK'
    BY <1>1, <2>2, <2>4 DEF FilesTypeOK, Places, files, counts
  <2>6. FullBeforeRemove' /\ RoomForLine'
    BY <2>2, <2>3, <2>4 DEF FullBeforeRemove, RoomForLine, files, counts
  <2> QED BY <1>3, <2>2, <2>4, <2>5, <2>6 DEF FilesInv
<1>11. ASSUME NEW t \in Logger, RemovePrevious(t) PROVE FilesInv'
  <2>1. /\ Step(t, "remove", "rename")
        /\ previous' = <<>> \/ previous' = previous
        /\ UNCHANGED <<mounted, mutex, len, recent, current, counts>>
    BY <1>11 DEF RemovePrevious
  <2>2. /\ t \in Working /\ Working' = {t} /\ at'[t] = "rename" /\ len[t] \in LineLen
        /\ at' \in [Logger -> Places] /\ WorkerHasMutex'
    BY <2>1, WorkerGoesOn DEF Places
  <2>3. SizeOf(current) + len[t] > MaxBytes
    BY <1>1, <2>1, <2>2 DEF FullBeforeRemove, Step
  <2>4. previous' \in Seq(Piece)
    BY <1>1, <2>1, EmptySeq
  <2>5. FilesTypeOK'
    BY <1>1, <2>1, <2>2, <2>4 DEF FilesTypeOK, Places, counts
  <2>6. FullBeforeRemove' /\ RoomForLine'
    BY <2>1, <2>2, <2>3 DEF FullBeforeRemove, RoomForLine
  <2>7. FilesAreBounded'
    BY <1>1, <2>1, SizeOfEmpty DEF FilesAreBounded, counts
  <2>8. NewestAreKept'
    <3>1. CASE previous' = previous
      BY <1>3, <2>1, <3>1 DEF files
    <3>2. CASE previous' = <<>>
      <4>1. Kept' = current
        BY <1>1, <2>1, <3>2 DEF Kept
      <4> DEFINE c == Len(current)
                 b == Len(previous)
      <4>2. /\ c \in Nat /\ b \in Nat /\ Len(Kept) = b + c
            /\ \A i \in 1 .. c : Kept[b + i] = current[i]
        BY <1>1, LenProperties DEF Kept
      <4>3. \A i \in 1 .. Len(Kept) : Kept[i].line = lines - Len(Kept) + i
        BY <1>1 DEF NewestAreKept
      <4> HIDE DEF c, b
      <4>4. ASSUME NEW i \in 1 .. c PROVE current[i].line = lines - c + i
        <5>1. b + i \in 1 .. Len(Kept) /\ lines - (b + c) + (b + i) = lines - c + i
          BY <1>1, <4>2
        <5> QED BY <4>2, <4>3, <5>1
      <4>5. len[t] <= Longest /\ len[t] \in Nat
        BY <1>1, <2>2, LongestIs
      <4>6. SizeOf(current) >= UpTo(total, MaxBytes - Longest + 1)
        BY <1>1, <1>2, <2>3, <4>5, LongestIs DEF UpTo
      <4> QED BY <2>1, <4>1, <4>4, <4>6 DEF NewestAreKept, counts, c
    <3> QED BY <2>1, <3>1, <3>2
  <2> QED BY <2>2, <2>5, <2>6, <2>7, <2>8 DEF FilesInv
<1>12. ASSUME NEW t \in Logger, Rename(t) PROVE FilesInv'
  <2>1. /\ Step(t, "rename", "append") /\ previous = <<>>
        /\ previous' = current /\ current' = <<>>
        /\ UNCHANGED <<mounted, mutex, len, recent, counts>>
    BY <1>12 DEF Rename
  <2>2. /\ t \in Working /\ Working' = {t} /\ at'[t] = "append" /\ len[t] \in LineLen
        /\ at' \in [Logger -> Places] /\ WorkerHasMutex'
    BY <2>1, WorkerGoesOn DEF Places
  <2>3. FilesTypeOK'
    BY <1>1, <2>1, <2>2, EmptySeq DEF FilesTypeOK, Places, counts
  <2>4. len[t] \in 1 .. MaxBytes
    BY <2>2
  <2>5. FullBeforeRemove' /\ RoomForLine'
    BY <2>1, <2>2, <2>4, SizeOfEmpty DEF FullBeforeRemove, RoomForLine
  <2>6. Kept' = Kept
    BY <1>1, <2>1 DEF Kept
  <2>7. NewestAreKept'
    BY <1>1, <2>1, <2>6 DEF NewestAreKept, counts
  <2>8. FilesAreBounded'
    BY <1>1, <2>1, SizeOfEmpty DEF FilesAreBounded, counts
  <2> QED BY <2>2, <2>3, <2>5, <2>7, <2>8 DEF FilesInv
<1>13. ASSUME NEW t \in Logger, RenameFails(t) PROVE FilesInv'
  <2>1. /\ Step(t, "rename", "append") /\ stuck' = TRUE
        /\ UNCHANGED <<mounted, mutex, len, recent, files, lines, total>>
    BY <1>13 DEF RenameFails
  <2>2. /\ Working' = {t} /\ at'[t] = "append"
        /\ at' \in [Logger -> Places] /\ WorkerHasMutex'
    BY <2>1, WorkerGoesOn DEF Places
  <2>3. FilesTypeOK'
    BY <1>1, <2>1, <2>2 DEF FilesTypeOK, Places, files
  <2>4. FullBeforeRemove' /\ RoomForLine' /\ FilesAreBounded'
    BY <2>1, <2>2 DEF FullBeforeRemove, RoomForLine, FilesAreBounded
  <2>5. NewestAreKept'
    BY <1>1, <2>1 DEF NewestAreKept, Kept, files
  <2> QED BY <2>2, <2>3, <2>4, <2>5 DEF FilesInv
<1>14. ASSUME NEW t \in Logger, WriteLine(t) \/ AppendFails(t) PROVE FilesInv'
  <2>1. /\ at[t] = "append" /\ Give(t)
        /\ Write(len[t], TRUE) \/ Cut(t)
        /\ UNCHANGED <<mounted, recent, previous, stuck>>
    BY <1>14 DEF WriteLine, AppendFails
  <2>2. t \in Working
    BY <2>1 DEF Working
  <2>3. /\ current' \in Seq(Piece) /\ lines' \in 0 .. MaxLines /\ total' \in 0 .. MaxBytes
        /\ NewestAreKept' /\ FilesAreBounded'
    BY <2>1, <2>2, CutKeeps
  <2>4. /\ at' \in [Logger -> Places] /\ len' \in [Logger -> Nat] /\ mutex' = Nobody
        /\ WorkerHasMutex' /\ FullBeforeRemove' /\ RoomForLine'
    BY <2>1, <2>2, WorkerLeaves
  <2>5. FilesTypeOK'
    BY <1>1, <2>1, <2>3, <2>4 DEF FilesTypeOK, Places
  <2> QED BY <2>3, <2>4, <2>5 DEF FilesInv
<1>15. ASSUME FilesReset PROVE FilesInv'
  <2>1. /\ \/ UNCHANGED <<current, lines, total>>
           \/ \E t \in Logger : at[t] = "append" /\ Cut(t)
        /\ mounted' = FALSE /\ mutex' = Nobody /\ recent' = FALSE
        /\ at' = [t \in Logger |-> "idle"] /\ len' = [t \in Logger |-> 0]
        /\ UNCHANGED <<previous, stuck>>
    BY <1>15 DEF FilesReset
  <2>2. /\ current' \in Seq(Piece) /\ lines' \in 0 .. MaxLines /\ total' \in 0 .. MaxBytes
        /\ NewestAreKept' /\ FilesAreBounded'
    <3>1. CASE UNCHANGED <<current, lines, total>>
      BY <1>1, <1>3, <2>1, <3>1 DEF files, counts
    <3>2. ASSUME NEW t \in Logger, at[t] = "append", Cut(t)
          PROVE  /\ current' \in Seq(Piece) /\ lines' \in 0 .. MaxLines
                 /\ total' \in 0 .. MaxBytes
                 /\ NewestAreKept' /\ FilesAreBounded'
      <4>1. t \in Working
        BY <3>2 DEF Working
      <4> QED BY <2>1, <3>2, <4>1, CutKeeps
    <3> QED BY <2>1, <3>1, <3>2
  <2>3. /\ at' \in [Logger -> Places] /\ len' \in [Logger -> Nat] /\ Working' = {}
    BY <2>1 DEF Places, Working
  <2>4. FilesTypeOK'
    BY <1>1, <2>1, <2>2, <2>3 DEF FilesTypeOK, Places
  <2>5. WorkerHasMutex' /\ FullBeforeRemove' /\ RoomForLine'
    BY <2>1, <2>3 DEF WorkerHasMutex, FullBeforeRemove, RoomForLine
  <2> QED BY <2>2, <2>4, <2>5 DEF FilesInv
<1>16. CASE UNCHANGED fileVars
  <2>1. /\ UNCHANGED <<mounted, mutex, at, len, recent, files, counts>>
    BY <1>16 DEF fileVars, callers
  <2>2. FilesTypeOK' /\ WorkerHasMutex' /\ FullBeforeRemove' /\ RoomForLine'
    BY <1>1, <2>1 DEF FilesTypeOK, Places, WorkerHasMutex, FullBeforeRemove, RoomForLine,
       Working, files, counts
  <2> QED BY <1>3, <2>1, <2>2 DEF FilesInv
<1> QED
  BY <1>5, <1>6, <1>7, <1>8, <1>9, <1>10, <1>11, <1>12, <1>13, <1>14, <1>15, <1>16
  DEF FilesStep, AppendLine

THEOREM FilesInvariant == FilesSpec => []FilesInv
BY InitFilesInv, StepFilesInv, PTL DEF FilesSpec

(* The two files together hold the newest lines without a gap, and as much *)
(* of them as one file has room for, for any number of tasks and lengths   *)
(* of lines, wherever a reset falls (persistent_log.c:37-62).              *)
THEOREM NewestLinesAreKept == FilesSpec => []NewestAreKept
<1>1. FilesInv => NewestAreKept
  BY DEF FilesInv
<1> QED BY <1>1, FilesInvariant, PTL

(* No file outgrows its part of the SPIFFS, unless a rename has failed     *)
(* (persistent_log.c:37).                                                  *)
THEOREM FilesStayBounded == FilesSpec => []FilesAreBounded
<1>1. FilesInv => FilesAreBounded
  BY DEF FilesInv
<1> QED BY <1>1, FilesInvariant, PTL

-----------------------------------------------------------------------------
(* The device *)

LEMMA DeviceParts == DeviceSpec => RingSpec /\ FilesSpec /\ OtaSpec
<1>1. DeviceInit => RingInit /\ FilesInit /\ OtaInit
  BY DEF DeviceInit
<1>2. [DeviceNext]_deviceVars => /\ [RingStep \/ RingReset]_ringVars
                                /\ [FilesStep \/ FilesReset]_fileVars
                                /\ [OtaStep \/ OtaReset]_otaVars
  BY DEF DeviceNext, DeviceReset, deviceVars
<1> QED
  BY <1>1, <1>2, PTL DEF DeviceSpec, RingSpec, FilesSpec, OtaSpec

(* With its logs, its uploads and its restarts together, the device keeps  *)
(* what is proved of each.                                                 *)
THEOREM DeviceCorrect ==
  DeviceSpec => /\ []RingTypeOK /\ ImplementsLastBytes
                /\ []NewestAreKept /\ []FilesAreBounded
                /\ []OtaTypeOK /\ []RunningIsWhole /\ StartsChosen
BY DeviceParts, RingTypeCorrect, RingImplementsLastBytes, NewestLinesAreKept,
   FilesStayBounded, OtaTypeCorrect, RunningIsKept, StartIsChosen, PTL
=============================================================================
