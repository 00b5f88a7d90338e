----------------------- MODULE LiveAutomation_proofs -----------------------
(***************************************************************************)
(* Proofs about the automation queue, about latest_state and about the     *)
(* evaluations that follow it, for every set of fields, messages and       *)
(* readers, every size of the table and every length of the queue:         *)
(*   QueueTypeCorrect, OverflowAlwaysFits, QueueImplementsRequests         *)
(*   LiveTypeCorrect        the variables keep their types                 *)
(*   SamplesCarryBikeTime   the history is stamped with the bike's time    *)
(*   CopiesKeepTheKnown     what was decoded is in every copy              *)
(*   RepeatsAreQuiet        a repeated message asks for nothing            *)
(*   FileAgreesWithState    the file for the next boot is up to date       *)
(*   RulesSeeTheLatest      quiet means that the rules have seen it all    *)
(***************************************************************************)
EXTENDS LiveAutomation, SequenceTheorems, TLAPS

-----------------------------------------------------------------------------
(* The queue loses no request. *)

(* What the two ends of a queue do to the fields of its masks. *)
LEMMA BitsOfAppend ==
  ASSUME NEW q \in Seq(Mask), NEW m \in Mask
  PROVE  Bits(Append(q, m)) = Bits(q) \cup m
<1> DEFINE a == Append(q, m)
<1>1. /\ Len(a) = Len(q) + 1
      /\ a[Len(q) + 1] = m
      /\ \A i \in 1 .. Len(q) : a[i] = q[i]
  BY AppendProperties
<1>2. ASSUME NEW f \in Fields
      PROVE  f \in Bits(a) <=> f \in Bits(q) \cup m
  <2>1. Len(q) \in Nat
    BY LenProperties
  <2>2. \A i \in 1 .. Len(a) : i \in 1 .. Len(q) \/ i = Len(q) + 1
    BY <1>1, <2>1
  <2>3. /\ \A i \in 1 .. Len(q) : i \in 1 .. Len(a)
        /\ Len(q) + 1 \in 1 .. Len(a)
    BY <1>1, <2>1
  <2> QED
    BY <1>1, <2>2, <2>3 DEF Bits
<1>3. Bits(a) \subseteq Fields /\ Bits(q) \subseteq Fields /\ m \subseteq Fields
  BY DEF Bits, Mask
<1> QED
  BY <1>2, <1>3

LEMMA BitsOfHeadAndTail ==
  ASSUME NEW q \in Seq(Mask), q # <<>>
  PROVE  /\ Head(q) \in Mask
         /\ Tail(q) \in Seq(Mask)
         /\ Len(Tail(q)) = Len(q) - 1
         /\ Bits(q) = Head(q) \cup Bits(Tail(q))
<1>1. /\ Head(q) \in Mask
      /\ Tail(q) \in Seq(Mask)
      /\ Len(Tail(q)) = Len(q) - 1
      /\ Head(q) = q[1]
      /\ \A i \in 1 .. Len(Tail(q)) : Tail(q)[i] = q[i + 1]
  BY HeadTailProperties
<1>2. Len(q) \in Nat /\ Len(q) >= 1
  BY EmptySeq, LenProperties
<1>3. ASSUME NEW f \in Fields
      PROVE  f \in Bits(q) <=> f \in Head(q) \cup Bits(Tail(q))
  <2>1. \A i \in 1 .. Len(q) : i = 1 \/ (i - 1 \in 1 .. Len(Tail(q)) /\ (i - 1) + 1 = i)
    BY <1>1, <1>2
  <2>2. /\ 1 \in 1 .. Len(q)
        /\ \A i \in 1 .. Len(Tail(q)) : i + 1 \in 1 .. Len(q)
    BY <1>1, <1>2
  <2>3. ASSUME f \in Bits(q) PROVE f \in Head(q) \cup Bits(Tail(q))
    <3>1. PICK i \in 1 .. Len(q) : f \in q[i]
      BY <2>3 DEF Bits
    <3> QED
      BY <3>1, <2>1, <1>1 DEF Bits
  <2>4. ASSUME f \in Head(q) \cup Bits(Tail(q)) PROVE f \in Bits(q)
    BY <2>4, <2>2, <1>1 DEF Bits
  <2> QED
    BY <2>3, <2>4
<1>4. Bits(q) \subseteq Fields /\ Bits(Tail(q)) \subseteq Fields /\ Head(q) \subseteq Fields
  BY <1>1 DEF Bits, Mask
<1> QED
  BY <1>1, <1>3, <1>4

-----------------------------------------------------------------------------
LEMMA InvInitially == QueueInit => QueueInv
<1> SUFFICES ASSUME QueueInit PROVE QueueInv
  OBVIOUS
<1>1. queue \in Seq(Mask \ {{}}) /\ Len(queue) = 0
  BY EmptySeq DEF QueueInit
<1>2. started = FALSE /\ active = FALSE /\ at = "idle" /\ mask = {} /\ hand = {}
  BY DEF QueueInit
<1>3. started \in BOOLEAN /\ active \in BOOLEAN
  BY <1>2
<1>4. mask \in Mask /\ hand \in Mask
  BY <1>2 DEF Mask
<1>5. Len(queue) <= Capacity
  BY <1>1, QueueAssumption
<1>6. at \in {"idle", "send", "take", "resend"} /\ (at # "idle" <=> mask # {})
  BY <1>2
<1>7. SecondSendFits
  BY <1>2 DEF SecondSendFits
<1> QED
  BY <1>1, <1>3, <1>4, <1>5, <1>6, <1>7 DEF QueueInv, QueueTypeOK

(* A queue that gives its head away. *)
LEMMA Shorter ==
  ASSUME QueueInv, queue # <<>>
  PROVE  /\ Head(queue) \in Mask \ {{}}
         /\ Tail(queue) \in Seq(Mask \ {{}})
         /\ Len(Tail(queue)) = Len(queue) - 1
         /\ Len(queue) \in Nat
  BY HeadTailProperties, LenProperties DEF QueueInv, QueueTypeOK

LEMMA InvPreserved == QueueInv /\ [QueueNext]_queueVars => QueueInv'
<1> SUFFICES ASSUME QueueInv, [QueueNext]_queueVars PROVE QueueInv'
  OBVIOUS
<1> USE DEF QueueInv, QueueTypeOK, SecondSendFits, Mask
<1>l. Len(queue) \in Nat
  BY LenProperties
<1>a. mask # {} => /\ Append(queue, mask) \in Seq(Mask \ {{}})
                   /\ Len(Append(queue, mask)) = Len(queue) + 1
  BY AppendProperties
<1>1. CASE Start
  BY <1>1 DEF Start
<1>2. CASE SetActive
  BY <1>2 DEF SetActive
<1>3. ASSUME NEW m \in Mask, Request(m) PROVE QueueInv'
  BY <1>3 DEF Request
<1>4. CASE Send
  <2>1. CASE Len(queue) < Capacity
    BY <1>4, <2>1, <1>a, <1>l, QueueAssumption DEF Send, Return
  <2>2. CASE ~(Len(queue) < Capacity)
    BY <1>4, <2>2 DEF Send
  <2> QED
    BY <2>1, <2>2
<1>5. CASE Take
  <2>1. CASE queue # <<>>
    BY <1>5, <2>1, <1>l, Shorter, QueueAssumption DEF Take
  <2>2. CASE queue = <<>>
    BY <1>5, <2>2, QueueAssumption DEF Take
  <2> QED
    BY <2>1, <2>2
<1>6. CASE Resend
  BY <1>6, <1>a, <1>l, QueueAssumption DEF Resend, Return
<1>7. CASE Receive
  BY <1>7, <1>l, Shorter, QueueAssumption DEF Receive
<1>8. CASE Evaluate
  BY <1>8 DEF Evaluate
<1>9. CASE Reset
  <2>1. queue' \in Seq(Mask \ {{}}) /\ Len(queue') = 0
    BY <1>9, EmptySeq DEF Reset
  <2>2. started' = FALSE /\ active' = FALSE /\ at' = "idle" /\ mask' = {} /\ hand' = {}
    BY <1>9 DEF Reset
  <2>3. started' \in BOOLEAN /\ active' \in BOOLEAN
    BY <2>2
  <2>4. mask' \in Mask /\ hand' \in Mask
    BY <2>2
  <2>5. Len(queue') <= Capacity
    BY <2>1, QueueAssumption
  <2>6. /\ at' \in {"idle", "send", "take", "resend"}
        /\ at' # "idle" <=> mask' # {}
        /\ SecondSendFits'
    BY <2>2
  <2> QED
    BY <2>1, <2>3, <2>4, <2>5, <2>6
<1>10. CASE UNCHANGED queueVars
  BY <1>10 DEF queueVars
<1> QED
  BY <1>1, <1>2, <1>3, <1>4, <1>5, <1>6, <1>7, <1>8, <1>9, <1>10
     DEF QueueNext, Producer, Worker

(* The invariant holds in every behaviour. *)
THEOREM QueueInvariant == QueueSpec => []QueueInv
  BY InvInitially, InvPreserved, PTL DEF QueueSpec

(* The queue holds masks of changed fields and never more than Capacity.   *)
THEOREM QueueTypeCorrect == QueueSpec => []QueueTypeOK
<1>1. QueueInv => QueueTypeOK
  BY DEF QueueInv
<1> QED
  BY <1>1, QueueInvariant, PTL

(* The second send of automation_request_evaluate, whose result the code   *)
(* ignores, has room in every interleaving with the worker.                *)
THEOREM OverflowAlwaysFits == QueueSpec => []SecondSendFits
<1>1. QueueInv => SecondSendFits
  BY DEF QueueInv
<1> QED
  BY <1>1, QueueInvariant, PTL

-----------------------------------------------------------------------------
(* The refinement.  A request asks, a receive serves, an evaluation        *)
(* finishes, a reset restarts; sends move fields between mask and queue,   *)
(* which the abstract specification does not see.                          *)

LEMMA BitsOfEmpty == Bits(<<>>) = {}
<1>1. Len(<<>>) = 0
  BY EmptySeq
<1> QED
  BY <1>1 DEF Bits

LEMMA InitMaps == QueueInit => Requests!RequestsInit
  BY BitsOfEmpty DEF QueueInit, Requests!RequestsInit

LEMMA StepMaps ==
  QueueInv /\ [QueueNext]_queueVars =>
    [Requests!RequestsNext]_Requests!requestVars
<1> SUFFICES ASSUME QueueInv, [QueueNext]_queueVars
             PROVE  [Requests!RequestsNext]_Requests!requestVars
  OBVIOUS
<1> USE DEF QueueInv, QueueTypeOK, SecondSendFits
<1> DEFINE wanted == Bits(queue) \cup mask
<1>q. queue \in Seq(Mask)
  <2>1. Mask \ {{}} \subseteq Mask
    OBVIOUS
  <2> QED
    BY <2>1, ElementOfSeq, SeqDef
<1>b. /\ \A m \in Mask : Bits(Append(queue, m)) = Bits(queue) \cup m
      /\ queue # <<>> => /\ Bits(queue) = Head(queue) \cup Bits(Tail(queue))
                         /\ Head(queue) \in Mask \ {{}}
  BY <1>q, BitsOfAppend, BitsOfHeadAndTail, Shorter
<1>s. ASSUME wanted' = wanted, UNCHANGED hand
      PROVE  UNCHANGED Requests!requestVars
  BY <1>s DEF Requests!requestVars
<1>u. UNCHANGED <<queue, mask>> => wanted' = wanted
  BY DEF Bits
<1>1. CASE Start \/ SetActive
  BY <1>1, <1>s, <1>u DEF Start, SetActive
<1>2. ASSUME NEW m \in Mask, Request(m)
      PROVE  Requests!RequestsNext
  <2>1. mask = {} /\ mask' = m /\ queue' = queue /\ hand' = hand
    BY <1>2 DEF Request
  <2>2. Requests!Ask(m)
    BY <2>1 DEF Requests!Ask, Bits
  <2> QED
    BY <2>2 DEF Requests!RequestsNext, Mask
<1>3. CASE Send
  <2>1. CASE Len(queue) < Capacity
    BY <1>3, <2>1, <1>b, <1>s DEF Send, Return
  <2>2. CASE ~(Len(queue) < Capacity)
    BY <1>3, <2>2, <1>s, <1>u DEF Send
  <2> QED
    BY <2>1, <2>2
<1>4. CASE Take
  <2>1. CASE queue # <<>>
    <3>1. /\ mask' = mask \cup Head(queue)
          /\ Bits(queue') = Bits(Tail(queue))
          /\ hand' = hand
      BY <1>4, <2>1 DEF Take
    <3>2. Bits(queue)' = Bits(queue')
      BY DEF Bits
    <3>3. wanted' = wanted
      BY <3>1, <3>2, <2>1, <1>b
    <3> QED
      BY <3>1, <3>3, <1>s
  <2>2. CASE queue = <<>>
    BY <1>4, <2>2, <1>s, <1>u DEF Take
  <2> QED
    BY <2>1, <2>2
<1>5. CASE Resend
  BY <1>5, <1>b, <1>s DEF Resend, Return
<1>6. CASE Receive
  <2>1. Requests!Serve(Head(queue))
    BY <1>6, <1>b DEF Receive, Requests!Serve, Bits
  <2> QED
    BY <2>1, <1>6, <1>b DEF Receive, Requests!RequestsNext, Mask
<1>7. CASE Evaluate
  <2>1. Requests!Finish
    BY <1>7, <1>u DEF Evaluate, Requests!Finish
  <2> QED
    BY <2>1 DEF Requests!RequestsNext
<1>8. CASE Reset
  <2>1. Requests!Restart
    BY <1>8, BitsOfEmpty DEF Reset, Requests!Restart
  <2> QED
    BY <2>1 DEF Requests!RequestsNext
<1>9. CASE UNCHANGED queueVars
  BY <1>9, <1>s, <1>u DEF queueVars
<1> QED
  BY <1>1, <1>2, <1>3, <1>4, <1>5, <1>6, <1>7, <1>8, <1>9
     DEF QueueNext, Producer, Worker

(* The queue of masks, with its overflow path, implements the set of       *)
(* fields that wait for an evaluation: none is lost and none invented.     *)
THEOREM QueueImplementsRequests == QueueSpec => KeepsRequests
  BY QueueInvariant, InitMaps, StepMaps, PTL
     DEF QueueSpec, KeepsRequests, Requests!RequestsSpec

-----------------------------------------------------------------------------
(* The state of the bike, and the rules that follow it. *)

USE LiveAssumption

LEMMA BehindTheFields ==
  ASSUME NEW f \in Nat, NEW n \in Nat, NEW k \in Nat, f <= n
  PROVE  /\ 2 * f - 1 \notin (2 * n + 1) .. (2 * n + 2 * k)
         /\ 2 * f \notin (2 * n + 1) .. (2 * n + 2 * k)
<1> HIDE LiveAssumption
<1> QED
  OBVIOUS

(* The words of a message belong to the fields it has, or to its table. *)
LEMMA WordsOfFields ==
  ASSUME NEW m \in Message \cup {Silence}, NEW f \in Field,
         2 * f - 1 \in Words(m) \/ 2 * f \in Words(m)
  PROVE  f \in Present(m)
<1>0. FieldCount \in Nat /\ Len(m.unknown) \in Nat
  BY LenProperties, EmptySeq DEF Silence
<1> HIDE LiveAssumption
<1>1. f \in Nat /\ f <= FieldCount
  BY <1>0 DEF Field
<1>2. /\ 2 * f - 1 \notin (2 * FieldCount + 1) .. (2 * FieldCount + 2 * Len(m.unknown))
      /\ 2 * f \notin (2 * FieldCount + 1) .. (2 * FieldCount + 2 * Len(m.unknown))
  BY <1>0, <1>1, BehindTheFields
<1>3. ASSUME NEW w \in Words(m),
             w \notin (2 * FieldCount + 1) .. (2 * FieldCount + 2 * Len(m.unknown))
      PROVE  \E g \in Present(m) : w \in {2 * g - 1, 2 * g}
  <2>1. w \in UNION {{2 * g - 1, 2 * g} : g \in Present(m)}
    BY <1>3 DEF Words
  <2>2. PICK pair \in {{2 * g - 1, 2 * g} : g \in Present(m)} : w \in pair
    BY <2>1
  <2> QED
    BY <2>2
<1>5. PICK g \in Present(m) : 2 * f - 1 \in {2 * g - 1, 2 * g} \/ 2 * f \in {2 * g - 1, 2 * g}
  BY <1>2, <1>3
<1>6. g \in Nat
  BY <1>0 DEF Present, Field
<1>7. f = g
  BY <1>1, <1>5, <1>6
<1> QED
  BY <1>7

-----------------------------------------------------------------------------
(* The state by itself, whoever reads it *)

(* A row whose count is written and whose words are not. *)
Half == \E j \in DOMAIN data.unknown :
          2 * FieldCount + 2 * j \in left /\ 2 * FieldCount + 2 * j - 1 \notin left

(* The merge goes through the words in their order. *)
InWordOrder ==
  /\ place # "merge" => left = {}
  /\ \A u \in left, w \in Words(data) : u <= w => w \in left

RowsAreFilled == \A i \in 1 .. count : rows[i] \in Row \/ (i = count /\ Half)

TimeIsTold ==
  IF place = "merge" THEN told = IF Time \in Present(data) THEN data.known[Time] ELSE clock
                     ELSE told = clock

(* A field of which the flag and the value are written has a value of the  *)
(* bike, and so have those a reader found.                                 *)
Spoken(f, v) == <<f, v>> \in spoken

ValuesAreSpoken ==
  /\ place = "merge" => \A f \in Present(data) : Spoken(f, data.known[f])
  /\ \A f \in Field : has[f] /\ 2 * f \notin left => Spoken(f, val[f])

CopiesAreSpoken ==
  \A r \in Reader : \A f \in before[r] :
    /\ has[f] /\ Spoken(f, val[f])
    /\ step[r] >= 2 * f - 1 => copy[r].has[f]
    /\ step[r] >= 2 * f => Spoken(f, copy[r].val[f])

LiveInv ==
  /\ LiveTypeOK
  /\ InWordOrder
  /\ RowsAreFilled
  /\ TimeIsTold /\ StampIsBikeTime
  /\ ValuesAreSpoken
  /\ CopiesAreSpoken

LEMMA MessageType ==
  ASSUME NEW m \in Message \cup {Silence}
  PROVE  /\ m.known \in [Field -> Value \cup {Absent}]
         /\ m.unknown \in Seq(Row)
         /\ Len(m.unknown) \in Nat
         /\ DOMAIN m.unknown = 1 .. Len(m.unknown)
         /\ \A j \in DOMAIN m.unknown : m.unknown[j] \in Row
         /\ \A f \in Present(m) : f \in Field /\ m.known[f] \in Value
<1>1. Silence.unknown = <<>> /\ Silence.known = [f \in Field |-> Absent]
  BY DEF Silence
<1>2. m.known \in [Field -> Value \cup {Absent}] /\ m.unknown \in Seq(Row)
  <2>1. CASE m \in Message
    BY <2>1
  <2>2. CASE m = Silence
    <3>1. [f \in Field |-> Absent] \in [Field -> Value \cup {Absent}]
      OBVIOUS
    <3>2. <<>> \in Seq(Row)
      BY EmptySeq
    <3> QED
      BY <1>1, <2>2, <3>1, <3>2
  <2> QED
    BY <2>1, <2>2
<1>3. /\ Len(m.unknown) \in Nat
      /\ DOMAIN m.unknown = 1 .. Len(m.unknown)
      /\ \A j \in DOMAIN m.unknown : m.unknown[j] \in Row
  BY <1>2, LenProperties, ElementOfSeq
<1> QED
  BY <1>2, <1>3 DEF Present

LEMMA WordsOfRow ==
  ASSUME NEW n \in Nat, NEW k \in Nat, NEW j \in 1 .. k
  PROVE  /\ 2 * n + 2 * j - 1 \in (2 * n + 1) .. (2 * n + 2 * k)
         /\ 2 * n + 2 * j \in (2 * n + 1) .. (2 * n + 2 * k)
<1> HIDE LiveAssumption
<1> QED
  OBVIOUS

LEMMA WordsShape ==
  ASSUME NEW m \in Message \cup {Silence}
  PROVE  /\ Words(m) \subseteq Nat
         /\ \A f \in Present(m) : 2 * f - 1 \in Words(m) /\ 2 * f \in Words(m)
         /\ \A j \in DOMAIN m.unknown : /\ 2 * FieldCount + 2 * j - 1 \in Words(m)
                                        /\ 2 * FieldCount + 2 * j \in Words(m)
<1>1. FieldCount \in Nat /\ Len(m.unknown) \in Nat /\ DOMAIN m.unknown = 1 .. Len(m.unknown)
  BY MessageType
<1> HIDE LiveAssumption
<1>2. \A f \in Present(m) : f \in Nat /\ f >= 1 /\ 2 * f - 1 \in Nat /\ 2 * f \in Nat
  BY <1>1 DEF Present, Field
<1>3. UNION {{2 * f - 1, 2 * f} : f \in Present(m)} \subseteq Nat
  BY <1>2
<1>4. \A w \in (2 * FieldCount + 1) .. (2 * FieldCount + 2 * Len(m.unknown)) : w \in Nat
  <2> HIDE DEF Words
  <2>1. 2 * FieldCount + 1 \in Nat
    BY <1>1
  <2> QED
    BY <2>1
<1>5. \A f \in Present(m) : {2 * f - 1, 2 * f} \subseteq Words(m)
  BY DEF Words
<1>6. \A j \in DOMAIN m.unknown :
        /\ 2 * FieldCount + 2 * j - 1 \in (2 * FieldCount + 1) .. (2 * FieldCount + 2 * Len(m.unknown))
        /\ 2 * FieldCount + 2 * j \in (2 * FieldCount + 1) .. (2 * FieldCount + 2 * Len(m.unknown))
  BY <1>1, WordsOfRow
<1> QED
  BY <1>3, <1>4, <1>5, <1>6 DEF Words

(* Once the first words are written, the others are still there. *)
LEMMA NextIsWritten ==
  ASSUME LiveInv, NEW word, IsNext(word), UNCHANGED data
  PROVE  /\ place = "merge" /\ word \in Words(data) /\ word \in Nat
         /\ left' = left \ {word} =>
              \A u \in left', w \in Words(data)' : u <= w => w \in left'
         /\ left' = left \ {word, word + 1} =>
              \A u \in left', w \in Words(data)' : u <= w => w \in left'
<1>1. /\ left \subseteq Words(data) /\ Words(data) \subseteq Nat /\ Words(data)' = Words(data)
      /\ word \in left /\ \A w \in left : word <= w
      /\ \A u \in left, w \in Words(data) : u <= w => w \in left
      /\ place # "merge" => left = {}
  BY WordsShape DEF LiveInv, LiveTypeOK, InWordOrder, IsNext, Words, Present
<1> HIDE LiveAssumption
<1> QED
  BY <1>1

(* There is no row in the making when another word is next. *)
LEMMA NoHalf ==
  ASSUME LiveInv
  PROVE  /\ left = {} => ~Half
         /\ \A j \in DOMAIN data.unknown : IsNext(2 * FieldCount + 2 * j - 1) => ~Half
<1>1. left = {} => ~Half
  BY DEF Half
<1>2. ASSUME NEW j \in DOMAIN data.unknown, IsNext(2 * FieldCount + 2 * j - 1), Half
      PROVE  FALSE
  <2>1. PICK k \in DOMAIN data.unknown :
          2 * FieldCount + 2 * k \in left /\ 2 * FieldCount + 2 * k - 1 \notin left
    BY <1>2 DEF Half
  <2>2. /\ 2 * FieldCount + 2 * j - 1 \in left
        /\ 2 * FieldCount + 2 * j - 1 <= 2 * FieldCount + 2 * k
        /\ 2 * FieldCount + 2 * k - 1 \in Words(data)
        /\ \A u \in left, w \in Words(data) : u <= w => w \in left
    BY <1>2, <2>1, WordsShape DEF IsNext, LiveInv, LiveTypeOK, InWordOrder
  <2>3. FieldCount \in Nat /\ j \in Nat /\ k \in Nat
    BY MessageType DEF LiveInv, LiveTypeOK
  <2> HIDE LiveAssumption
  <2>4. 2 * FieldCount + 2 * j - 1 <= 2 * FieldCount + 2 * k - 1
    BY <2>2, <2>3
  <2> QED
    BY <2>1, <2>2, <2>4
<1> QED
  BY <1>1, <1>2

(* What the readers, the files and the worker have is left alone. *)
LEMMA LiveInvInitially ==
  LiveInit => LiveInv
<1> SUFFICES ASSUME LiveInit PROVE LiveInv
  OBVIOUS
<1> USE DEF LiveInit, Started
<1>1. LiveTypeOK
  <2>1. ZeroState \in State
    BY DEF ZeroState, State, Blank
  <2>2. Now \in State
    BY DEF ZeroState, State, Blank, Now
  <2>3. -1 \in -1 .. LastWord
    BY DEF LastWord
  <2> QED
    BY <2>1, <2>2, <2>3 DEF LiveTypeOK, IsText
<1>2. InWordOrder /\ TimeIsTold /\ StampIsBikeTime
  BY DEF InWordOrder, TimeIsTold, StampIsBikeTime
<1>3. RowsAreFilled
  BY DEF RowsAreFilled, ZeroState
<1>4. ValuesAreSpoken /\ CopiesAreSpoken
  BY DEF ValuesAreSpoken, CopiesAreSpoken, ZeroState
<1> QED
  BY <1>1, <1>2, <1>3, <1>4 DEF LiveInv

(* The text of the state, once the merge is over *)
LEMMA TextIsText ==
  ASSUME LiveInv, place # "merge"
  PROVE  IsText(Text(Now))
<1>1. /\ has \in [Field -> BOOLEAN] /\ val \in [Field -> Value]
      /\ count \in Nat /\ IsText(cache) /\ left = {}
  BY DEF LiveInv, LiveTypeOK, Now, State, InWordOrder
<1>2. \A i \in 1 .. count : rows[i] \in Row
  BY <1>1, NoHalf DEF LiveInv, RowsAreFilled
<1>3. SubSeq(rows, 1, count) \in Seq(Row)
  BY <1>1, <1>2, SubSeqProperties
<1>4. [f \in Field |-> IF has[f] THEN val[f] ELSE Absent] \in [Field -> Value \cup {Absent}]
  BY <1>1
<1>5. CASE count = 0 /\ \A f \in Field : ~has[f]
  BY <1>1, <1>5 DEF Text, Now
<1>6. CASE ~(count = 0 /\ \A f \in Field : ~has[f])
  <2>1. Text(Now) = [known |-> [f \in Field |-> IF has[f] THEN val[f] ELSE Absent],
                     unknown |-> SubSeq(rows, 1, count)]
    BY <1>6 DEF Text, Now
  <2> QED
    BY <1>3, <1>4, <2>1 DEF IsText
<1> QED
  BY <1>5, <1>6

(* A notification begins a merge. *)
LEMMA NotifyKeeps ==
  ASSUME LiveInv, NEW m \in Message, Notify(m)
  PROVE  LiveInv'
<1> USE DEF Notify
<1>1. /\ LiveTypeOK /\ left = {} /\ told = clock /\ RowsAreFilled
      /\ CopiesAreSpoken /\ ValuesAreSpoken
  BY DEF LiveInv, InWordOrder, TimeIsTold
<1>2. /\ m \in Message \cup {Silence}
      /\ \A f \in Present(m) : f \in Field /\ m.known[f] \in Value
  BY MessageType
<1>3. Stamp(m) \in Value
  BY <1>1, <1>2 DEF Stamp, LiveTypeOK
<1>4. LiveTypeOK'
  <2>1. Words(data') = Words(m) /\ Words(data)' = Words(m)
    BY DEF Words, Present
  <2>2. changed' \subseteq Field \cup {Other}
    BY <1>2 DEF ChangedFields
  <2>3. samples' \subseteq [field : Field, value : Value, stamp : Value]
    BY <1>2, <1>3
  <2>4. spoken' \subseteq Field \X Value
    BY <1>1, <1>2 DEF LiveTypeOK
  <2>5. told' \in Value
    BY <1>1, <1>2 DEF LiveTypeOK
  <2>6. Now' = Now
    BY DEF Now, latest
  <2> QED
    BY <1>1, <2>1, <2>2, <2>3, <2>4, <2>5, <2>6 DEF LiveTypeOK, latest, texts, readers
<1>5. InWordOrder'
  BY DEF InWordOrder, Words, Present
<1>6. RowsAreFilled'
  <2>1. \A i \in 1 .. count : rows[i] \in Row
    BY <1>1, NoHalf DEF RowsAreFilled
  <2> QED
    BY <2>1 DEF RowsAreFilled, latest
<1>7. TimeIsTold'
  BY <1>1 DEF TimeIsTold, Present, latest
<1>8. StampIsBikeTime'
  <2> SUFFICES ASSUME NEW s \in samples', told' > 0
               PROVE  s.stamp = told'
    BY DEF StampIsBikeTime
  <2>1. s.stamp = Stamp(m)
    OBVIOUS
  <2>2. told' = IF Time \in Present(m) THEN m.known[Time] ELSE clock
    BY <1>1
  <2> QED
    BY <2>1, <2>2 DEF Stamp
<1>9. ValuesAreSpoken'
  BY <1>1 DEF ValuesAreSpoken, Spoken, latest, Present
<1>10. CopiesAreSpoken'
  BY <1>1 DEF CopiesAreSpoken, Spoken, latest, readers
<1> QED
  BY <1>4, <1>5, <1>6, <1>7, <1>8, <1>9, <1>10 DEF LiveInv

(* A known field: its flag, ... *)
LEMMA MergeFlagKeeps ==
  ASSUME LiveInv, NEW f \in Field, MergeFlag(f)
  PROVE  LiveInv'
<1> USE DEF MergeFlag
<1>1. /\ LiveTypeOK /\ InWordOrder /\ RowsAreFilled /\ TimeIsTold /\ StampIsBikeTime
      /\ ValuesAreSpoken /\ CopiesAreSpoken /\ FieldCount \in Nat
  BY DEF LiveInv
<1>2. /\ place = "merge" /\ 2 * f - 1 \in Words(data)
      /\ \A u \in left', w \in Words(data)' : u <= w => w \in left'
  BY NextIsWritten
<1>3. data \in Message \cup {Silence}
  BY <1>1 DEF LiveTypeOK
<1>4. 2 * f \in left
  <2>1. 2 * f \in Words(data)
    BY <1>2, <1>3, WordsOfFields, WordsShape
  <2>2. 2 * f - 1 <= 2 * f
    BY <1>1 DEF Field
  <2> QED
    BY <1>1, <2>1, <2>2 DEF InWordOrder, IsNext
<1>5. has' = [has EXCEPT ![f] = TRUE] /\ has \in [Field -> BOOLEAN]
  BY <1>1 DEF LiveTypeOK, Now, State
<1>6. LiveTypeOK'
  <2>1. Now' \in State
    BY <1>1, <1>5 DEF LiveTypeOK, Now, State
  <2>2. Words(data)' = Words(data) /\ left' \subseteq left
    BY DEF Words, Present
  <2> QED
    BY <1>1, <2>1, <2>2 DEF LiveTypeOK, texts, readers, ghosts
<1>7. InWordOrder'
  BY <1>1, <1>2 DEF InWordOrder
<1>8. RowsAreFilled'
  <2>1. Half => Half'
    <3> SUFFICES ASSUME NEW j \in DOMAIN data.unknown, 2 * FieldCount + 2 * j \in left,
                        2 * FieldCount + 2 * j - 1 \notin left
                 PROVE  2 * FieldCount + 2 * j \in left' /\ 2 * FieldCount + 2 * j - 1 \notin left'
      BY DEF Half
    <3>1. j \in Nat /\ f \in Nat /\ f <= FieldCount
      BY <1>1, <1>3, MessageType DEF Field
    <3> HIDE LiveAssumption
    <3> QED
      BY <1>1, <3>1
  <2> QED
    BY <1>1, <2>1 DEF RowsAreFilled
<1>9. TimeIsTold' /\ StampIsBikeTime'
  BY <1>1 DEF TimeIsTold, StampIsBikeTime, Present, ghosts
<1>10. ValuesAreSpoken'
  <2> SUFFICES ASSUME NEW g \in Field, has'[g], 2 * g \notin left'
               PROVE  Spoken(g, val[g])'
    BY <1>1 DEF ValuesAreSpoken, Spoken, Present, ghosts
  <2>1. 2 * g \notin left
    BY <1>1 DEF Field
  <2>2. g # f
    BY <1>4, <2>1
  <2> QED
    BY <1>1, <1>5, <2>1, <2>2 DEF ValuesAreSpoken, Spoken, ghosts
<1>11. CopiesAreSpoken'
  BY <1>1, <1>5 DEF CopiesAreSpoken, Spoken, readers, ghosts, LiveTypeOK
<1> QED
  BY <1>6, <1>7, <1>8, <1>9, <1>10, <1>11 DEF LiveInv

(* ... and its value. *)
LEMMA MergeValueKeeps ==
  ASSUME LiveInv, NEW f \in Field, MergeValue(f)
  PROVE  LiveInv'
<1> USE DEF MergeValue
<1>1. /\ LiveTypeOK /\ InWordOrder /\ RowsAreFilled /\ TimeIsTold /\ StampIsBikeTime
      /\ ValuesAreSpoken /\ CopiesAreSpoken /\ FieldCount \in Nat
  BY DEF LiveInv
<1>2. /\ place = "merge" /\ 2 * f \in Words(data)
      /\ \A u \in left', w \in Words(data)' : u <= w => w \in left'
  BY NextIsWritten
<1>3. data \in Message \cup {Silence}
  BY <1>1 DEF LiveTypeOK
<1>4. f \in Present(data) /\ data.known[f] \in Value /\ Spoken(f, data.known[f])
  BY <1>1, <1>2, <1>3, WordsOfFields, MessageType DEF ValuesAreSpoken
<1>5. val' = [val EXCEPT ![f] = data.known[f]] /\ val \in [Field -> Value]
  BY <1>1 DEF LiveTypeOK, Now, State
<1>6. LiveTypeOK'
  <2>1. Now' \in State
    BY <1>1, <1>4, <1>5 DEF LiveTypeOK, Now, State
  <2>2. Words(data)' = Words(data) /\ left' \subseteq left
    BY DEF Words, Present
  <2> QED
    BY <1>1, <2>1, <2>2 DEF LiveTypeOK, texts, readers, ghosts
<1>7. InWordOrder'
  BY <1>1, <1>2 DEF InWordOrder
<1>8. RowsAreFilled'
  <2>1. Half => Half'
    <3> SUFFICES ASSUME NEW j \in DOMAIN data.unknown, 2 * FieldCount + 2 * j \in left,
                        2 * FieldCount + 2 * j - 1 \notin left
                 PROVE  2 * FieldCount + 2 * j \in left' /\ 2 * FieldCount + 2 * j - 1 \notin left'
      BY DEF Half
    <3>1. j \in Nat /\ j >= 1 /\ f \in Nat /\ f <= FieldCount
      BY <1>1, <1>3, MessageType DEF Field
    <3> HIDE LiveAssumption
    <3> QED
      BY <1>1, <3>1
  <2> QED
    BY <1>1, <2>1 DEF RowsAreFilled
<1>9. TimeIsTold' /\ StampIsBikeTime'
  BY <1>1 DEF TimeIsTold, StampIsBikeTime, Present, ghosts
<1>10. ValuesAreSpoken'
  <2> SUFFICES ASSUME NEW g \in Field, has'[g], 2 * g \notin left'
               PROVE  Spoken(g, val[g])'
    BY <1>1 DEF ValuesAreSpoken, Spoken, Present, ghosts
  <2>1. CASE g = f
    BY <1>4, <1>5, <2>1 DEF Spoken, ghosts
  <2>2. CASE g # f
    <3>1. 2 * g \notin left
      BY <1>1, <2>2 DEF Field
    <3> QED
      BY <1>1, <1>5, <2>2, <3>1 DEF ValuesAreSpoken, Spoken, ghosts
  <2> QED
    BY <2>1, <2>2
<1>11. CopiesAreSpoken'
  BY <1>1, <1>4, <1>5 DEF CopiesAreSpoken, Spoken, readers, ghosts, LiveTypeOK
<1> QED
  BY <1>6, <1>7, <1>8, <1>9, <1>10, <1>11 DEF LiveInv

(* A row that is overwritten, one more that is counted, or none *)
LEMMA MergeCountKeeps ==
  ASSUME LiveInv, NEW j \in DOMAIN data.unknown, MergeCount(j)
  PROVE  LiveInv'
<1> DEFINE word == 2 * FieldCount + 2 * j - 1
           entry == data.unknown[j]
<1>1. /\ LiveTypeOK /\ InWordOrder /\ RowsAreFilled /\ TimeIsTold /\ StampIsBikeTime
      /\ ValuesAreSpoken /\ CopiesAreSpoken /\ FieldCount \in Nat
  BY DEF LiveInv
<1>2. data \in Message \cup {Silence}
  BY <1>1 DEF LiveTypeOK
<1>3. j \in Nat /\ j >= 1 /\ entry \in Row
  BY <1>2, MessageType
<1>4. /\ IsNext(word)
      /\ UNCHANGED <<has, val, clock, place, data, changed, samples, texts, readers,
                     spoken, told, previous>>
      /\ \/ /\ rows' = [i \in 1 .. MaxUnknown |-> IF i \in RowsOf(entry.id) THEN entry ELSE rows[i]]
            /\ left' = left \ {word, word + 1}
            /\ UNCHANGED <<count, dropped>>
         \/ /\ count < MaxUnknown
            /\ count' = count + 1
            /\ left' = left \ {word}
            /\ UNCHANGED <<rows, dropped>>
         \/ /\ dropped' = TRUE
            /\ left' = left \ {word, word + 1}
            /\ UNCHANGED <<rows, count>>
  BY DEF MergeCount
<1>5. /\ place = "merge" /\ word \in Nat
      /\ \A u \in left', w \in Words(data)' : u <= w => w \in left'
  BY <1>4, NextIsWritten
<1>6. /\ \A i \in 1 .. count : rows[i] \in Row
      /\ count \in 0 .. MaxUnknown /\ MaxUnknown \in Nat
      /\ rows \in [1 .. MaxUnknown -> Row \cup {Blank}]
  BY <1>1, <1>4, NoHalf DEF RowsAreFilled, LiveTypeOK, Now, State
<1>7. Now' \in State
  <2>1. count' \in 0 .. MaxUnknown
    BY <1>4, <1>6
  <2>2. rows' \in [1 .. MaxUnknown -> Row \cup {Blank}]
    BY <1>3, <1>4, <1>6
  <2> QED
    BY <1>1, <1>4, <2>1, <2>2 DEF LiveTypeOK, Now, State
<1>8. LiveTypeOK'
  <2>1. Words(data)' = Words(data) /\ left' \subseteq left
    BY <1>4 DEF Words, Present
  <2>2. dropped' \in BOOLEAN
    BY <1>1, <1>4 DEF LiveTypeOK
  <2> QED
    BY <1>1, <1>4, <1>7, <2>1, <2>2 DEF LiveTypeOK, texts, readers
<1>9. InWordOrder'
  BY <1>4, <1>5 DEF InWordOrder
<1>10. RowsAreFilled'
  <2>1. CASE rows' = [i \in 1 .. MaxUnknown |-> IF i \in RowsOf(entry.id) THEN entry ELSE rows[i]]
             /\ count' = count
    <3>1. \A i \in 1 .. count : i \in 1 .. MaxUnknown
      BY <1>6
    <3>2. \A i \in 1 .. count : rows'[i] \in Row
      BY <1>3, <1>6, <2>1, <3>1
    <3> QED
      BY <2>1, <3>2 DEF RowsAreFilled
  <2>2. CASE count' = count + 1 /\ left' = left \ {word} /\ rows' = rows
    <3>1. word + 1 \in Words(data) /\ word + 1 = 2 * FieldCount + 2 * j
      BY <1>1, <1>2, <1>3, WordsShape
    <3>2. word + 1 \in left' /\ word \notin left'
      BY <1>1, <1>4, <1>5, <2>2, <3>1 DEF InWordOrder, IsNext
    <3>3. Half'
      BY <1>4, <3>1, <3>2 DEF Half
    <3>4. \A i \in 1 .. count' : i \in 1 .. count \/ i = count'
      BY <1>6, <2>2
    <3> QED
      BY <1>6, <2>2, <3>3, <3>4 DEF RowsAreFilled
  <2>3. CASE rows' = rows /\ count' = count
    BY <1>6, <2>3 DEF RowsAreFilled
  <2> QED
    BY <1>4, <2>1, <2>2, <2>3
<1>11. TimeIsTold' /\ StampIsBikeTime'
  BY <1>1, <1>4 DEF TimeIsTold, StampIsBikeTime, Present
<1>12. ValuesAreSpoken'
  <2> SUFFICES ASSUME NEW g \in Field, has[g], 2 * g \notin left'
               PROVE  Spoken(g, val[g])
    BY <1>1, <1>4 DEF ValuesAreSpoken, Spoken, Present
  <2>1. g \in Nat /\ g <= FieldCount
    BY <1>1 DEF Field
  <2>2. 2 * g # word /\ 2 * g # word + 1
    <3> HIDE LiveAssumption
    <3> QED
      BY <1>1, <1>3, <2>1
  <2>3. 2 * g \notin left
    BY <1>4, <2>2
  <2> QED
    BY <1>1, <2>3 DEF ValuesAreSpoken
<1>13. CopiesAreSpoken'
  BY <1>1, <1>4 DEF CopiesAreSpoken, Spoken, readers
<1> QED
  BY <1>8, <1>9, <1>10, <1>11, <1>12, <1>13 DEF LiveInv

(* The row that was counted *)
LEMMA MergeRowKeeps ==
  ASSUME LiveInv, NEW j \in DOMAIN data.unknown, MergeRow(j)
  PROVE  LiveInv'
<1> DEFINE word == 2 * FieldCount + 2 * j
<1>1. /\ LiveTypeOK /\ InWordOrder /\ RowsAreFilled /\ TimeIsTold /\ StampIsBikeTime
      /\ ValuesAreSpoken /\ CopiesAreSpoken /\ FieldCount \in Nat
  BY DEF LiveInv
<1>2. data \in Message \cup {Silence}
  BY <1>1 DEF LiveTypeOK
<1>3. j \in Nat /\ j >= 1 /\ data.unknown[j] \in Row
  BY <1>2, MessageType
<1>4. /\ IsNext(word)
      /\ rows' = [rows EXCEPT ![count] = data.unknown[j]]
      /\ left' = left \ {word}
      /\ UNCHANGED <<has, val, count, clock, place, data, changed, samples, texts, readers,
                     ghosts>>
  BY DEF MergeRow
<1>5. /\ place = "merge" /\ word \in Nat
      /\ \A u \in left', w \in Words(data)' : u <= w => w \in left'
  BY <1>4, NextIsWritten
<1>6. /\ count \in 0 .. MaxUnknown /\ MaxUnknown \in Nat
      /\ rows \in [1 .. MaxUnknown -> Row \cup {Blank}]
      /\ \A i \in 1 .. count : rows[i] \in Row \/ i = count
  BY <1>1 DEF RowsAreFilled, LiveTypeOK, Now, State
<1>7. LiveTypeOK'
  <2>1. rows' \in [1 .. MaxUnknown -> Row \cup {Blank}]
    BY <1>3, <1>4, <1>6
  <2>2. Now' \in State
    BY <1>1, <1>4, <2>1 DEF LiveTypeOK, Now, State
  <2>3. Words(data)' = Words(data) /\ left' \subseteq left
    BY <1>4 DEF Words, Present
  <2> QED
    BY <1>1, <1>4, <2>2, <2>3 DEF LiveTypeOK, texts, readers, ghosts
<1>8. InWordOrder'
  BY <1>4, <1>5 DEF InWordOrder
<1>9. RowsAreFilled'
  <2>1. \A i \in 1 .. count : rows'[i] \in Row
    BY <1>3, <1>4, <1>6
  <2> QED
    BY <1>4, <2>1 DEF RowsAreFilled
<1>10. TimeIsTold' /\ StampIsBikeTime'
  BY <1>1, <1>4 DEF TimeIsTold, StampIsBikeTime, Present, ghosts
<1>11. ValuesAreSpoken'
  <2> SUFFICES ASSUME NEW g \in Field, has[g], 2 * g \notin left'
               PROVE  Spoken(g, val[g])
    BY <1>1, <1>4 DEF ValuesAreSpoken, Spoken, Present, ghosts
  <2>1. g \in Nat /\ g <= FieldCount
    BY <1>1 DEF Field
  <2>2. 2 * g # word
    <3> HIDE LiveAssumption
    <3> QED
      BY <1>1, <1>3, <2>1
  <2> QED
    BY <1>1, <1>4, <2>2 DEF ValuesAreSpoken
<1>12. CopiesAreSpoken'
  BY <1>1, <1>4 DEF CopiesAreSpoken, Spoken, readers, ghosts
<1> QED
  BY <1>7, <1>8, <1>9, <1>10, <1>11, <1>12 DEF LiveInv

LEMMA MergeEndKeeps ==
  ASSUME LiveInv, MergeEnd
  PROVE  LiveInv'
<1> USE DEF MergeEnd
<1>1. /\ LiveTypeOK /\ InWordOrder /\ RowsAreFilled /\ TimeIsTold /\ StampIsBikeTime
      /\ ValuesAreSpoken /\ CopiesAreSpoken
  BY DEF LiveInv
<1>2. data \in Message \cup {Silence}
  BY <1>1 DEF LiveTypeOK
<1>3. clock' \in Value
  BY <1>1, <1>2, MessageType DEF LiveTypeOK
<1>4. LiveTypeOK'
  BY <1>1, <1>3 DEF LiveTypeOK, Now, Words, Present, texts, readers, ghosts
<1>5. InWordOrder'
  BY DEF InWordOrder
<1>6. RowsAreFilled'
  BY <1>1, NoHalf DEF RowsAreFilled
<1>7. TimeIsTold' /\ StampIsBikeTime'
  BY <1>1 DEF TimeIsTold, StampIsBikeTime, ghosts
<1>8. ValuesAreSpoken' /\ CopiesAreSpoken'
  BY <1>1 DEF ValuesAreSpoken, CopiesAreSpoken, Spoken, readers, ghosts
<1> QED
  BY <1>4, <1>5, <1>6, <1>7, <1>8 DEF LiveInv

(* The steps after the merge touch neither the state nor the copies. *)
LEMMA PersistKeeps ==
  ASSUME LiveInv,
         NotDue \/ PersistNothing \/ PersistOpen \/ PersistPage \/ PersistClose \/ Keep \/ Ask
  PROVE  LiveInv'
<1>1. /\ LiveTypeOK /\ InWordOrder /\ RowsAreFilled /\ TimeIsTold /\ StampIsBikeTime
      /\ ValuesAreSpoken /\ CopiesAreSpoken
  BY DEF LiveInv
<1>2. /\ place # "merge" /\ left = {}
      /\ place' # "merge" /\ place' \in {"idle", "write", "close", "keep", "ask"}
      /\ UNCHANGED <<latest, left, readers, spoken, told, dropped>>
      /\ \/ UNCHANGED <<data, changed, samples, previous>>
         \/ data' = Silence /\ changed' = {} /\ samples' = {} /\ previous' = data
      /\ persisted' \in {persisted, TRUE} /\ lacking' \in {lacking, FALSE, TRUE}
      /\ file' \in {file, NoText, Cut, Text(Now)} /\ cache' \in {cache, Text(Now)}
  BY <1>1 DEF InWordOrder, NotDue, PersistNothing, PersistOpen, PersistPage, PersistClose,
              Keep, Ask, texts, ghosts
<1>3. IsText(Text(Now))
  BY <1>2, TextIsText
<1>4. IsText(file') /\ IsText(cache')
  BY <1>1, <1>2, <1>3 DEF LiveTypeOK, IsText
<1>5. LiveTypeOK'
  <2>1. Now' = Now
    BY <1>2 DEF Now, latest
  <2>2. IsText(file)' /\ IsText(cache)'
    BY <1>4 DEF IsText
  <2>3. /\ data' \in Message \cup {Silence} /\ previous' \in Message \cup {Silence}
        /\ changed' \subseteq Field \cup {Other}
        /\ samples' \subseteq [field : Field, value : Value, stamp : Value]
        /\ persisted' \in BOOLEAN /\ lacking' \in BOOLEAN
    BY <1>1, <1>2 DEF LiveTypeOK
  <2> QED
    BY <1>1, <1>2, <2>1, <2>2, <2>3 DEF LiveTypeOK, latest, readers
<1>6. InWordOrder'
  BY <1>2 DEF InWordOrder
<1>7. RowsAreFilled'
  BY <1>1, <1>2, NoHalf DEF RowsAreFilled, latest
<1>8. TimeIsTold' /\ StampIsBikeTime'
  BY <1>1, <1>2 DEF TimeIsTold, StampIsBikeTime, latest
<1>9. ValuesAreSpoken' /\ CopiesAreSpoken'
  BY <1>1, <1>2 DEF ValuesAreSpoken, CopiesAreSpoken, Spoken, latest, readers
<1> QED
  BY <1>5, <1>6, <1>7, <1>8, <1>9 DEF LiveInv

-----------------------------------------------------------------------------
(* The readers *)

(* A copy leaves everything but the reader's own words as it is. *)
LEMMA CopyKeeps ==
  ASSUME LiveInv, NEW r \in Reader, UNCHANGED <<latest, worker, texts, ghosts>>,
         step' \in [Reader -> -1 .. LastWord], copy' \in [Reader -> State],
         before' \in [Reader -> SUBSET Field],
         \A q \in Reader \ {r} :
           step'[q] = step[q] /\ copy'[q] = copy[q] /\ before'[q] = before[q],
         \A f \in before'[r] :
           /\ has[f] /\ Spoken(f, val[f])
           /\ step'[r] >= 2 * f - 1 => copy'[r].has[f]
           /\ step'[r] >= 2 * f => Spoken(f, copy'[r].val[f])
  PROVE  LiveInv'
<1>1. /\ LiveTypeOK /\ InWordOrder /\ RowsAreFilled /\ TimeIsTold /\ StampIsBikeTime
      /\ ValuesAreSpoken /\ CopiesAreSpoken
  BY DEF LiveInv
<1>2. LiveTypeOK'
  <2>1. Now' = Now
    BY DEF Now, latest
  <2>2. Words(data)' = Words(data)
    BY DEF Words, Present, worker
  <2>3. IsText(file)' /\ IsText(cache)'
    BY <1>1 DEF LiveTypeOK, IsText, texts
  <2> QED
    BY <1>1, <2>1, <2>2, <2>3 DEF LiveTypeOK, latest, worker, texts, ghosts
<1>3. InWordOrder' /\ RowsAreFilled'
  <2>1. Words(data)' = Words(data) /\ Half' = Half
    BY DEF Words, Present, Half, worker
  <2>2. InWordOrder'
    BY <1>1, <2>1 DEF InWordOrder, worker
  <2>3. RowsAreFilled'
    BY <1>1, <2>1 DEF RowsAreFilled, latest
  <2> QED
    BY <2>2, <2>3
<1>4. TimeIsTold' /\ StampIsBikeTime' /\ ValuesAreSpoken'
  BY <1>1 DEF TimeIsTold, StampIsBikeTime, ValuesAreSpoken, Spoken, Present,
              latest, worker, ghosts
<1>5. CopiesAreSpoken'
  <2> SUFFICES ASSUME NEW q \in Reader, NEW f \in before'[q]
               PROVE  /\ has'[f] /\ Spoken(f, val[f])'
                      /\ step'[q] >= 2 * f - 1 => copy'[q].has[f]
                      /\ step'[q] >= 2 * f => Spoken(f, copy[q].val[f])'
    BY DEF CopiesAreSpoken
  <2>1. UNCHANGED <<has, val, spoken>>
    BY DEF latest, ghosts
  <2>2. CASE q = r
    BY <2>1, <2>2 DEF Spoken
  <2>3. CASE q # r
    BY <1>1, <2>1, <2>3 DEF CopiesAreSpoken, Spoken
  <2> QED
    BY <2>2, <2>3
<1> QED
  BY <1>2, <1>3, <1>4, <1>5 DEF LiveInv

(* The words of a known field and of the table in a copy *)
LEMMA HalfOfWord ==
  ASSUME NEW n \in Nat, NEW w \in 1 .. 2 * n
  PROVE  /\ w % 2 = 1 => (w + 1) \div 2 \in 1 .. n /\ 2 * ((w + 1) \div 2) - 1 = w
         /\ w % 2 # 1 => w \div 2 \in 1 .. n /\ 2 * (w \div 2) = w
<1> HIDE LiveAssumption
<1> QED
  OBVIOUS

LEMMA CopyWordKeeps ==
  ASSUME LiveInv, NEW r \in Reader, CopyWord(r)
  PROVE  LiveInv'
<1> DEFINE word == step[r] + 1
           old == copy[r]
           odd == (word + 1) \div 2
           even == word \div 2
<1>1. /\ LiveTypeOK /\ ValuesAreSpoken /\ CopiesAreSpoken
      /\ FieldCount \in Nat /\ MaxUnknown \in Nat
  BY DEF LiveInv
<1>2. /\ has \in [Field -> BOOLEAN] /\ val \in [Field -> Value]
      /\ rows \in [1 .. MaxUnknown -> Row \cup {Blank}] /\ count \in 0 .. MaxUnknown
  BY <1>1 DEF LiveTypeOK, Now, State
<1>3. /\ old \in State /\ before[r] \subseteq Field
      /\ old.has \in [Field -> BOOLEAN] /\ old.val \in [Field -> Value]
      /\ old.rows \in [1 .. MaxUnknown -> Row \cup {Blank}]
  BY <1>1 DEF LiveTypeOK, State
<1>4. word \in 1 .. LastWord /\ LastWord = 2 * FieldCount + MaxUnknown + 1 /\ step[r] \in Nat
  BY <1>1 DEF CopyWord, LastWord
<1>5. PICK new : copy' = [copy EXCEPT ![r] = new]
                 /\ new = IF word = LastWord THEN [old EXCEPT !.count = count]
                          ELSE IF word > 2 * FieldCount
                            THEN [old EXCEPT !.rows[word - 2 * FieldCount] = rows[word - 2 * FieldCount]]
                          ELSE IF word % 2 = 1 THEN [old EXCEPT !.has[odd] = has[odd]]
                          ELSE [old EXCEPT !.val[even] = val[even]]
  BY DEF CopyWord
<1>6. /\ step' = [step EXCEPT ![r] = word] /\ before' = before
      /\ UNCHANGED <<latest, worker, texts, ghosts>>
  BY DEF CopyWord
<1> HIDE DEF word, odd, even, old
<1>7. /\ new \in State
      /\ \A f \in before[r] :
           /\ new.has[f] \in {old.has[f], has[f]} /\ new.val[f] \in {old.val[f], val[f]}
           /\ word = 2 * f - 1 => new.has[f] = has[f]
           /\ word = 2 * f => new.val[f] = val[f]
  <2>0. \A f \in before[r] : f \in Nat /\ f >= 1 /\ f <= FieldCount
    BY <1>1, <1>3 DEF Field
  <2>1. CASE word = LastWord
    <3>1. new = [old EXCEPT !.count = count]
      BY <1>5, <2>1
    <3>2. new \in State /\ new.has = old.has /\ new.val = old.val
      BY <1>2, <1>3, <3>1 DEF State
    <3>3. \A f \in before[r] : word # 2 * f - 1 /\ word # 2 * f
      BY <1>1, <1>4, <2>0, <2>1
    <3> QED
      BY <3>2, <3>3
  <2>2. CASE word # LastWord /\ word > 2 * FieldCount
    <3> DEFINE i == word - 2 * FieldCount
    <3>1. i \in 1 .. MaxUnknown
      BY <1>1, <1>4, <2>2
    <3>2. new = [old EXCEPT !.rows[i] = rows[i]]
      BY <1>5, <2>2
    <3> HIDE DEF i
    <3>3. new \in State /\ new.has = old.has /\ new.val = old.val
      BY <1>2, <1>3, <3>1, <3>2 DEF State
    <3>4. \A f \in before[r] : word # 2 * f - 1 /\ word # 2 * f
      BY <1>1, <1>4, <2>0, <2>2
    <3> QED
      BY <3>3, <3>4
  <2>3. CASE word \in 1 .. 2 * FieldCount /\ word % 2 = 1
    <3>1. odd \in Field /\ 2 * odd - 1 = word
      BY <1>1, <2>3, HalfOfWord DEF odd, Field
    <3>2. new = [old EXCEPT !.has[odd] = has[odd]]
      BY <1>1, <1>4, <1>5, <2>3
    <3>3. /\ new \in State /\ new.val = old.val
          /\ new.has = [old.has EXCEPT ![odd] = has[odd]]
      BY <1>2, <1>3, <3>1, <3>2 DEF State
    <3>4. odd \in Nat
      BY <1>1, <3>1 DEF Field
    <3>5. \A f \in before[r] : word # 2 * f /\ (word = 2 * f - 1 => f = odd)
      BY <2>0, <3>1, <3>4
    <3>6. \A f \in before[r] : new.has[f] = IF f = odd THEN has[f] ELSE old.has[f]
      BY <1>3, <3>1, <3>3
    <3> QED
      BY <3>3, <3>5, <3>6
  <2>4. CASE word \in 1 .. 2 * FieldCount /\ word % 2 # 1
    <3>1. even \in Field /\ 2 * even = word
      BY <1>1, <2>4, HalfOfWord DEF even, Field
    <3>2. new = [old EXCEPT !.val[even] = val[even]]
      BY <1>1, <1>4, <1>5, <2>4
    <3>3. /\ new \in State /\ new.has = old.has
          /\ new.val = [old.val EXCEPT ![even] = val[even]]
      BY <1>2, <1>3, <3>1, <3>2 DEF State
    <3>4. even \in Nat
      BY <1>1, <3>1 DEF Field
    <3>5. \A f \in before[r] : word # 2 * f - 1 /\ (word = 2 * f => f = even)
      BY <2>0, <3>1, <3>4
    <3>6. \A f \in before[r] : new.val[f] = IF f = even THEN val[f] ELSE old.val[f]
      BY <1>3, <3>1, <3>3
    <3> QED
      BY <3>3, <3>5, <3>6
  <2> QED
    BY <1>1, <1>4, <2>1, <2>2, <2>3, <2>4
<1>8. ASSUME NEW f \in before'[r]
      PROVE  /\ has[f] /\ Spoken(f, val[f])
             /\ step'[r] >= 2 * f - 1 => copy'[r].has[f]
             /\ step'[r] >= 2 * f => Spoken(f, copy'[r].val[f])
  <2>1. /\ f \in before[r] /\ f \in Nat
        /\ has[f] /\ Spoken(f, val[f])
        /\ step[r] >= 2 * f - 1 => old.has[f]
        /\ step[r] >= 2 * f => Spoken(f, old.val[f])
    BY <1>1, <1>3, <1>6 DEF CopiesAreSpoken, Field, old
  <2>2. step'[r] = word /\ word = step[r] + 1 /\ copy'[r] = new
    BY <1>1, <1>5, <1>6 DEF LiveTypeOK, word
  <2>3. ASSUME word >= 2 * f - 1 PROVE new.has[f]
    <3>1. step[r] \in Nat /\ f \in Nat /\ word = step[r] + 1
      BY <1>4, <2>1, <2>2
    <3>2. step[r] >= 2 * f - 1 \/ word = 2 * f - 1
      <4> HIDE LiveAssumption
      <4> QED
        BY <2>3, <3>1
    <3> QED
      BY <1>7, <2>1, <3>2
  <2>4. ASSUME word >= 2 * f PROVE Spoken(f, new.val[f])
    <3>1. step[r] \in Nat /\ f \in Nat /\ word = step[r] + 1
      BY <1>4, <2>1, <2>2
    <3>2. step[r] >= 2 * f \/ word = 2 * f
      <4> HIDE LiveAssumption
      <4> QED
        BY <2>4, <3>1
    <3> QED
      BY <1>7, <2>1, <3>2
  <2> QED
    BY <2>1, <2>2, <2>3, <2>4
<1>9. /\ step' \in [Reader -> -1 .. LastWord] /\ copy' \in [Reader -> State]
      /\ before' \in [Reader -> SUBSET Field]
      /\ \A q \in Reader \ {r} :
           step'[q] = step[q] /\ copy'[q] = copy[q] /\ before'[q] = before[q]
  <2>1. word \in -1 .. LastWord
    BY <1>1, <1>4
  <2> QED
    BY <1>1, <1>5, <1>6, <1>7, <2>1 DEF LiveTypeOK
<1> QED
  BY <1>6, <1>8, <1>9, CopyKeeps

LEMMA CopyStepsKeep ==
  ASSUME LiveInv, NEW r \in Reader, Copy(r)
  PROVE  LiveInv'
<1>1. LiveTypeOK /\ ValuesAreSpoken /\ FieldCount \in Nat /\ MaxUnknown \in Nat
  BY DEF LiveInv
<1>2. 0 \in -1 .. LastWord /\ -1 \in -1 .. LastWord
  BY <1>1 DEF LastWord
<1>3. ZeroState \in State
  BY DEF ZeroState, State, Blank
<1>4. CASE CopyBegin(r)
  <2> USE <1>4 DEF CopyBegin
  <2>1. before' = [before EXCEPT ![r] = {f \in Field : has[f] /\ 2 * f \notin left}]
    OBVIOUS
  <2>2. /\ step' \in [Reader -> -1 .. LastWord] /\ copy' \in [Reader -> State]
        /\ before' \in [Reader -> SUBSET Field]
        /\ \A q \in Reader \ {r} :
             step'[q] = step[q] /\ copy'[q] = copy[q] /\ before'[q] = before[q]
        /\ step'[r] = 0
        /\ before'[r] = {f \in Field : has[f] /\ 2 * f \notin left}
    BY <1>1, <1>2, <2>1 DEF LiveTypeOK
  <2>3. \A f \in before'[r] : /\ has[f] /\ Spoken(f, val[f])
                              /\ ~(0 >= 2 * f - 1) /\ ~(0 >= 2 * f)
    BY <1>1, <2>2 DEF ValuesAreSpoken, Field
  <2> QED
    BY <2>2, <2>3, CopyKeeps
<1>5. CASE CopyWord(r)
  BY <1>5, CopyWordKeeps
<1>6. CASE CopyEnd(r)
  <2>1. /\ step' \in [Reader -> -1 .. LastWord] /\ copy' \in [Reader -> State]
        /\ before' \in [Reader -> SUBSET Field]
        /\ \A q \in Reader \ {r} :
             step'[q] = step[q] /\ copy'[q] = copy[q] /\ before'[q] = before[q]
        /\ before'[r] = {}
        /\ UNCHANGED <<latest, worker, texts, ghosts>>
    BY <1>1, <1>2, <1>3, <1>6 DEF LiveTypeOK, CopyEnd
  <2> QED
    BY <2>1, CopyKeeps
<1> QED
  BY <1>4, <1>5, <1>6 DEF Copy

LEMMA ResetKeeps ==
  ASSUME LiveInv, LiveReset
  PROVE  LiveInv'
<1> USE DEF LiveReset
<1>1. LiveTypeOK'
  <2>1. ZeroState \in State
    BY DEF ZeroState, State, Blank
  <2>2. Now' \in State
    BY DEF ZeroState, State, Blank, Now
  <2>3. -1 \in -1 .. LastWord
    BY DEF LastWord
  <2>4. IsText(file') /\ IsText(cache')
    BY DEF LiveInv, LiveTypeOK, IsText
  <2> QED
    BY <2>1, <2>2, <2>3, <2>4 DEF LiveTypeOK, IsText
<1>2. InWordOrder' /\ TimeIsTold' /\ StampIsBikeTime'
  BY DEF InWordOrder, TimeIsTold, StampIsBikeTime
<1>3. RowsAreFilled'
  BY DEF RowsAreFilled, ZeroState
<1>4. ValuesAreSpoken' /\ CopiesAreSpoken'
  BY DEF ValuesAreSpoken, CopiesAreSpoken, ZeroState
<1> QED
  BY <1>1, <1>2, <1>3, <1>4 DEF LiveInv

LEMMA NothingKeeps ==
  ASSUME LiveInv, UNCHANGED liveVars
  PROVE  LiveInv'
BY DEF liveVars, latest, worker, texts, readers, ghosts, LiveInv, LiveTypeOK, Now,
       InWordOrder, RowsAreFilled, Half, TimeIsTold, StampIsBikeTime, ValuesAreSpoken,
       CopiesAreSpoken, Spoken, Words, Present

LEMMA StepLiveInv ==
  LiveInv /\ [LiveNext]_liveVars => LiveInv'
<1> SUFFICES ASSUME LiveInv, [LiveNext]_liveVars PROVE LiveInv'
  OBVIOUS
<1>1. CASE LiveWorker
  BY <1>1, NotifyKeeps, MergeFlagKeeps, MergeValueKeeps, MergeCountKeeps, MergeRowKeeps,
     MergeEndKeeps, PersistKeeps DEF LiveWorker, Merge
<1>2. CASE \E r \in Reader : Copy(r)
  BY <1>2, CopyStepsKeep
<1>3. CASE LiveReset
  BY <1>3, ResetKeeps
<1>4. CASE UNCHANGED liveVars
  BY <1>4, NothingKeeps
<1> QED
  BY <1>1, <1>2, <1>3, <1>4 DEF LiveNext

LEMMA LiveInvariant == LiveSpec => []LiveInv
BY LiveInvInitially, StepLiveInv, PTL DEF LiveSpec

(* The variables keep their types: in particular unknown_count stays       *)
(* within the table, and a text is made of rows that have been filled.     *)
THEOREM LiveTypeCorrect == LiveSpec => []LiveTypeOK
<1>1. LiveInv => LiveTypeOK
  BY DEF LiveInv
<1> QED
  BY <1>1, LiveInvariant, PTL

(* StampIsBikeTime: for every set of messages, a sample carries the last   *)
(* time the bike has told, before latest_state has it and after.           *)
THEOREM SamplesCarryBikeTime == LiveSpec => []StampIsBikeTime
<1>1. LiveInv => StampIsBikeTime
  BY DEF LiveInv
<1> QED
  BY <1>1, LiveInvariant, PTL

(* KnownStays: for every number of fields, rows and readers, a copy that   *)
(* nothing locks has every field that was decoded when it began, with a    *)
(* value the bike has sent for that field.                                 *)
THEOREM CopiesKeepTheKnown == LiveSpec => []KnownStays
<1>1. LiveInv => KnownStays
  <2> SUFFICES ASSUME LiveInv, NEW r \in Reader, step[r] = LastWord, NEW f \in before[r]
               PROVE  copy[r].has[f] /\ Spoken(f, copy[r].val[f])
    BY DEF KnownStays, Copied, Spoken
  <2>1. f \in Field /\ FieldCount \in Nat /\ MaxUnknown \in Nat
    BY DEF LiveInv, LiveTypeOK
  <2>2. LastWord >= 2 * f /\ LastWord >= 2 * f - 1
    BY <2>1 DEF LastWord, Field
  <2> QED
    BY <2>2 DEF LiveInv, CopiesAreSpoken
<1> QED
  BY <1>1, LiveInvariant, PTL

-----------------------------------------------------------------------------
(* A message that is repeated *)

(* Behind the rows that count there are none, and a row in the making is   *)
(* still blank.                                                            *)
TableIsPacked ==
  /\ \A i \in 1 .. MaxUnknown : i > count \/ (i = count /\ Half) => rows[i] = Blank
  /\ Half => count > 0

InTable(entry) == \E i \in 1 .. count : rows[i] = entry

(* What is merged of a message is in the state, unless the table was full. *)
MergedIsThere ==
  /\ place # "idle" =>
       /\ \A f \in Present(data) : /\ 2 * f - 1 \notin left => has[f]
                                   /\ 2 * f \notin left => val[f] = data.known[f]
       /\ \A j \in DOMAIN data.unknown :
            2 * FieldCount + 2 * j \notin left => InTable(data.unknown[j])
  /\ place = "idle" =>
       /\ \A f \in Present(previous) : has[f] /\ val[f] = previous.known[f]
       /\ \A j \in DOMAIN previous.unknown : InTable(previous.unknown[j])

QuietInv ==
  /\ TableIsPacked
  /\ ~dropped => MergedIsThere
  /\ RepeatIsQuiet

LEMMA SilenceIsEmpty == Present(Silence) = {} /\ Silence.unknown = <<>>
BY DEF Present, Silence

LEMMA QuietInitially == LiveInit => QuietInv
<1> SUFFICES ASSUME LiveInit PROVE QuietInv
  OBVIOUS
<1>1. ~Half
  BY DEF LiveInit, Started, Half
<1> QED
  BY <1>1, SilenceIsEmpty DEF LiveInit, Started, QuietInv, TableIsPacked, MergedIsThere,
                             RepeatIsQuiet, ZeroState

LEMMA NotifyIsQuiet ==
  ASSUME LiveInv, QuietInv, NEW m \in Message, Notify(m)
  PROVE  QuietInv'
<1> USE DEF Notify
<1>1. m \in Message \cup {Silence} /\ left = {} /\ ~Half
  BY NoHalf DEF LiveInv, InWordOrder
<1>2. TableIsPacked'
  <2>1. ASSUME Half' PROVE FALSE
    <3>1. PICK j \in DOMAIN m.unknown : 2 * FieldCount + 2 * j - 1 \notin Words(m)
      BY <2>1 DEF Half
    <3> QED
      BY <1>1, <3>1, WordsShape
  <2> QED
    BY <1>1, <2>1 DEF QuietInv, TableIsPacked, latest
<1>3. MergedIsThere'
  <2>1. \A f \in Present(data)' : 2 * f - 1 \in left' /\ 2 * f \in left'
    BY <1>1, WordsShape DEF Present
  <2>2. \A j \in DOMAIN data'.unknown : 2 * FieldCount + 2 * j \in left'
    BY <1>1, WordsShape
  <2> QED
    BY <2>1, <2>2 DEF MergedIsThere
<1>4. ASSUME m = previous, ~dropped PROVE ChangedFields(m) = {}
  <2>1. /\ \A f \in Present(m) : has[f] /\ val[f] = m.known[f]
        /\ \A j \in DOMAIN m.unknown : InTable(m.unknown[j])
    BY <1>4 DEF QuietInv, MergedIsThere
  <2>2. \A j \in DOMAIN m.unknown : ~RowChanged(m.unknown[j])
    BY <2>1 DEF InTable, RowChanged, RowsOf
  <2> QED
    BY <2>1, <2>2 DEF ChangedFields
<1> QED
  BY <1>2, <1>3, <1>4 DEF QuietInv, RepeatIsQuiet

LEMMA MergeFieldIsQuiet ==
  ASSUME LiveInv, QuietInv, NEW f \in Field, MergeFlag(f) \/ MergeValue(f)
  PROVE  QuietInv'
<1>1. /\ FieldCount \in Nat /\ f \in Nat /\ f >= 1 /\ f <= FieldCount
      /\ has \in [Field -> BOOLEAN] /\ val \in [Field -> Value]
      /\ data \in Message \cup {Silence}
  BY DEF Field, LiveInv, LiveTypeOK, Now, State
<1>2. /\ UNCHANGED <<rows, count, place, data, changed, previous, dropped>>
      /\ \/ has' = [has EXCEPT ![f] = TRUE] /\ val' = val /\ left' = left \ {2 * f - 1}
         \/ val' = [val EXCEPT ![f] = data.known[f]] /\ has' = has /\ left' = left \ {2 * f}
  BY DEF MergeFlag, MergeValue, ghosts
<1>3. place = "merge"
  BY NextIsWritten DEF MergeFlag, MergeValue
<1>4. \A j \in DOMAIN data.unknown :
        /\ 2 * FieldCount + 2 * j \in left' <=> 2 * FieldCount + 2 * j \in left
        /\ 2 * FieldCount + 2 * j - 1 \in left' <=> 2 * FieldCount + 2 * j - 1 \in left
  <2> TAKE j \in DOMAIN data.unknown
  <2>1. j \in Nat /\ j >= 1
    BY <1>1, MessageType
  <2> HIDE LiveAssumption
  <2> QED
    BY <1>1, <1>2, <2>1
<1>5. Half' <=> Half
  BY <1>2, <1>4 DEF Half
<1>6. TableIsPacked'
  BY <1>2, <1>5 DEF QuietInv, TableIsPacked
<1>7. ASSUME ~dropped PROVE MergedIsThere'
  <2>1. \A j \in DOMAIN data.unknown :
          2 * FieldCount + 2 * j \notin left' => InTable(data.unknown[j])
    BY <1>3, <1>4, <1>7 DEF QuietInv, MergedIsThere
  <2>2. ASSUME NEW g \in Present(data)
        PROVE  /\ 2 * g - 1 \notin left' => has'[g]
               /\ 2 * g \notin left' => val'[g] = data.known[g]
    <3>1. /\ 2 * g - 1 \notin left => has[g]
          /\ 2 * g \notin left => val[g] = data.known[g]
      BY <1>3, <1>7 DEF QuietInv, MergedIsThere
    <3>2. g \in Field /\ g \in Nat
      BY <1>1 DEF Present, Field
    <3>3. CASE g = f
      BY <1>1, <1>2, <3>1, <3>2, <3>3
    <3>4. CASE g # f
      <4>1. /\ 2 * g - 1 \in left' <=> 2 * g - 1 \in left
            /\ 2 * g \in left' <=> 2 * g \in left
        <5> HIDE LiveAssumption
        <5> QED
          BY <1>1, <1>2, <3>2, <3>4
      <4> QED
        BY <1>1, <1>2, <3>1, <3>2, <3>4, <4>1
    <3> QED
      BY <3>3, <3>4
  <2> QED
    BY <1>2, <1>3, <2>1, <2>2 DEF MergedIsThere, InTable, Present
<1> QED
  BY <1>2, <1>6, <1>7 DEF QuietInv, RepeatIsQuiet

LEMMA MergeCountIsQuiet ==
  ASSUME LiveInv, QuietInv, NEW j \in DOMAIN data.unknown, MergeCount(j)
  PROVE  QuietInv'
<1> DEFINE word == 2 * FieldCount + 2 * j - 1
           entry == data.unknown[j]
<1>1. /\ FieldCount \in Nat /\ MaxUnknown \in Nat /\ count \in 0 .. MaxUnknown
      /\ rows \in [1 .. MaxUnknown -> Row \cup {Blank}]
      /\ data \in Message \cup {Silence}
  BY DEF LiveInv, LiveTypeOK, Now, State
<1>2. \A k \in DOMAIN data.unknown : k \in Nat /\ k >= 1
  BY <1>1, MessageType
<1>3. /\ IsNext(word)
      /\ UNCHANGED <<has, val, place, data, changed, previous>>
      /\ \/ /\ RowsOf(entry.id) # {}
            /\ rows' = [i \in 1 .. MaxUnknown |-> IF i \in RowsOf(entry.id) THEN entry ELSE rows[i]]
            /\ left' = left \ {word, word + 1}
            /\ count' = count /\ dropped' = dropped
         \/ /\ count < MaxUnknown
            /\ count' = count + 1
            /\ left' = left \ {word}
            /\ rows' = rows /\ dropped' = dropped
         \/ /\ dropped' = TRUE
            /\ left' = left \ {word, word + 1}
            /\ rows' = rows /\ count' = count
  BY DEF MergeCount
<1>4. place = "merge" /\ ~Half
  BY <1>3, NoHalf, NextIsWritten
<1>5. \A k \in DOMAIN data.unknown : k # j =>
        /\ 2 * FieldCount + 2 * k \in left' <=> 2 * FieldCount + 2 * k \in left
        /\ 2 * FieldCount + 2 * k - 1 \in left' <=> 2 * FieldCount + 2 * k - 1 \in left
  <2> TAKE k \in DOMAIN data.unknown
  <2>1. k \in Nat /\ j \in Nat
    BY <1>2
  <2> HIDE LiveAssumption
  <2> QED
    BY <1>1, <1>3, <2>1
<1>6. word + 1 \notin left' => ~Half'
  <2> SUFFICES ASSUME word + 1 \notin left', NEW k \in DOMAIN data.unknown,
                      2 * FieldCount + 2 * k \in left', 2 * FieldCount + 2 * k - 1 \notin left'
               PROVE  FALSE
    BY <1>3 DEF Half
  <2>1. k # j
    BY <1>1, <1>2
  <2> QED
    BY <1>4, <1>5, <2>1 DEF Half
<1>7. \A f \in Present(data) :
        /\ 2 * f - 1 \in left' <=> 2 * f - 1 \in left
        /\ 2 * f \in left' <=> 2 * f \in left
  <2> TAKE f \in Present(data)
  <2>1. f \in Nat /\ f <= FieldCount /\ j \in Nat /\ j >= 1
    BY <1>1, <1>2 DEF Present, Field
  <2> HIDE LiveAssumption
  <2> QED
    BY <1>1, <1>3, <2>1
<1>8. TableIsPacked'
  <2>0. \A i \in 1 .. MaxUnknown : i > count => rows[i] = Blank
    BY DEF QuietInv, TableIsPacked
  <2>1. CASE count' = count + 1 /\ rows' = rows
    BY <1>1, <2>0, <2>1 DEF TableIsPacked
  <2>2. CASE count' = count /\ word + 1 \notin left'
             /\ rows' = [i \in 1 .. MaxUnknown |-> IF i \in RowsOf(entry.id) THEN entry ELSE rows[i]]
    BY <1>1, <1>6, <2>0, <2>2 DEF TableIsPacked, RowsOf
  <2>3. CASE count' = count /\ word + 1 \notin left' /\ rows' = rows
    BY <1>6, <2>0, <2>3 DEF TableIsPacked
  <2> QED
    BY <1>3, <2>1, <2>2, <2>3
<1>9. ASSUME ~dropped' PROVE ~dropped /\ MergedIsThere'
  <2>0. ~dropped
    BY <1>3, <1>9
  <2>1. \A f \in Present(data) : /\ 2 * f - 1 \notin left' => has[f]
                                 /\ 2 * f \notin left' => val[f] = data.known[f]
    BY <1>4, <1>7, <2>0 DEF QuietInv, MergedIsThere
  <2>2. \A k \in DOMAIN data.unknown :
          2 * FieldCount + 2 * k \notin left => InTable(data.unknown[k])
    BY <1>4, <2>0 DEF QuietInv, MergedIsThere
  <2>3. ASSUME NEW k \in DOMAIN data.unknown, 2 * FieldCount + 2 * k \notin left'
        PROVE  InTable(data.unknown[k])'
    <3>1. CASE count' = count + 1 /\ rows' = rows /\ left' = left \ {word}
      <4>1. 2 * FieldCount + 2 * k \notin left
        <5>1. 2 * FieldCount + 2 * k # word
          <6>1. k \in Nat /\ j \in Nat
            BY <1>2
          <6> HIDE LiveAssumption
          <6> QED
            BY <1>1, <6>1
        <5> QED
          BY <2>3, <3>1, <5>1
      <4>2. PICK i \in 1 .. count : rows[i] = data.unknown[k]
        BY <2>2, <4>1 DEF InTable
      <4>3. i \in 1 .. count'
        BY <1>1, <3>1
      <4> QED
        BY <1>3, <3>1, <4>2, <4>3 DEF InTable
    <3>2. CASE /\ RowsOf(entry.id) # {} /\ count' = count
               /\ rows' = [i \in 1 .. MaxUnknown |-> IF i \in RowsOf(entry.id) THEN entry ELSE rows[i]]
      <4>1. CASE k = j
        <5>1. PICK i \in 1 .. count : i \in RowsOf(entry.id)
          BY <3>2 DEF RowsOf
        <5>2. rows'[i] = entry
          BY <1>1, <3>2, <5>1
        <5> QED
          BY <1>3, <3>2, <4>1, <5>2 DEF InTable
      <4>2. CASE k # j
        <5>1. PICK i \in 1 .. count : rows[i] = data.unknown[k]
          BY <1>5, <2>2, <2>3, <4>2 DEF InTable
        <5>2. data.unknown[k].id # entry.id
          <6>1. CASE data \in Message
            BY <4>2, <6>1
          <6>2. CASE data = Silence
            BY <6>2, SilenceIsEmpty
          <6> QED
            BY <1>1, <6>1, <6>2
        <5>3. rows'[i] = rows[i]
          BY <1>1, <3>2, <5>1, <5>2 DEF RowsOf
        <5> QED
          BY <1>3, <3>2, <5>1, <5>3 DEF InTable
      <4> QED
        BY <4>1, <4>2
    <3> QED
      BY <1>3, <1>9, <3>1, <3>2
  <2>4. place' # "idle" /\ Present(data)' = Present(data)
    BY <1>3, <1>4 DEF Present
  <2> QED
    BY <1>3, <2>0, <2>1, <2>3, <2>4 DEF MergedIsThere
<1> QED
  BY <1>3, <1>8, <1>9 DEF QuietInv, RepeatIsQuiet

(* Once a row is made, none is. *)
LEMMA MergeRowIsWhole ==
  ASSUME LiveInv, NEW j \in DOMAIN data.unknown, MergeRow(j)
  PROVE  ~Half'
<1> DEFINE word == 2 * FieldCount + 2 * j
<1>1. FieldCount \in Nat /\ data \in Message \cup {Silence}
  BY DEF LiveInv, LiveTypeOK
<1>2. IsNext(word) /\ left' = left \ {word} /\ data' = data
  BY DEF MergeRow
<1> SUFFICES ASSUME NEW k \in DOMAIN data.unknown, 2 * FieldCount + 2 * k \in left',
                    2 * FieldCount + 2 * k - 1 \notin left'
             PROVE  FALSE
  BY <1>2 DEF Half
<1>3. k \in Nat /\ j \in Nat
  BY <1>1, MessageType
<1>4. word \in left /\ \A w \in left : word <= w
  BY <1>2 DEF IsNext
<1>5. \A u \in left, w \in Words(data) : u <= w => w \in left
  BY DEF LiveInv, InWordOrder
<1>6. 2 * FieldCount + 2 * k - 1 \in Words(data)
  BY <1>1, WordsShape
<1>7. /\ word <= 2 * FieldCount + 2 * k /\ word # 2 * FieldCount + 2 * k
      /\ 2 * FieldCount + 2 * k - 1 # word
  <2> HIDE LiveAssumption
  <2> QED
    BY <1>1, <1>2, <1>3, <1>4
<1>8. word <= 2 * FieldCount + 2 * k - 1
  <2> HIDE LiveAssumption
  <2> QED
    BY <1>1, <1>3, <1>7
<1> QED
  BY <1>2, <1>4, <1>5, <1>6, <1>7, <1>8

LEMMA MergeRowIsQuiet ==
  ASSUME LiveInv, QuietInv, NEW j \in DOMAIN data.unknown, MergeRow(j)
  PROVE  QuietInv'
<1> DEFINE word == 2 * FieldCount + 2 * j
<1>1. /\ FieldCount \in Nat /\ MaxUnknown \in Nat /\ count \in 0 .. MaxUnknown
      /\ rows \in [1 .. MaxUnknown -> Row \cup {Blank}]
      /\ data \in Message \cup {Silence}
  BY DEF LiveInv, LiveTypeOK, Now, State
<1>2. \A k \in DOMAIN data.unknown : k \in Nat /\ k >= 1 /\ data.unknown[k] \in Row
  BY <1>1, MessageType
<1>3. /\ IsNext(word)
      /\ rows' = [rows EXCEPT ![count] = data.unknown[j]]
      /\ left' = left \ {word}
      /\ UNCHANGED <<has, val, count, place, data, changed, previous, dropped>>
  BY DEF MergeRow, ghosts
<1>4. place = "merge"
  BY <1>3, NextIsWritten
<1>5. Half
  <2>1. word \in left /\ \A w \in left : word <= w
    BY <1>3 DEF IsNext
  <2>2. 2 * FieldCount + 2 * j - 1 \notin left
    BY <1>1, <1>2, <2>1
  <2>3. \E k \in DOMAIN data.unknown :
          2 * FieldCount + 2 * k \in left /\ 2 * FieldCount + 2 * k - 1 \notin left
    <3> WITNESS j \in DOMAIN data.unknown
    <3> QED
      BY <2>1, <2>2
  <2> QED
    BY <2>3 DEF Half
<1>6. count \in 1 .. MaxUnknown /\ rows[count] = Blank
  BY <1>1, <1>5 DEF QuietInv, TableIsPacked
<1>7. ~Half'
  BY MergeRowIsWhole
<1>8. TableIsPacked'
  BY <1>1, <1>3, <1>7 DEF QuietInv, TableIsPacked
<1>9. ASSUME ~dropped PROVE MergedIsThere'
  <2>1. \A f \in Present(data) : /\ 2 * f - 1 \notin left' => has[f]
                                 /\ 2 * f \notin left' => val[f] = data.known[f]
    <3> TAKE f \in Present(data)
    <3>1. f \in Nat /\ f <= FieldCount /\ j \in Nat /\ j >= 1
      BY <1>1, <1>2 DEF Present, Field
    <3>2. 2 * f - 1 # word /\ 2 * f # word
      <4> HIDE LiveAssumption
      <4> QED
        BY <1>1, <3>1
    <3> QED
      BY <1>3, <1>4, <1>9, <3>2 DEF QuietInv, MergedIsThere
  <2>2. ASSUME NEW k \in DOMAIN data.unknown, 2 * FieldCount + 2 * k \notin left'
        PROVE  InTable(data.unknown[k])'
    <3>1. CASE k = j
      BY <1>1, <1>3, <1>6, <3>1 DEF InTable
    <3>2. CASE k # j
      <4>1. 2 * FieldCount + 2 * k \notin left
        BY <1>1, <1>2, <1>3, <2>2, <3>2
      <4>2. PICK i \in 1 .. count : rows[i] = data.unknown[k]
        BY <1>4, <1>9, <4>1 DEF QuietInv, MergedIsThere, InTable
      <4>3. i # count
        BY <1>2, <1>6, <4>2 DEF Row, Blank
      <4>4. rows'[i] = rows[i] /\ i \in 1 .. count'
        BY <1>1, <1>3, <4>3
      <4> QED
        BY <1>3, <4>2, <4>4 DEF InTable
    <3> QED
      BY <3>1, <3>2
  <2>3. place' # "idle" /\ Present(data)' = Present(data)
    BY <1>3, <1>4 DEF Present
  <2> QED
    BY <1>3, <2>1, <2>2, <2>3 DEF MergedIsThere
<1> QED
  BY <1>3, <1>8, <1>9 DEF QuietInv, RepeatIsQuiet

(* The other steps leave the state alone. *)
LEMMA OtherStepsAreQuiet ==
  ASSUME LiveInv, QuietInv,
         \/ MergeEnd
         \/ NotDue \/ PersistNothing \/ PersistOpen \/ PersistPage \/ PersistClose \/ Keep
         \/ Ask
         \/ \E r \in Reader : Copy(r)
         \/ UNCHANGED liveVars
  PROVE  QuietInv'
<1>1. /\ UNCHANGED <<has, val, rows, count, left, dropped>>
      /\ \/ /\ UNCHANGED <<data, changed, previous>>
            /\ place' # "merge" \/ place' = place
            /\ place = "idle" <=> place' = "idle"
         \/ place = "ask" /\ place' = "idle" /\ data' = Silence /\ previous' = data
  BY DEF MergeEnd, NotDue, PersistNothing, PersistOpen, PersistPage, PersistClose, Keep, Ask,
         Copy, CopyBegin, CopyWord, CopyEnd, liveVars, latest, worker, ghosts
<1>2. TableIsPacked'
  <2>1. Half' => Half
    <3>1. CASE data' = data
      BY <1>1, <3>1 DEF Half
    <3>2. CASE data' = Silence
      BY <3>2, SilenceIsEmpty DEF Half
    <3> QED
      BY <1>1, <3>1, <3>2
  <2> QED
    BY <1>1, <2>1 DEF QuietInv, TableIsPacked
<1>3. ASSUME ~dropped PROVE MergedIsThere'
  <2>1. CASE data' = data /\ previous' = previous /\ (place = "idle" <=> place' = "idle")
    BY <1>1, <1>3, <2>1 DEF QuietInv, MergedIsThere, InTable, Present
  <2>2. CASE place = "ask" /\ place' = "idle" /\ previous' = data
    <3>1. left = {}
      BY <2>2 DEF LiveInv, InWordOrder
    <3>2. /\ \A f \in Present(data) : has[f] /\ val[f] = data.known[f]
          /\ \A j \in DOMAIN data.unknown : InTable(data.unknown[j])
      BY <1>3, <2>2, <3>1 DEF QuietInv, MergedIsThere
    <3> QED
      BY <1>1, <2>2, <3>2 DEF MergedIsThere, InTable, Present
  <2> QED
    BY <1>1, <2>1, <2>2
<1> QED
  BY <1>1, <1>2, <1>3 DEF QuietInv, RepeatIsQuiet

LEMMA ResetIsQuiet ==
  ASSUME LiveReset PROVE QuietInv'
<1>1. ~Half'
  BY DEF LiveReset, Half
<1> QED
  BY <1>1, SilenceIsEmpty
     DEF LiveReset, QuietInv, TableIsPacked, MergedIsThere, RepeatIsQuiet, ZeroState, Present

LEMMA StepQuietInv ==
  LiveInv /\ QuietInv /\ [LiveNext]_liveVars => QuietInv'
<1> SUFFICES ASSUME LiveInv, QuietInv, [LiveNext]_liveVars PROVE QuietInv'
  OBVIOUS
<1>1. CASE LiveWorker
  BY <1>1, NotifyIsQuiet, MergeFieldIsQuiet, MergeCountIsQuiet, MergeRowIsQuiet,
     OtherStepsAreQuiet DEF LiveWorker, Merge
<1>2. CASE (\E r \in Reader : Copy(r)) \/ UNCHANGED liveVars
  BY <1>2, OtherStepsAreQuiet
<1>3. CASE LiveReset
  BY <1>3, ResetIsQuiet
<1> QED
  BY <1>1, <1>2, <1>3 DEF LiveNext

(* RepeatIsQuiet: for every set of messages and every size of the table, a *)
(* notification that says what the one before it said asks for nothing.    *)
THEOREM RepeatsAreQuiet == LiveSpec => []RepeatIsQuiet
<1>1. QuietInv => RepeatIsQuiet
  BY DEF QuietInv
<1> QED
  BY <1>1, LiveInvariant, QuietInitially, StepQuietInv, PTL DEF LiveSpec

-----------------------------------------------------------------------------
(* The file for the next boot *)

(* An unknown field has one row, also while that row is made. *)
RowsAreDistinct ==
  /\ \A i, k \in 1 .. count : rows[i].id = rows[k].id => i = k
  /\ \A j \in DOMAIN data.unknown :
       2 * FieldCount + 2 * j \in left /\ 2 * FieldCount + 2 * j - 1 \notin left =>
         RowsOf(data.unknown[j].id) = {}

(* A message without news merges what is there. *)
NothingIsNew ==
  place = "merge" /\ changed = {} =>
    /\ \A f \in Present(data) \ {Time} : has[f] /\ val[f] = data.known[f]
    /\ \A j \in DOMAIN data.unknown : InTable(data.unknown[j])
    /\ ~Half

Entries == [i \in 1 .. count |-> rows[i]]

Shows(text) ==
  /\ text \notin {NoText, Cut}
  /\ \A f \in Field \ {Time} : text.known[f] = IF has[f] THEN val[f] ELSE Absent
  /\ text.unknown = Entries

HasNews == count > 0 \/ \E f \in Field \ {Time} : has[f]

FileIsUpToDate ==
  /\ \/ place \in {"idle", "ask"}
     \/ place \in {"merge", "persist"} /\ changed = {}
     => (persisted /\ ~lacking /\ HasNews => Shows(file) /\ cache = file)
  /\ place = "keep" /\ ~lacking => file = Text(Now)

FileInv == RowsAreDistinct /\ NothingIsNew /\ FileIsUpToDate

LEMMA EntriesShape ==
  ASSUME LiveInv, ~Half
  PROVE  SubSeq(rows, 1, count) = Entries /\ Entries \in [1 .. count -> Row]
<1>1. /\ count \in 0 .. MaxUnknown /\ MaxUnknown \in Nat /\ count \in Nat
      /\ \A i \in 1 .. count : rows[i] \in Row
  BY DEF LiveInv, LiveTypeOK, Now, State, RowsAreFilled
<1>2. /\ SubSeq(rows, 1, count) \in Seq(Row)
      /\ Len(SubSeq(rows, 1, count)) = count
      /\ \A i \in 1 .. count : SubSeq(rows, 1, count)[i] = rows[i]
  <2>1. /\ SubSeq(rows, 1, count) \in Seq(Row)
        /\ Len(SubSeq(rows, 1, count)) = IF 1 <= count THEN count - 1 + 1 ELSE 0
        /\ \A i \in 1 .. count - 1 + 1 : SubSeq(rows, 1, count)[i] = rows[1 + i - 1]
    BY <1>1, SubSeqProperties
  <2> QED
    BY <1>1, <2>1
<1>3. SubSeq(rows, 1, count) \in [1 .. count -> Row]
  BY <1>2, LenProperties
<1> QED
  BY <1>1, <1>2, <1>3 DEF Entries

(* The text of a state that is not empty *)
LEMMA TextOfState ==
  ASSUME LiveInv, place # "merge", HasNews
  PROVE  Shows(Text(Now))
<1>1. ~Half
  BY NoHalf DEF LiveInv, InWordOrder
<1>2. /\ has \in [Field -> BOOLEAN] /\ val \in [Field -> Value] /\ count \in 0 .. MaxUnknown
  BY DEF LiveInv, LiveTypeOK, Now, State
<1> DEFINE known == [f \in Field |-> IF has[f] THEN val[f] ELSE Absent]
<1>3. ~(count = 0 /\ \A f \in Field : ~has[f])
  BY <1>2 DEF HasNews
<1>4. Text(Now) = [known |-> known, unknown |-> SubSeq(rows, 1, count)]
  BY <1>3 DEF Text, Now
<1>5. known \in [Field -> Value \cup {Absent}]
  BY <1>2
<1>6. SubSeq(rows, 1, count) = Entries /\ Entries \in [1 .. count -> Row]
  BY <1>1, EntriesShape
<1>7. [known |-> known, unknown |-> Entries] \notin {NoText, Cut}
  BY <1>2, <1>5, <1>6, TextAssumption
<1>8. \A f \in Field : known[f] = IF has[f] THEN val[f] ELSE Absent
  OBVIOUS
<1> HIDE DEF known
<1>9. /\ Text(Now) \notin {NoText, Cut}
      /\ Text(Now).known = known /\ Text(Now).unknown = Entries
  <2> HIDE LiveAssumption
  <2>1. Text(Now).known = known
    BY <1>4
  <2>2. Text(Now) = [known |-> known, unknown |-> Entries]
    BY <1>4, <1>6
  <2>3. Text(Now).unknown = Entries
    BY <2>2
  <2>4. Text(Now) \notin {NoText, Cut}
    BY <1>7, <2>2
  <2> QED
    BY <2>1, <2>3, <2>4
<1>10. \A f \in Field \ {Time} : Text(Now).known[f] = IF has[f] THEN val[f] ELSE Absent
  BY <1>8, <1>9
<1> QED
  BY <1>9, <1>10 DEF Shows

LEMMA FileInitially == LiveInit => FileInv
<1> SUFFICES ASSUME LiveInit PROVE FileInv
  OBVIOUS
<1> QED
  BY SilenceIsEmpty DEF LiveInit, Started, FileInv, RowsAreDistinct, NothingIsNew,
                       FileIsUpToDate, HasNews, ZeroState

LEMMA NotifyKeepsFile ==
  ASSUME LiveInv, FileInv, NEW m \in Message, Notify(m)
  PROVE  FileInv'
<1> USE DEF Notify
<1>1. m \in Message \cup {Silence} /\ left = {} /\ ~Half
  BY NoHalf DEF LiveInv, InWordOrder
<1>2. ~Half' /\ \A j \in DOMAIN m.unknown : 2 * FieldCount + 2 * j - 1 \in left'
  BY <1>1, WordsShape DEF Half
<1>3. RowsAreDistinct'
  BY <1>2 DEF FileInv, RowsAreDistinct, latest
<1>4. NothingIsNew'
  <2> SUFFICES ASSUME ChangedFields(m) = {}
               PROVE  /\ \A f \in Present(m) \ {Time} : has[f] /\ val[f] = m.known[f]
                      /\ \A j \in DOMAIN m.unknown : InTable(m.unknown[j])
    BY <1>2 DEF NothingIsNew, latest, InTable, Present
  <2>1. \A f \in Present(m) \ {Time} : has[f] /\ val[f] = m.known[f]
    <3> TAKE f \in Present(m) \ {Time}
    <3>1. ~(has[f] => val[f] # m.known[f])
      BY DEF ChangedFields
    <3> QED
      BY <3>1
  <2>2. ASSUME NEW j \in DOMAIN m.unknown PROVE InTable(m.unknown[j])
    <3>1. ~RowChanged(m.unknown[j])
      BY DEF ChangedFields
    <3>2. PICK i \in 1 .. count : rows[i].id = m.unknown[j].id /\ rows[i].value = m.unknown[j].value
      BY <3>1 DEF RowChanged, RowsOf
    <3>3. rows[i] \in Row /\ m.unknown[j] \in Row
      BY <1>1, MessageType DEF LiveInv, RowsAreFilled
    <3>4. rows[i] = m.unknown[j]
      BY <3>2, <3>3 DEF Row
    <3> QED
      BY <3>4 DEF InTable
  <2> QED
    BY <2>1, <2>2
<1>5. FileIsUpToDate'
  BY DEF FileInv, FileIsUpToDate, HasNews, Shows, Entries, latest, texts
<1> QED
  BY <1>3, <1>4, <1>5 DEF FileInv

LEMMA MergeFieldKeepsFile ==
  ASSUME LiveInv, FileInv, NEW f \in Field, MergeFlag(f) \/ MergeValue(f)
  PROVE  FileInv'
<1>1. /\ FieldCount \in Nat /\ f \in Nat /\ f >= 1 /\ f <= FieldCount
      /\ has \in [Field -> BOOLEAN] /\ val \in [Field -> Value]
      /\ data \in Message \cup {Silence}
  BY DEF Field, LiveInv, LiveTypeOK, Now, State
<1>2. /\ UNCHANGED <<rows, count, place, data, changed, texts>>
      /\ \/ has' = [has EXCEPT ![f] = TRUE] /\ val' = val /\ left' = left \ {2 * f - 1}
         \/ val' = [val EXCEPT ![f] = data.known[f]] /\ has' = has /\ left' = left \ {2 * f}
  BY DEF MergeFlag, MergeValue
<1>3. place = "merge" /\ f \in Present(data)
  <2>1. place = "merge" /\ (2 * f - 1 \in Words(data) \/ 2 * f \in Words(data))
    BY NextIsWritten DEF MergeFlag, MergeValue
  <2> QED
    BY <1>1, <2>1, WordsOfFields
<1>4. \A j \in DOMAIN data.unknown :
        /\ 2 * FieldCount + 2 * j \in left' <=> 2 * FieldCount + 2 * j \in left
        /\ 2 * FieldCount + 2 * j - 1 \in left' <=> 2 * FieldCount + 2 * j - 1 \in left
  <2> TAKE j \in DOMAIN data.unknown
  <2>1. j \in Nat /\ j >= 1
    BY <1>1, MessageType
  <2> HIDE LiveAssumption
  <2> QED
    BY <1>1, <1>2, <2>1
<1>5. Half' <=> Half
  BY <1>2, <1>4 DEF Half
<1>6. RowsAreDistinct'
  BY <1>2, <1>4 DEF FileInv, RowsAreDistinct, RowsOf
<1>7. ASSUME changed = {}
      PROVE  \A g \in Field \ {Time} : has'[g] = has[g] /\ val'[g] = val[g]
  <2> TAKE g \in Field \ {Time}
  <2>1. CASE g = f
    <3>1. has[f] = TRUE /\ val[f] = data.known[f]
      BY <1>1, <1>3, <1>7, <2>1 DEF FileInv, NothingIsNew
    <3> QED
      BY <1>1, <1>2, <2>1, <3>1
  <2>2. CASE g # f
    BY <1>1, <1>2, <2>2
  <2> QED
    BY <2>1, <2>2
<1>8. NothingIsNew'
  <2> SUFFICES ASSUME changed = {}
               PROVE  /\ \A g \in Present(data) \ {Time} : has'[g] /\ val'[g] = data.known[g]
                      /\ \A j \in DOMAIN data.unknown : InTable(data.unknown[j])
                      /\ ~Half
    BY <1>2, <1>5 DEF NothingIsNew, InTable, Present
  <2> QED
    BY <1>3, <1>7 DEF FileInv, NothingIsNew, Present
<1>9. FileIsUpToDate'
  <2> SUFFICES ASSUME changed = {}, persisted, ~lacking, HasNews'
               PROVE  Shows(file)' /\ cache' = file'
    BY <1>2, <1>3 DEF FileIsUpToDate, texts
  <2>1. HasNews
    BY <1>2, <1>7 DEF HasNews
  <2>2. Shows(file) /\ cache = file
    BY <1>3, <2>1 DEF FileInv, FileIsUpToDate
  <2> QED
    BY <1>2, <1>7, <2>2 DEF Shows, Entries, texts
<1> QED
  BY <1>6, <1>8, <1>9 DEF FileInv

LEMMA MergeCountKeepsFile ==
  ASSUME LiveInv, QuietInv, FileInv, NEW j \in DOMAIN data.unknown, MergeCount(j)
  PROVE  FileInv'
<1> DEFINE word == 2 * FieldCount + 2 * j - 1
           entry == data.unknown[j]
<1>1. /\ FieldCount \in Nat /\ MaxUnknown \in Nat /\ count \in 0 .. MaxUnknown
      /\ rows \in [1 .. MaxUnknown -> Row \cup {Blank}]
      /\ data \in Message \cup {Silence}
  BY DEF LiveInv, LiveTypeOK, Now, State
<1>2. /\ \A k \in DOMAIN data.unknown : k \in Nat /\ k >= 1 /\ data.unknown[k] \in Row
      /\ \A k \in DOMAIN data.unknown : data.unknown[k].id = entry.id => k = j
  <2>1. CASE data \in Message
    BY <1>1, <2>1, MessageType
  <2>2. CASE data = Silence
    BY <2>2, SilenceIsEmpty
  <2> QED
    BY <1>1, <2>1, <2>2
<1>3. /\ IsNext(word)
      /\ UNCHANGED <<has, val, place, data, changed, texts>>
      /\ \/ /\ RowsOf(entry.id) # {}
            /\ rows' = [i \in 1 .. MaxUnknown |-> IF i \in RowsOf(entry.id) THEN entry ELSE rows[i]]
            /\ left' = left \ {word, word + 1}
            /\ count' = count
         \/ /\ RowsOf(entry.id) = {} /\ count < MaxUnknown
            /\ count' = count + 1
            /\ left' = left \ {word}
            /\ rows' = rows
         \/ /\ RowsOf(entry.id) = {} /\ count = MaxUnknown
            /\ left' = left \ {word, word + 1}
            /\ rows' = rows /\ count' = count
  BY DEF MergeCount
<1>4. place = "merge" /\ ~Half /\ \A i \in 1 .. count : rows[i] \in Row
  <2>1. place = "merge" /\ ~Half
    BY <1>3, NoHalf, NextIsWritten
  <2> QED
    BY <2>1 DEF LiveInv, RowsAreFilled
<1>5. ASSUME NEW k \in DOMAIN data.unknown,
             2 * FieldCount + 2 * k \in left', 2 * FieldCount + 2 * k - 1 \notin left'
      PROVE  k = j /\ word + 1 \in left'
  <2>1. k = j
    <3> SUFFICES ASSUME k # j PROVE FALSE
      OBVIOUS
    <3>1. k \in Nat /\ j \in Nat
      BY <1>2
    <3>2. 2 * FieldCount + 2 * k \in left /\ 2 * FieldCount + 2 * k - 1 \notin left
      <4>1. 2 * FieldCount + 2 * k - 1 # word /\ 2 * FieldCount + 2 * k - 1 # word + 1
        <5> HIDE LiveAssumption
        <5> QED
          BY <1>1, <3>1
      <4> QED
        BY <1>3, <1>5, <4>1
    <3> QED
      BY <1>4, <3>2 DEF Half
  <2>2. word + 1 = 2 * FieldCount + 2 * j
    BY <1>1, <1>2
  <2> QED
    BY <1>5, <2>1, <2>2
<1>6. \A i, k \in 1 .. count : rows[i].id = rows[k].id => i = k
  BY DEF FileInv, RowsAreDistinct
<1>7. CASE /\ RowsOf(entry.id) # {} /\ count' = count
           /\ rows' = [i \in 1 .. MaxUnknown |-> IF i \in RowsOf(entry.id) THEN entry ELSE rows[i]]
           /\ left' = left \ {word, word + 1}
  <2>1. \A i \in 1 .. count : rows'[i].id = rows[i].id
    BY <1>1, <1>7 DEF RowsOf
  <2>2. ~Half'
    BY <1>3, <1>5, <1>7 DEF Half
  <2>3. RowsAreDistinct'
    BY <1>3, <1>5, <1>6, <1>7, <2>1 DEF RowsAreDistinct
  <2>4. ASSUME changed = {} PROVE \A i \in 1 .. count : rows'[i] = rows[i]
    <3>1. PICK i \in 1 .. count : rows[i] = entry
      BY <1>4, <2>4 DEF FileInv, NothingIsNew, InTable
    <3>2. \A k \in RowsOf(entry.id) : rows[k] = entry
      BY <1>6, <3>1 DEF RowsOf
    <3> QED
      BY <1>1, <1>7, <3>2
  <2>5. NothingIsNew'
    <3> SUFFICES ASSUME changed = {}
                 PROVE  \A k \in DOMAIN data.unknown : InTable(data.unknown[k])'
      BY <1>3, <1>4, <2>2 DEF FileInv, NothingIsNew, Present
    <3> TAKE k \in DOMAIN data.unknown
    <3>1. PICK i \in 1 .. count : rows[i] = data.unknown[k]
      BY <1>4 DEF FileInv, NothingIsNew, InTable
    <3> QED
      BY <1>3, <1>7, <2>4, <3>1 DEF InTable
  <2>6. FileIsUpToDate'
    <3> SUFFICES ASSUME changed = {}, persisted, ~lacking, HasNews'
                 PROVE  Shows(file)' /\ cache' = file'
      BY <1>3, <1>4 DEF FileIsUpToDate, texts
    <3>1. HasNews
      BY <1>3, <1>7 DEF HasNews
    <3>2. Shows(file) /\ cache = file
      BY <1>4, <3>1 DEF FileInv, FileIsUpToDate
    <3>3. Entries' = Entries
      BY <1>7, <2>4 DEF Entries
    <3> QED
      BY <1>3, <3>2, <3>3 DEF Shows, texts
  <2> QED
    BY <2>3, <2>5, <2>6 DEF FileInv
<1>8. CASE RowsOf(entry.id) = {}
  <2>1. changed # {}
    <3> SUFFICES ASSUME changed = {} PROVE FALSE
      OBVIOUS
    <3>1. PICK i \in 1 .. count : rows[i] = entry
      BY <1>4 DEF FileInv, NothingIsNew, InTable
    <3> QED
      BY <1>8, <3>1 DEF RowsOf
  <2>2. NothingIsNew' /\ FileIsUpToDate'
    BY <1>3, <1>4, <2>1 DEF NothingIsNew, FileIsUpToDate
  <2>3. CASE count' = count + 1 /\ rows' = rows /\ count < MaxUnknown
    <3>1. rows[count + 1] = Blank
      BY <1>1, <2>3 DEF QuietInv, TableIsPacked
    <3>2. \A i \in 1 .. count : rows[i].id # Absent
      BY <1>4 DEF Row
    <3>b. Blank.id = Absent
      BY DEF Blank
    <3>3. \A i \in 1 .. count' : i \in 1 .. count \/ i = count + 1
      BY <1>1, <2>3
    <3>4. \A i, k \in 1 .. count' : rows'[i].id = rows'[k].id => i = k
      BY <1>6, <2>3, <3>1, <3>2, <3>3, <3>b
    <3>5. RowsOf(entry.id)' = {}
      <4>1. entry.id # Absent
        BY <1>2 DEF Row
      <4>2. ASSUME NEW i \in 1 .. count' PROVE rows'[i].id # entry.id
        <5>1. CASE i \in 1 .. count
          <6>1. rows[i].id # entry.id
            BY <1>8, <5>1 DEF RowsOf
          <6> QED
            BY <2>3, <6>1
        <5>2. CASE i = count + 1
          BY <2>3, <3>1, <3>b, <4>1, <5>2
        <5> QED
          BY <3>3, <5>1, <5>2
      <4>3. entry' = entry
        BY <1>3
      <4> QED
        BY <4>2, <4>3 DEF RowsOf
    <3>6. \A k \in DOMAIN data'.unknown :
            2 * FieldCount + 2 * k \in left' /\ 2 * FieldCount + 2 * k - 1 \notin left' =>
              RowsOf(data.unknown[k].id)' = {}
      BY <1>3, <1>5, <3>5
    <3> QED
      BY <2>2, <3>4, <3>6 DEF FileInv, RowsAreDistinct
  <2>4. CASE count' = count /\ rows' = rows /\ left' = left \ {word, word + 1}
    <3>1. RowsAreDistinct'
      BY <1>3, <1>5, <1>6, <2>4 DEF RowsAreDistinct
    <3> QED
      BY <2>2, <3>1 DEF FileInv
  <2> QED
    BY <1>3, <1>8, <2>3, <2>4
<1> QED
  BY <1>3, <1>7, <1>8

LEMMA MergeRowKeepsFile ==
  ASSUME LiveInv, QuietInv, FileInv, NEW j \in DOMAIN data.unknown, MergeRow(j)
  PROVE  FileInv'
<1> DEFINE word == 2 * FieldCount + 2 * j
           entry == data.unknown[j]
<1>1. /\ FieldCount \in Nat /\ MaxUnknown \in Nat /\ count \in 0 .. MaxUnknown
      /\ rows \in [1 .. MaxUnknown -> Row \cup {Blank}]
      /\ data \in Message \cup {Silence}
  BY DEF LiveInv, LiveTypeOK, Now, State
<1>2. j \in Nat /\ j >= 1 /\ entry \in Row
  BY <1>1, MessageType
<1>3. /\ IsNext(word)
      /\ rows' = [rows EXCEPT ![count] = entry]
      /\ left' = left \ {word}
      /\ UNCHANGED <<has, val, count, place, data, changed, texts>>
  BY DEF MergeRow
<1>4. place = "merge"
  BY <1>3, NextIsWritten
<1>5. word \in left /\ 2 * FieldCount + 2 * j - 1 \notin left
  <2>1. word \in left /\ \A w \in left : word <= w
    BY <1>3 DEF IsNext
  <2> QED
    BY <1>1, <1>2, <2>1
<1>6. Half
  <2>1. \E k \in DOMAIN data.unknown :
          2 * FieldCount + 2 * k \in left /\ 2 * FieldCount + 2 * k - 1 \notin left
    <3> WITNESS j \in DOMAIN data.unknown
    <3> QED
      BY <1>5
  <2> QED
    BY <2>1 DEF Half
<1>7. changed # {}
  BY <1>4, <1>6 DEF FileInv, NothingIsNew
<1>8. RowsOf(entry.id) = {}
  BY <1>5 DEF FileInv, RowsAreDistinct
<1>9. \A i, k \in 1 .. count : rows'[i].id = rows'[k].id => i = k
  <2>1. \A i, k \in 1 .. count : rows[i].id = rows[k].id => i = k
    BY DEF FileInv, RowsAreDistinct
  <2>2. \A i \in 1 .. count : rows[i].id # entry.id
    BY <1>8 DEF RowsOf
  <2>3. \A i \in 1 .. count : rows'[i] = IF i = count THEN entry ELSE rows[i]
    BY <1>1, <1>3
  <2> QED
    BY <2>1, <2>2, <2>3
<1>10. ~Half'
  BY MergeRowIsWhole
<1>11. RowsAreDistinct'
  BY <1>3, <1>9, <1>10 DEF RowsAreDistinct, Half
<1>12. NothingIsNew' /\ FileIsUpToDate'
  BY <1>3, <1>4, <1>7 DEF NothingIsNew, FileIsUpToDate
<1> QED
  BY <1>11, <1>12 DEF FileInv

(* What is done after the merge *)
LEMMA PersistKeepsFile ==
  ASSUME LiveInv, FileInv,
         \/ MergeEnd \/ NotDue \/ PersistNothing \/ PersistOpen \/ PersistPage
         \/ PersistClose \/ Keep \/ Ask
  PROVE  FileInv'
<1>1. /\ UNCHANGED <<has, val, rows, count, left>> /\ left = {}
      /\ data' \in {data, Silence} /\ place' # "merge"
  BY DEF MergeEnd, NotDue, PersistNothing, PersistOpen, PersistPage, PersistClose, Keep, Ask,
         latest, LiveInv, InWordOrder
<1>2. RowsAreDistinct' /\ NothingIsNew'
  BY <1>1 DEF FileInv, RowsAreDistinct, NothingIsNew
<1>3. HasNews' = HasNews /\ Entries' = Entries
  BY <1>1 DEF HasNews, Entries
<1>4. place # "merge" /\ HasNews => Shows(Text(Now))
  BY TextOfState
<1>5. FileIsUpToDate
  BY DEF FileInv
<1>6. ASSUME MergeEnd PROVE FileIsUpToDate'
  BY <1>1, <1>3, <1>5, <1>6 DEF MergeEnd, FileIsUpToDate, Shows, texts
<1>7. ASSUME NotDue PROVE FileIsUpToDate'
  BY <1>1, <1>3, <1>5, <1>7 DEF NotDue, FileIsUpToDate, Shows, texts
<1>8. ASSUME PersistNothing PROVE FileIsUpToDate'
  <2>1. lacking' = TRUE \/ Text(Now) = NoText
    BY <1>8 DEF PersistNothing
  <2>2. HasNews => Text(Now) # NoText
    BY <1>4, <1>8 DEF PersistNothing, Shows
  <2> QED
    BY <1>3, <1>8, <2>1, <2>2 DEF PersistNothing, FileIsUpToDate
<1>9. ASSUME PersistOpen \/ PersistPage PROVE FileIsUpToDate'
  BY <1>9 DEF PersistOpen, PersistPage, FileIsUpToDate
<1>10. ASSUME PersistClose PROVE FileIsUpToDate'
  <2>1. Text(Now)' = Text(Now)
    BY <1>10 DEF PersistClose, Text, Now, latest
  <2>2. place' = "keep" /\ (lacking' = TRUE \/ file' = Text(Now))
    BY <1>10 DEF PersistClose
  <2> QED
    BY <2>1, <2>2 DEF FileIsUpToDate
<1>11. ASSUME Keep PROVE FileIsUpToDate'
  <2>1. /\ place' = "ask" /\ cache' = Text(Now)
        /\ UNCHANGED <<file, lacking>> /\ place = "keep"
    BY <1>11 DEF Keep
  <2>2. HasNews /\ ~lacking => Shows(file) /\ file = Text(Now)
    BY <1>4, <1>5, <2>1 DEF FileIsUpToDate
  <2> QED
    BY <1>1, <1>3, <2>1, <2>2 DEF FileIsUpToDate, Shows
<1>12. ASSUME Ask PROVE FileIsUpToDate'
  BY <1>1, <1>3, <1>5, <1>12 DEF Ask, FileIsUpToDate, Shows, texts
<1> QED
  BY <1>2, <1>6, <1>7, <1>8, <1>9, <1>10, <1>11, <1>12 DEF FileInv

LEMMA ReadersKeepFile ==
  ASSUME FileInv, (\E r \in Reader : Copy(r)) \/ UNCHANGED liveVars
  PROVE  FileInv'
<1>1. UNCHANGED <<has, val, rows, count, left, data, place, changed, texts>>
  BY DEF Copy, CopyBegin, CopyWord, CopyEnd, liveVars, latest, worker
<1>2. /\ Half' = Half /\ Entries' = Entries /\ HasNews' = HasNews
      /\ Text(Now)' = Text(Now)
  BY <1>1 DEF Half, Entries, HasNews, Text, Now, texts
<1>3. RowsAreDistinct' /\ NothingIsNew'
  BY <1>1, <1>2 DEF FileInv, RowsAreDistinct, NothingIsNew, RowsOf, InTable, Present
<1>4. FileIsUpToDate'
  BY <1>1, <1>2 DEF FileInv, FileIsUpToDate, Shows, texts
<1> QED
  BY <1>3, <1>4 DEF FileInv

LEMMA ResetKeepsFile ==
  ASSUME LiveReset PROVE FileInv'
BY SilenceIsEmpty DEF LiveReset, FileInv, RowsAreDistinct, NothingIsNew, FileIsUpToDate,
                      ZeroState

LEMMA StepFileInv ==
  LiveInv /\ QuietInv /\ FileInv /\ [LiveNext]_liveVars => FileInv'
<1> SUFFICES ASSUME LiveInv, QuietInv, FileInv, [LiveNext]_liveVars PROVE FileInv'
  OBVIOUS
<1>1. CASE LiveWorker
  BY <1>1, NotifyKeepsFile, MergeFieldKeepsFile, MergeCountKeepsFile, MergeRowKeepsFile,
     PersistKeepsFile DEF LiveWorker, Merge
<1>2. CASE (\E r \in Reader : Copy(r)) \/ UNCHANGED liveVars
  BY <1>2, ReadersKeepFile
<1>3. CASE LiveReset
  BY <1>3, ResetKeepsFile
<1> QED
  BY <1>1, <1>2, <1>3 DEF LiveNext

(* FileFollowsState: for every set of messages and every size of the       *)
(* table, however the five seconds fall, the file and the text in memory   *)
(* agree with the state between two messages.                              *)
THEOREM FileAgreesWithState == LiveSpec => []FileFollowsState
<1>1. LiveInv /\ FileInv => FileFollowsState
  <2> SUFFICES ASSUME LiveInv, FileInv, place = "idle", persisted, ~lacking,
                      count > 0 \/ \E f \in Field \ {Time} : has[f]
               PROVE  /\ file \notin {NoText, Cut}
                      /\ \A f \in Field \ {Time} : file.known[f] = Text(Now).known[f]
                      /\ file.unknown = Text(Now).unknown
                      /\ cache = file
    BY DEF FileFollowsState
  <2>1. Shows(file) /\ cache = file
    BY DEF FileInv, FileIsUpToDate, HasNews
  <2>2. Shows(Text(Now))
    BY TextOfState DEF HasNews
  <2> QED
    BY <2>1, <2>2 DEF Shows
<1> QED
  BY <1>1, LiveInvariant, QuietInitially, StepQuietInv, FileInitially, StepFileInv, PTL
     DEF LiveSpec

-----------------------------------------------------------------------------
(* The worker and the rules *)

USE LiveAutomationAssumption

LEMMA LAInvInitially == LAInit => LAInv
<1> SUFFICES ASSUME LAInit PROVE LAInv
  OBVIOUS
<1> USE DEF LAInit, LiveInit, Started
<1>1. QueueInv
  BY InvInitially
<1>2. LATypes
  BY DEF LATypes, ZeroState
<1>3. MaskCovers
  BY DEF MaskCovers
<1>4. NewsIsUnderWay
  BY DEF NewsIsUnderWay, ZeroState
<1> QED
  BY <1>1, <1>2, <1>3, <1>4 DEF LAInv

(* The steps of the queue. *)
LEMMA QueueSteps ==
  ASSUME LAInv, LANext PROVE QueueInv'
<1>1. changed \in Mask
  BY DEF LAInv, LATypes, Mask
<1>2. [QueueNext]_queueVars
  BY <1>1 DEF LANext, Decode, AskInVain, AskQueue, RequestStep, EvaluateBegin, ReadField,
              EvaluateEnd, EvaluateSkip, LAReset, QueueNext, Producer, Worker
<1> QED
  BY <1>2, InvPreserved DEF LAInv

(* What the worker does between two requests. *)
LEMMA DecodePreserves ==
  ASSUME LAInv, Decode PROVE LATypes' /\ MaskCovers' /\ NewsIsUnderWay'
<1> USE DEF LAInv, LATypes, MaskCovers, NewsIsUnderWay
<1>q. UNCHANGED <<queue, mask, hand, unread, seen, missed>> /\ Bits(queue)' = Bits(queue)
  BY DEF Decode, queueVars, evalVars, Bits
<1>1. ASSUME NEW m \in Message, Notify(m) PROVE LATypes' /\ MaskCovers' /\ NewsIsUnderWay'
  <2>1. /\ data' = m /\ changed' = ChangedFields(m) /\ left' = Words(m) /\ place' = "merge"
        /\ has' = has /\ val' = val
    BY <1>1 DEF Notify, latest
  <2>2. ChangedFields(m) \subseteq Bit
    BY DEF ChangedFields, Present, Bit
  <2>3. changed = {}
    BY <1>1 DEF Notify
  <2>4. \A f \in Present(m) \ ({Time} \cup changed') : has[f] /\ val[f] = m.known[f]
    <3> SUFFICES ASSUME NEW f \in Present(m), f # Time, f \notin ChangedFields(m)
                 PROVE  has[f] /\ val[f] = m.known[f]
      BY <2>1
    <3>1. ~(has[f] => val[f] # m.known[f])
      BY DEF ChangedFields
    <3> QED
      BY <3>1
  <2>5. LATypes'
    BY <1>q, <2>1, <2>2
  <2>6. MaskCovers'
    BY <2>1, <2>4
  <2>7. NewsIsUnderWay'
    BY <1>q, <2>1, <2>3
  <2> QED
    BY <2>5, <2>6, <2>7
<1>2. ASSUME NEW f \in Field, MergeFlag(f) PROVE LATypes' /\ MaskCovers' /\ NewsIsUnderWay'
  <2>1. f \in Present(data) /\ place = "merge"
    BY <1>2, WordsOfFields DEF MergeFlag, IsNext
  <2>2. UNCHANGED <<val, place, data, changed>> /\ left' = left \ {2 * f - 1}
    BY <1>2 DEF MergeFlag
  <2>3. has' = [has EXCEPT ![f] = TRUE]
    BY <1>2 DEF MergeFlag
  <2>4. \A g \in Field : has'[g] # has[g] => g = f /\ (f = Time \/ f \in changed)
    BY <2>1, <2>3
  <2>5. LATypes'
    BY <1>q, <2>2, <2>3
  <2>6. MaskCovers'
    BY <2>1, <2>2, <2>3 DEF Present
  <2>7. NewsIsUnderWay'
    BY <1>q, <2>2, <2>4
  <2> QED
    BY <2>5, <2>6, <2>7
<1>3. ASSUME NEW f \in Field, MergeValue(f) PROVE LATypes' /\ MaskCovers' /\ NewsIsUnderWay'
  <2>1. f \in Present(data) /\ place = "merge"
    BY <1>3, WordsOfFields DEF MergeValue, IsNext
  <2>2. UNCHANGED <<has, place, data, changed>> /\ left' = left \ {2 * f}
    BY <1>3 DEF MergeValue
  <2>3. val' = [val EXCEPT ![f] = data.known[f]]
    BY <1>3 DEF MergeValue
  <2>4. \A g \in Field : val'[g] # val[g] => g = f /\ (f = Time \/ f \in changed)
    BY <2>1, <2>3
  <2>5. data.known[f] \in Value
    BY <2>1 DEF Present, Silence
  <2>6. LATypes'
    BY <1>q, <2>2, <2>3, <2>5
  <2>7. MaskCovers'
    BY <2>1, <2>2, <2>3 DEF Present
  <2>8. NewsIsUnderWay'
    BY <1>q, <2>2, <2>4
  <2> QED
    BY <2>6, <2>7, <2>8
<1>4. ASSUME NEW j \in DOMAIN data.unknown, MergeCount(j) \/ MergeRow(j)
      PROVE  LATypes' /\ MaskCovers' /\ NewsIsUnderWay'
  <2>1. UNCHANGED <<has, val, place, data, changed>> /\ left' \subseteq left
    BY <1>4 DEF MergeCount, MergeRow, ghosts
  <2>2. LATypes'
    BY <1>q, <2>1
  <2>3. MaskCovers'
    BY <2>1
  <2>4. NewsIsUnderWay'
    BY <1>q, <2>1
  <2> QED
    BY <2>2, <2>3, <2>4
<1>5. CASE MergeEnd \/ NotDue \/ PersistNothing \/ PersistOpen \/ PersistPage \/ PersistClose \/ Keep
  <2>1. /\ UNCHANGED <<has, val, data, changed, left>>
        /\ place' \notin {"idle", "merge"}
        /\ left = {}
    BY <1>5 DEF MergeEnd, NotDue, PersistNothing, PersistOpen, PersistPage, PersistClose, Keep, latest
  <2>2. LATypes'
    BY <1>q, <2>1
  <2>3. MaskCovers'
    BY <2>1
  <2>4. NewsIsUnderWay'
    BY <1>q, <2>1
  <2> QED
    BY <2>2, <2>3, <2>4
<1> QED
  BY <1>1, <1>2, <1>3, <1>4, <1>5 DEF Decode, Merge

(* The steps of the queue keep what waits in it. *)
LEMMA RequestKeeps ==
  ASSUME LAInv, RequestStep PROVE mask' \cup Bits(queue)' = mask \cup Bits(queue)
<1> USE DEF LAInv, QueueInv, QueueTypeOK
<1>1. queue \in Seq(Mask) /\ mask \in Mask /\ Len(queue) \in Nat
  <2>1. queue \in Seq(Mask \ {{}})
    OBVIOUS
  <2> QED
    BY <2>1, LenProperties
<1>2. CASE Send
  <2>1. CASE Len(queue) < Capacity
    <3>1. queue' = Append(queue, mask) /\ mask' = {}
      BY <1>2, <2>1 DEF Send, Return
    <3>2. Bits(queue)' = Bits(Append(queue, mask))
      BY <3>1 DEF Bits
    <3> QED
      BY <1>1, <3>1, <3>2, BitsOfAppend
  <2>2. CASE ~(Len(queue) < Capacity)
    <3>1. UNCHANGED <<queue, mask>>
      BY <1>2, <2>2 DEF Send
    <3> QED
      BY <3>1 DEF Bits
  <2> QED
    BY <2>1, <2>2
<1>3. CASE Take
  <2>1. CASE queue # <<>>
    BY <1>1, <1>3, <2>1, BitsOfHeadAndTail DEF Take, Bits
  <2>2. CASE queue = <<>>
    BY <1>3, <2>2 DEF Take, Bits
  <2> QED
    BY <2>1, <2>2
<1>4. CASE Resend
  <2>1. queue' = Append(queue, mask) /\ mask' = {}
    BY <1>4 DEF Resend, Return, SecondSendFits
  <2>2. Bits(queue)' = Bits(Append(queue, mask))
    BY <2>1 DEF Bits
  <2> QED
    BY <1>1, <2>1, <2>2, BitsOfAppend
<1> QED
  BY <1>2, <1>3, <1>4 DEF RequestStep

LEMMA LAInvPreserved == LAInv /\ [LANext]_laVars => LAInv'
<1> SUFFICES ASSUME LAInv, [LANext]_laVars PROVE LAInv'
  OBVIOUS
<1> USE DEF LAInv, LATypes, MaskCovers, NewsIsUnderWay
<1>1. CASE Decode
  BY <1>1, QueueSteps, DecodePreserves DEF LANext
<1>2. CASE AskInVain
  <2>1. /\ UNCHANGED <<has, val, left, mask, queue, hand, unread, seen>>
        /\ missed' = missed \cup changed /\ changed' = {} /\ data' = Silence /\ place' = "idle"
        /\ left = {}
    BY <1>2 DEF AskInVain, Ask, latest, queueVars
  <2>2. Bits(queue)' = Bits(queue)
    BY <2>1 DEF Bits
  <2> QED
    BY <1>2, <2>1, <2>2, QueueSteps DEF LANext
<1>3. CASE AskQueue
  <2>1. /\ UNCHANGED <<has, val, left, queue, hand, unread, seen, missed>>
        /\ mask' = changed /\ mask = {} /\ changed' = {} /\ data' = Silence /\ place' = "idle"
        /\ left = {}
    BY <1>3 DEF AskQueue, Ask, Request, latest, evalVars, QueueInv, QueueTypeOK
  <2>2. Bits(queue)' = Bits(queue)
    BY <2>1 DEF Bits
  <2> QED
    BY <1>3, <2>1, <2>2, QueueSteps DEF LANext
<1>4. CASE RequestStep
  <2>1. UNCHANGED <<has, val, place, data, left, changed, hand, unread, seen, missed>>
    BY <1>4 DEF RequestStep, liveVars, latest, worker, evalVars, Send, Take, Resend
  <2> QED
    BY <1>4, <2>1, QueueSteps, RequestKeeps DEF LANext
<1>5. CASE EvaluateBegin
  <2>1. /\ UNCHANGED <<has, val, place, data, left, changed, mask, seen, missed>>
        /\ queue # <<>> /\ queue' = Tail(queue) /\ hand = {} /\ hand' = Head(queue)
        /\ unread' = Head(queue) \cap Field
    BY <1>5 DEF EvaluateBegin, Receive, liveVars, latest, worker
  <2>2. queue \in Seq(Mask \ {{}})
    BY DEF QueueInv, QueueTypeOK
  <2>3. Bits(queue) = Head(queue) \cup Bits(queue)'
    <3>1. Bits(queue)' = Bits(Tail(queue))
      BY <2>1 DEF Bits
    <3>2. queue \in Seq(Mask)
      BY <2>2
    <3> QED
      BY <2>1, <3>1, <3>2, BitsOfHeadAndTail
  <2>4. NewsIsUnderWay'
    BY <2>1, <2>3
  <2> QED
    BY <1>5, <2>1, <2>4, QueueSteps DEF LANext
<1>6. ASSUME NEW f \in Field, ReadField(f) PROVE LAInv'
  <2>1. /\ UNCHANGED <<has, val, place, data, left, changed, mask, queue, hand>>
        /\ seen' = [seen EXCEPT ![f] = IF has[f] THEN val[f] ELSE Absent]
        /\ unread' = unread \ {f} /\ missed' = missed \ {f}
    BY <1>6 DEF ReadField, liveVars, latest, worker, queueVars
  <2>2. Bits(queue)' = Bits(queue)
    BY <2>1 DEF Bits
  <2>3. LATypes'
    BY <2>1
  <2>4. NewsIsUnderWay'
    BY <2>1, <2>2
  <2>5. MaskCovers'
    BY <2>1
  <2> QED
    BY <1>6, <2>3, <2>4, <2>5, QueueSteps DEF LANext
<1>7. CASE EvaluateEnd \/ EvaluateSkip
  <2>1. /\ UNCHANGED <<has, val, place, data, left, changed, mask, queue, seen>>
        /\ unread' = {} /\ missed \subseteq missed' /\ unread \subseteq missed'
    BY <1>7 DEF EvaluateEnd, EvaluateSkip, Evaluate, liveVars, latest, worker, evalVars
  <2>2. Bits(queue)' = Bits(queue)
    BY <2>1 DEF Bits
  <2> QED
    BY <1>7, <2>1, <2>2, QueueSteps DEF LANext
<1>8. CASE (Start \/ SetActive) /\ UNCHANGED <<liveVars, evalVars>>
  <2>1. /\ UNCHANGED <<has, val, place, data, left, changed, mask, queue, seen, hand, unread, missed>>
    BY <1>8 DEF Start, SetActive, liveVars, latest, worker, evalVars
  <2>2. Bits(queue)' = Bits(queue)
    BY <2>1 DEF Bits
  <2>3. QueueInv'
    BY <1>8, QueueSteps DEF LANext
  <2> QED
    BY <2>1, <2>2, <2>3
<1>9. CASE LAReset
  <2>1. /\ has' = [f \in Field |-> FALSE] /\ val' = [f \in Field |-> 0]
        /\ place' = "idle" /\ data' = Silence /\ left' = {} /\ changed' = {}
        /\ unread' = {} /\ seen' = [f \in Field |-> Absent]
    BY <1>9 DEF LAReset, LiveReset, ZeroState
  <2>2. LATypes' /\ MaskCovers' /\ NewsIsUnderWay'
    BY <2>1
  <2> QED
    BY <1>9, <2>2, QueueSteps DEF LANext
<1>10. CASE UNCHANGED laVars
  <2>1. UNCHANGED queueVars /\ UNCHANGED liveVars /\ UNCHANGED evalVars
    BY <1>10 DEF laVars
  <2>2. QueueInv'
    BY <2>1, InvPreserved
  <2>3. Bits(queue)' = Bits(queue)
    BY <2>1 DEF queueVars, Bits
  <2> QED
    BY <2>1, <2>2, <2>3 DEF liveVars, latest, worker, queueVars, evalVars
<1> QED
  BY <1>1, <1>2, <1>3, <1>4, <1>5, <1>6, <1>7, <1>8, <1>9, <1>10 DEF LANext

(* The invariant of the way from a notification to an evaluation.          *)
THEOREM LAInvariant == LASpec => []LAInv
  BY LAInvInitially, LAInvPreserved, PTL DEF LASpec

(* When everything is quiet, the rules have seen the latest values         *)
(* (live_data_decode.c:887-893, automation.c:1060-1175).                   *)
THEOREM RulesSeeTheLatest == LASpec => []EvaluatesLatest
<1>1. LAInv => EvaluatesLatest
  <2> SUFFICES ASSUME LAInv, Quiet, NEW f \in Field \ {Time}, has[f], f \notin missed
               PROVE  seen[f] = val[f]
    BY DEF EvaluatesLatest
  <2>1. changed = {} /\ mask = {} /\ unread = {}
    BY DEF Quiet, LAInv, MaskCovers, LATypes, QueueInv, QueueTypeOK
  <2>2. Bits(queue) = {}
    <3>1. queue = <<>> /\ Len(queue) = 0
      BY EmptySeq DEF Quiet
    <3> QED
      BY <3>1 DEF Bits
  <2> QED
    BY <2>1, <2>2 DEF LAInv, NewsIsUnderWay
<1> QED
  BY <1>1, LAInvariant, PTL
=============================================================================
