------------------------------ MODULE LogStore ------------------------------
(***************************************************************************)
(* main/log_store.c: the runtime log, a ring of bytes in memory.  Any task *)
(* may log (log_store_vprintf is the vprintf of esp_log), and the HTTP     *)
(* server and the exporter copy the ring.  Both hold the spinlock log_lock *)
(* over their loop; the bytes are stored one step each, so that what the   *)
(* lock is for can be seen, and a copy is one step.                        *)
(***************************************************************************)
EXTENDS Naturals, Sequences

CONSTANTS
  Size,      (* LOG_STORE_SIZE                                             *)
  LineSize,  (* LOG_LINE_SIZE                                              *)
  Byte,      (* characters                                                 *)
  newline,
  Line,      (* what vsnprintf would print, had it the room                *)
  OutLen     (* the sizes of the callers' buffers                          *)

ASSUME LogStoreAssumption ==
  /\ Size \in Nat \ {0}
  /\ LineSize \in Nat /\ LineSize > 2
  /\ newline \in Byte
  /\ Line \subseteq Seq(Byte)
  /\ OutLen \subseteq Nat

VARIABLES
  buffer,   (* log_buffer                                                  *)
  head,     (* log_head                                                    *)
  wrapped,  (* log_wrapped                                                 *)
  rest,     (* the bytes that the task inside store_bytes has to store;    *)
            (* log_lock is taken until there are none                      *)
  out       (* what the last log_store_copy returned                       *)

ringVars == <<buffer, head, wrapped, rest, out>>

Offset == 0 .. Size - 1

RingInit ==
  /\ buffer = [i \in Offset |-> newline]
  /\ head = 0
  /\ wrapped = FALSE
  /\ rest = <<>>
  /\ out = <<>>

(* vsnprintf and the newline that a cut line ends with *)
Stored(line) ==
  IF Len(line) >= LineSize
    THEN Append([i \in 1 .. LineSize - 2 |-> line[i]], newline)
    ELSE line

Unlocked == rest = <<>>

(* log_store_vprintf, up to the lock *)
Vprintf(line) ==
  /\ Unlocked
  /\ line # <<>>
  /\ rest' = Stored(line)
  /\ UNCHANGED <<buffer, head, wrapped, out>>

StoreByte ==
  /\ rest # <<>>
  /\ buffer' = [buffer EXCEPT ![head] = rest[1]]
  /\ head' = (head + 1) % Size
  /\ wrapped' = (wrapped \/ head' = 0)
  /\ rest' = Tail(rest)
  /\ UNCHANGED out

Used == IF wrapped THEN Size ELSE head
Start == IF wrapped THEN head ELSE 0
Least(a, b) == IF a <= b THEN a ELSE b

(* A slip for the mutation runs: the drop is forgotten in the start. *)
LogStoreCopy_First(n) ==
  /\ Unlocked
  /\ n > 0
  /\ out' = [i \in 1 .. Least(Used, n - 1) |-> buffer[(Start + (i - 1)) % Size]]
  /\ UNCHANGED <<buffer, head, wrapped, rest>>

(* log_store_copy: what does not fit is dropped from the start. *)
LogStoreCopy(n) ==
  /\ Unlocked
  /\ n > 0
  /\ LET len == Least(Used, n - 1)
         start == (Start + (Used - len)) % Size
     IN  out' = [i \in 1 .. len |-> buffer[(start + (i - 1)) % Size]]
  /\ UNCHANGED <<buffer, head, wrapped, rest>>

(* A restart clears the memory. *)
RingReset ==
  /\ buffer' = [i \in Offset |-> newline]
  /\ head' = 0
  /\ wrapped' = FALSE
  /\ rest' = <<>>
  /\ out' = <<>>

RingStep ==
  \/ \E line \in Line : Vprintf(line)
  \/ StoreByte
  \/ \E n \in OutLen : LogStoreCopy(n)

RingSpec == RingInit /\ [][RingStep \/ RingReset]_ringVars

-----------------------------------------------------------------------------
(* Properties                                                              *)

RingTypeOK ==
  /\ buffer \in [Offset -> Byte]
  /\ head \in Offset
  /\ wrapped \in BOOLEAN
  /\ rest \in Seq(Byte)
  /\ out \in Seq(Byte)

Contents == [i \in 1 .. Used |-> buffer[(Start + (i - 1)) % Size]]

(* What the log has taken, with the rest of the line under way. *)
Taken == Contents \o rest

EndOf(s) ==
  IF Len(s) <= Size THEN s ELSE [i \in 1 .. Size |-> s[Len(s) - Size + i]]

Log == INSTANCE LastBytes WITH
  Capacity <- Size,
  Whole <- {Stored(line) : line \in Line},
  Room <- {n - 1 : n \in OutLen \ {0}},
  tail <- EndOf(Taken),
  copy <- out

(* A copy is the end of the log, oldest byte first, however often the head *)
(* has gone round the ring (24-30, 69-79), and no copy has a line that is  *)
(* half stored or mixed with another task's: the ring implements the log   *)
(* that takes whole lines and keeps the last Size bytes.                   *)
ImplementsLastBytes == Log!LastSpec
=============================================================================
