--------------------------- MODULE PersistentLog ---------------------------
(***************************************************************************)
(* main/persistent_log.c: the log in the SPIFFS partition, a current and a *)
(* previous file that change places when the current one is full.  Any     *)
(* task logs; log_mutex is waited for 200 ms at most, and whoever does not *)
(* get it drops its line.                                                  *)
(*                                                                         *)
(* The file system is not part of the code: a call may fail, and a reset   *)
(* may strike between any two of them; remove and rename are done or not   *)
(* done, and a write may have been cut.  A file without a byte stands for  *)
(* one that does not exist.  Lines are numbered as they are written;       *)
(* formatting is left out, and so are paths, which only callers use.       *)
(***************************************************************************)
EXTENDS Naturals, Sequences

CONSTANTS
  Logger,     (* the tasks that log                                        *)
  MaxBytes,   (* PERSISTENT_LOG_MAX_BYTES                                  *)
  LineLen,    (* the lengths of lines, with their newline                  *)
  MaxLines,   (* bound on the lines that are written                       *)
  Nobody,
  DiskFaults  (* whether calls of the file system fail                     *)

ASSUME PersistentLogAssumption ==
  /\ MaxBytes \in Nat /\ MaxLines \in Nat
  /\ LineLen \subseteq 1 .. MaxBytes
  /\ \E n \in LineLen : \A m \in LineLen : m <= n
  /\ Nobody \notin Logger
  /\ DiskFaults \in BOOLEAN

VARIABLES
  mounted,   (* mounted                                                    *)
  mutex,     (* the task that has log_mutex, or Nobody                     *)
  at,        (* at[t]: the next call in append_line, or "idle"             *)
  len,       (* len[t]: the length of its line                             *)
  recent,    (* less than 5 s since last_bike_sample_us                    *)
  current,   (* bike.log: [line, len, whole] for each write         [disk] *)
  previous,  (* bike.log.1                                          [disk] *)
  lines,     (* how many writes there were since the formatting            *)
  total,     (* and the bytes of them, up to MaxBytes                      *)
  stuck      (* a rename has failed since the formatting                   *)

callers == <<at, len>>
files == <<current, previous>>
counts == <<lines, total, stuck>>
fileVars == <<mounted, mutex, callers, recent, files, counts>>

FilesInit ==
  /\ mounted = FALSE
  /\ mutex = Nobody
  /\ at = [t \in Logger |-> "idle"]
  /\ len = [t \in Logger |-> 0]
  /\ recent = FALSE
  /\ current = <<>> /\ previous = <<>>
  /\ lines = 0 /\ total = 0 /\ stuck = FALSE

SizeOf(file) == LET upTo[i \in 0 .. Len(file)] ==
                      IF i = 0 THEN 0 ELSE upTo[i - 1] + file[i].len
                IN  upTo[Len(file)]

UpTo(n, most) == IF n <= most THEN n ELSE most

-----------------------------------------------------------------------------
(* persistent_log_init, which logs a line itself; a partition that cannot  *)
(* be mounted is formatted.                                                *)
Mount ==
  /\ ~mounted
  /\ mounted' = TRUE
  /\ \E t \in Logger : at' = [at EXCEPT ![t] = "take"]
  /\ \/ UNCHANGED <<files, counts>>
     \/ /\ DiskFaults
        /\ current' = <<>> /\ previous' = <<>>
        /\ lines' = 0 /\ total' = 0 /\ stuck' = FALSE
  /\ UNCHANGED <<mutex, len, recent>>

Step(t, from, to) ==
  /\ at[t] = from
  /\ at' = [at EXCEPT ![t] = to]

(* persistent_log_event, up to the mutex *)
Event(t) ==
  /\ mounted
  /\ Step(t, "idle", "take")

LogEvent(t) == Event(t) /\ UNCHANGED <<mounted, mutex, len, recent, files, counts>>

(* persistent_log_bike_data *)
LogBikeData(t) ==
  /\ ~recent
  /\ recent' = TRUE
  /\ Event(t)
  /\ UNCHANGED <<mounted, mutex, len, files, counts>>

FiveSeconds ==
  /\ recent
  /\ recent' = FALSE
  /\ UNCHANGED <<mounted, mutex, callers, files, counts>>

(* The length of the line matters from here on. *)
Enter(t) ==
  /\ Step(t, "take", "rotate")
  /\ \E n \in LineLen : len' = [len EXCEPT ![t] = n]
  /\ UNCHANGED <<mounted, recent, files, counts>>

Take(t) ==
  /\ mutex = Nobody
  /\ mutex' = t
  /\ Enter(t)

Return(t) == at' = [at EXCEPT ![t] = "idle"] /\ len' = [len EXCEPT ![t] = 0]

(* A slip for the mutation runs: the result of the take is not looked at.  *)
TimeOut_Proceeds(t) ==
  /\ mutex # Nobody
  /\ UNCHANGED mutex
  /\ Enter(t)

(* The 200 ms are over. *)
TimeOut(t) ==
  /\ at[t] = "take"
  /\ mutex # Nobody
  /\ Return(t)
  /\ UNCHANGED <<mounted, mutex, recent, files, counts>>

(* A slip for the mutation runs: the line itself is not counted. *)
Fits_WithoutLine(t) ==
  /\ Step(t, "rotate", "append")
  /\ SizeOf(current) <= MaxBytes
  /\ UNCHANGED <<mounted, mutex, len, recent, files, counts>>

(* rotate_if_needed *)
Fits(t) ==
  /\ Step(t, "rotate", "append")
  /\ SizeOf(current) + len[t] <= MaxBytes
  /\ UNCHANGED <<mounted, mutex, len, recent, files, counts>>

Full(t) ==
  /\ Step(t, "rotate", "remove")
  /\ SizeOf(current) + len[t] > MaxBytes
  /\ UNCHANGED <<mounted, mutex, len, recent, files, counts>>

RemovePrevious(t) ==
  /\ Step(t, "remove", "rename")
  /\ previous' = <<>> \/ (DiskFaults /\ previous' = previous)
  /\ UNCHANGED <<mounted, mutex, len, recent, current, counts>>

(* A file is not renamed to one that exists. *)
Rename(t) ==
  /\ Step(t, "rename", "append")
  /\ previous = <<>>
  /\ previous' = current /\ current' = <<>>
  /\ UNCHANGED <<mounted, mutex, len, recent, counts>>

RenameFails(t) ==
  /\ Step(t, "rename", "append")
  /\ previous # <<>> \/ DiskFaults
  /\ stuck' = TRUE
  /\ UNCHANGED <<mounted, mutex, len, recent, files, lines, total>>

Write(n, whole) ==
  /\ lines < MaxLines
  /\ lines' = lines + 1
  /\ current' = Append(current, [line |-> lines + 1, len |-> n, whole |-> whole])
  /\ total' = UpTo(total + n, MaxBytes)

Give(t) == mutex' = Nobody /\ Return(t)

WriteLine(t) ==
  /\ at[t] = "append"
  /\ Write(len[t], TRUE)
  /\ Give(t)
  /\ UNCHANGED <<mounted, recent, previous, stuck>>

(* The part of a line that a failed or interrupted write leaves *)
Cut(t) ==
  \/ UNCHANGED <<current, lines, total>>
  \/ \E n \in 1 .. len[t] - 1 : Write(n, FALSE)

AppendFails(t) ==
  /\ DiskFaults
  /\ at[t] = "append"
  /\ Cut(t)
  /\ Give(t)
  /\ UNCHANGED <<mounted, recent, previous, stuck>>

AppendLine(t) ==
  \/ Take(t) \/ TimeOut(t)
  \/ Fits(t) \/ Full(t) \/ RemovePrevious(t) \/ Rename(t) \/ RenameFails(t)
  \/ WriteLine(t) \/ AppendFails(t)

FilesStep ==
  \/ Mount \/ FiveSeconds
  \/ \E t \in Logger : LogEvent(t) \/ LogBikeData(t) \/ AppendLine(t)

FilesReset ==
  /\ \/ UNCHANGED <<current, lines, total>>
     \/ \E t \in Logger : at[t] = "append" /\ Cut(t)
  /\ mounted' = FALSE
  /\ mutex' = Nobody
  /\ at' = [t \in Logger |-> "idle"]
  /\ len' = [t \in Logger |-> 0]
  /\ recent' = FALSE
  /\ UNCHANGED <<previous, stuck>>

FilesSpec == FilesInit /\ [][FilesStep \/ FilesReset]_fileVars

-----------------------------------------------------------------------------
(* Properties                                                              *)

Piece == [line : 1 .. MaxLines, len : Nat \ {0}, whole : BOOLEAN]

FilesTypeOK ==
  /\ mounted \in BOOLEAN /\ recent \in BOOLEAN /\ stuck \in BOOLEAN
  /\ mutex \in Logger \cup {Nobody}
  /\ at \in [Logger -> {"idle", "take", "rotate", "remove", "rename", "append"}]
  /\ len \in [Logger -> Nat]
  /\ current \in Seq(Piece) /\ previous \in Seq(Piece)
  /\ lines \in 0 .. MaxLines
  /\ total \in 0 .. MaxBytes

Kept == previous \o current

Longest == CHOOSE n \in LineLen : \A m \in LineLen : m <= n

(* README.md:359 "keeps a current human-readable log file and one previous *)
(* rotated file": the two files together are the newest lines, in order    *)
(* and without a gap, and never less of them than fits one file, whichever *)
(* tasks wait for each other or give up, and if a reset falls between the  *)
(* remove and the rename (41-42), whose results nobody looks at.           *)
NewestAreKept ==
  /\ \A i \in 1 .. Len(Kept) : Kept[i].line = lines - Len(Kept) + i
  /\ SizeOf(Kept) >= UpTo(total, MaxBytes - Longest + 1)

(* No file outgrows PERSISTENT_LOG_MAX_BYTES, so that the bike history has *)
(* its part of the SPIFFS, as long as every rename has worked: one that    *)
(* has not is followed by the append all the same (42-62).                 *)
FilesAreBounded ==
  ~stuck => SizeOf(current) <= MaxBytes /\ SizeOf(previous) <= MaxBytes

(* What the proofs add.  Who has begun to work on the files has the mutex  *)
(* and a line; before the mount nobody has.                                *)
Working == {t \in Logger : at[t] \in {"rotate", "remove", "rename", "append"}}

WorkerHasMutex ==
  /\ \A t \in Working : mutex = t /\ len[t] \in LineLen
  /\ ~mounted => \A t \in Logger : at[t] = "idle"

(* The previous file goes only when the current one is full ...            *)
FullBeforeRemove ==
  \A t \in Working :
    at[t] \in {"remove", "rename"} => SizeOf(current) + len[t] > MaxBytes

(* ... and after a rename the line has room.                               *)
RoomForLine ==
  \A t \in Working :
    at[t] = "append" /\ ~stuck => SizeOf(current) + len[t] <= MaxBytes

(* The inductive invariant. *)
FilesInv ==
  /\ FilesTypeOK
  /\ WorkerHasMutex
  /\ FullBeforeRemove
  /\ RoomForLine
  /\ NewestAreKept
  /\ FilesAreBounded
=============================================================================
