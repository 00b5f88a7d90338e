------------------------------ MODULE LiveData ------------------------------
(***************************************************************************)
(* main/live_data_decode.c: latest_state, which the live data worker       *)
(* merges each notification into, while the HTTP server, the exporter, the *)
(* MQTT publisher and the automation worker copy it; nothing is locked.    *)
(* The worker also keeps its JSON text in a file for the next boot.        *)
(*                                                                         *)
(* A message is what the decoder (module WireFormat) makes of a            *)
(* notification; one it refuses changes nothing here.  An unknown field is *)
(* an id (number and wire type) with a value.  The texts made from the     *)
(* state are the state itself.  The summary for the log file and the time  *)
(* of the update have no readers here.                                     *)
(***************************************************************************)
EXTENDS Integers, Sequences

CONSTANTS
  FieldCount,  (* how many known fields there are, in the order of         *)
               (* live_data_t; the code has 13                             *)
  Time,        (* the field that is the bike's clock                       *)
  Value,       (* values of a field: numbers, with 0                       *)
  UnknownId,   (* unknown fields                                           *)
  MaxUnknown,  (* LIVE_DATA_MAX_UNKNOWN_FIELDS                             *)
  Message,     (* messages the bike may send                               *)
  Reader,      (* tasks that copy latest_state                             *)
  Absent,      (* a field that is not there                                *)
  Cut,         (* a text that is not written to its end                    *)
  NoText,      (* no text                                                  *)
  Faults       (* whether memory and the file system fail                  *)

Field == 1 .. FieldCount
Blank == [id |-> Absent, value |-> 0]
Row == [id : UnknownId, value : Value]

ASSUME LiveAssumption ==
  /\ FieldCount \in Nat \ {0} /\ MaxUnknown \in Nat \ {0}
  /\ Time \in Field
  /\ Value \subseteq Int /\ 0 \in Value
  /\ Absent \notin Value /\ Absent \notin UnknownId
  /\ \A m \in Message :
       /\ m.known \in [Field -> Value \cup {Absent}]
       /\ m.unknown \in Seq(Row) /\ Len(m.unknown) <= MaxUnknown
       /\ \A i, j \in DOMAIN m.unknown : m.unknown[i].id = m.unknown[j].id => i = j

(* No text of the state looks like none, or like one that was cut.         *)
ASSUME TextAssumption ==
  \A known \in [Field -> Value \cup {Absent}], n \in 0 .. MaxUnknown :
    \A unknown \in [1 .. n -> Row] :
      [known |-> known, unknown |-> unknown] \notin {NoText, Cut}

VARIABLES
  has,       (* latest_state: the has_ flags                               *)
  val,       (* ... the values                                             *)
  rows,      (* ... unknown                                                *)
  count,     (* ... unknown_count                                          *)
  clock,     (* ... last_update_unix_time                                  *)
  place,     (* where the worker is                                        *)
  data,      (* its variable data, the message                             *)
  left,      (* the words of latest_state it has not yet written           *)
  changed,   (* its variable changed_mask                                  *)
  samples,   (* what the message has added to the history                  *)
  file,      (* LIVE_DATA_LATEST_PATH, NoText if it is absent or empty     *)
  cache,     (* persisted_latest_json, NoText if not persisted_latest_loaded *)
  persisted, (* last_latest_persist_us # 0                                 *)
  lacking,   (* the last try to write the file has failed                  *)
  step,      (* step[r]: how many words reader r has copied, -1 if idle    *)
  copy,      (* copy[r]: what it has copied                                *)
  before,    (* before[r]: the fields that were there when it began        *)
  spoken,    (* what the bike has sent since boot                          *)
  told,      (* ... and the last time in it                                *)
  previous,  (* the message before this one                                *)
  dropped    (* the table had no room for an unknown field                 *)

latest == <<has, val, rows, count, clock>>
worker == <<place, data, left, changed, samples>>
texts == <<file, cache, persisted, lacking>>
readers == <<step, copy, before>>
ghosts == <<spoken, told, previous, dropped>>
liveVars == <<latest, worker, texts, readers, ghosts>>

Silence == [known |-> [f \in Field |-> Absent], unknown |-> <<>>]
ZeroState == [has |-> [f \in Field |-> FALSE], val |-> [f \in Field |-> 0],
              rows |-> [i \in 1 .. MaxUnknown |-> Blank], count |-> 0]

(* What a boot starts with; the file is not part of it. *)
Started ==
  /\ has = ZeroState.has /\ val = ZeroState.val
  /\ rows = ZeroState.rows /\ count = ZeroState.count
  /\ clock = 0
  /\ place = "idle"
  /\ data = Silence
  /\ left = {}
  /\ changed = {}
  /\ samples = {}
  /\ persisted = FALSE
  /\ lacking = FALSE
  /\ step = [r \in Reader |-> -1]
  /\ copy = [r \in Reader |-> ZeroState]
  /\ before = [r \in Reader |-> {}]
  /\ spoken = {}
  /\ told = 0
  /\ previous = Silence
  /\ dropped = FALSE

LiveInit == Started /\ file = NoText /\ cache = NoText

-----------------------------------------------------------------------------
(* The live data worker.  The words of latest_state are numbered: 2f-1 is  *)
(* the has_ flag of field f, 2f its value, and behind them two for each    *)
(* row of the message's own table: the count, and the row.                 *)

Present(m) == {f \in Field : m.known[f] # Absent}
Words(m) == (UNION {{2 * f - 1, 2 * f} : f \in Present(m)})
              \cup (2 * FieldCount + 1) .. (2 * FieldCount + 2 * Len(m.unknown))

IsNext(word) == word \in left /\ \A w \in left : word <= w

RowsOf(id) == {i \in 1 .. count : rows[i].id = id}

RowChanged(entry) == \A i \in RowsOf(entry.id) : rows[i].value # entry.value

(* LIVE_DATA_FIELD_UNKNOWN, a bit that belongs to no known field. *)
Other == 0

(* changed_field_mask: the time is not in it. *)
ChangedFields(m) ==
  {f \in Present(m) \ {Time} : has[f] => val[f] # m.known[f]}
    \cup {b \in {Other} : \E j \in DOMAIN m.unknown : RowChanged(m.unknown[j])}

(* sample_unix_time *)
Stamp(m) ==
  IF Time \in Present(m) /\ m.known[Time] > 0 THEN m.known[Time]
  ELSE IF clock > 0 THEN clock ELSE 0

(* A slip for the mutation runs: latest_state becomes the message. *)
Notify_Replaces(m) ==
  /\ place = "idle"
  /\ data' = m
  /\ has' = [f \in Field |-> FALSE]
  /\ changed' = ChangedFields(m)
  /\ samples' = {[field |-> f, value |-> m.known[f], stamp |-> Stamp(m)] : f \in Present(m)}
  /\ left' = Words(m)
  /\ place' = "merge"
  /\ spoken' = spoken \cup {<<f, m.known[f]>> : f \in Present(m)}
  /\ told' = IF Time \in Present(m) THEN m.known[Time] ELSE told
  /\ UNCHANGED <<val, rows, count, clock, texts, readers, previous, dropped>>

(* The message is read, compared with the state and put into the history.  *)
Notify(m) ==
  /\ place = "idle"
  /\ data' = m
  /\ changed' = ChangedFields(m)
  /\ samples' = {[field |-> f, value |-> m.known[f], stamp |-> Stamp(m)] : f \in Present(m)}
  /\ left' = Words(m)
  /\ place' = "merge"
  /\ spoken' = spoken \cup {<<f, m.known[f]>> : f \in Present(m)}
  /\ told' = IF Time \in Present(m) THEN m.known[Time] ELSE told
  /\ UNCHANGED <<latest, texts, readers, previous, dropped>>

(* merge_latest_state, word by word: the flag of a known field ...         *)
MergeFlag(f) ==
  /\ IsNext(2 * f - 1)
  /\ has' = [has EXCEPT ![f] = TRUE]
  /\ left' = left \ {2 * f - 1}
  /\ UNCHANGED <<val, rows, count, clock, place, data, changed, samples, texts, readers, ghosts>>

(* ... and then its value; ...                                             *)
MergeValue(f) ==
  /\ IsNext(2 * f)
  /\ val' = [val EXCEPT ![f] = data.known[f]]
  /\ left' = left \ {2 * f}
  /\ UNCHANGED <<has, rows, count, clock, place, data, changed, samples, texts, readers, ghosts>>

(* ... a row of the table is overwritten, or one more is counted if there  *)
(* is room, ...                                                            *)
MergeCount(j) ==
  LET word == 2 * FieldCount + 2 * j - 1
      entry == data.unknown[j]
  IN /\ IsNext(word)
     /\ \/ /\ RowsOf(entry.id) # {}
           /\ rows' = [i \in 1 .. MaxUnknown |-> IF i \in RowsOf(entry.id) THEN entry ELSE rows[i]]
           /\ left' = left \ {word, word + 1}
           /\ UNCHANGED <<count, dropped>>
        \/ /\ RowsOf(entry.id) = {} /\ count < MaxUnknown
           /\ count' = count + 1
           /\ left' = left \ {word}
           /\ UNCHANGED <<rows, dropped>>
        \/ /\ RowsOf(entry.id) = {} /\ count = MaxUnknown
           /\ dropped' = TRUE
           /\ left' = left \ {word, word + 1}
           /\ UNCHANGED <<rows, count>>
     /\ UNCHANGED <<has, val, clock, place, data, changed, samples, texts, readers,
                    spoken, told, previous>>

(* ... which is then filled.                                               *)
MergeRow(j) ==
  /\ IsNext(2 * FieldCount + 2 * j)
  /\ rows' = [rows EXCEPT ![count] = data.unknown[j]]
  /\ left' = left \ {2 * FieldCount + 2 * j}
  /\ UNCHANGED <<has, val, count, clock, place, data, changed, samples, texts, readers, ghosts>>

MergeEnd ==
  /\ place = "merge" /\ left = {}
  /\ clock' = IF Time \in Present(data) THEN data.known[Time] ELSE clock
  /\ place' = "persist"
  /\ UNCHANGED <<has, val, rows, count, data, left, changed, samples, texts, readers, ghosts>>

Merge ==
  \/ \E f \in Field : MergeFlag(f) \/ MergeValue(f)
  \/ \E j \in DOMAIN data.unknown : MergeCount(j) \/ MergeRow(j)
  \/ MergeEnd

-----------------------------------------------------------------------------
(* live_data_latest_json: the text of a copy of latest_state, or the text  *)
(* kept from before the boot while the bike has said nothing.              *)
Text(c) ==
  IF c.count = 0 /\ \A f \in Field : ~c.has[f] THEN cache
  ELSE [known |-> [f \in Field |-> IF c.has[f] THEN c.val[f] ELSE Absent],
        unknown |-> SubSeq(c.rows, 1, c.count)]

Now == [has |-> has, val |-> val, rows |-> rows, count |-> count]

(* A slip for the mutation runs: the text is kept every five seconds only. *)
NotDue_Lazy ==
  /\ place = "persist"
  /\ persisted
  /\ place' = "ask"
  /\ UNCHANGED <<latest, data, left, changed, samples, texts, readers, ghosts>>

(* persist_latest_state_json_if_due; five seconds may have passed or not.  *)
NotDue ==
  /\ place = "persist"
  /\ changed = {}
  /\ persisted
  /\ place' = "ask"
  /\ UNCHANGED <<latest, data, left, changed, samples, texts, readers, ghosts>>

(* No memory, nothing to write, or no file: the next chance is the next    *)
(* change.                                                                 *)
PersistNothing ==
  /\ place = "persist"
  /\ \/ Text(Now) = NoText /\ UNCHANGED lacking
     \/ Faults /\ lacking' = TRUE
  /\ persisted' = TRUE
  /\ place' = "ask"
  /\ UNCHANGED <<latest, data, left, changed, samples, file, cache, readers, ghosts>>

PersistOpen ==
  /\ place = "persist"
  /\ Text(Now) # NoText
  /\ persisted' = TRUE
  /\ file' = NoText
  /\ place' = "write"
  /\ UNCHANGED <<latest, data, left, changed, samples, cache, lacking, readers, ghosts>>

(* The text goes to the flash in pages; the result of fwrite is ignored.   *)
PersistPage ==
  /\ place = "write"
  /\ file' = Cut
  /\ place' = "close"
  /\ UNCHANGED <<latest, data, left, changed, samples, cache, persisted, lacking, readers, ghosts>>

PersistClose ==
  /\ place \in {"write", "close"}
  /\ \/ file' = Text(Now) /\ lacking' = FALSE
     \/ Faults /\ lacking' = TRUE /\ UNCHANGED file
  /\ place' = "keep"
  /\ UNCHANGED <<latest, data, left, changed, samples, cache, persisted, readers, ghosts>>

(* The same text goes to persisted_latest_json, which readers may copy.    *)
Keep ==
  /\ place = "keep"
  /\ cache' = Text(Now)
  /\ place' = "ask"
  /\ UNCHANGED <<latest, data, left, changed, samples, file, persisted, lacking, readers, ghosts>>

(* automation_request_evaluate(changed), of which module LiveAutomation    *)
(* tells more.                                                             *)
Ask ==
  /\ place = "ask"
  /\ previous' = data
  /\ data' = Silence
  /\ changed' = {}
  /\ samples' = {}
  /\ place' = "idle"
  /\ UNCHANGED <<latest, left, texts, readers, spoken, told, dropped>>

LiveWorker ==
  \/ \E m \in Message : Notify(m)
  \/ Merge
  \/ NotDue \/ PersistNothing \/ PersistOpen \/ PersistPage \/ PersistClose \/ Keep
  \/ Ask

-----------------------------------------------------------------------------
(* live_data_t data = latest_state, word by word in the order of memory:   *)
(* known fields, rows, count.                                              *)

LastWord == 2 * FieldCount + MaxUnknown + 1

CopyBegin(r) ==
  /\ step[r] = -1
  /\ step' = [step EXCEPT ![r] = 0]
  /\ before' = [before EXCEPT ![r] = {f \in Field : has[f] /\ 2 * f \notin left}]
  /\ UNCHANGED <<latest, worker, texts, copy, ghosts>>

CopyWord(r) ==
  LET word == step[r] + 1
  IN /\ step[r] \in 0 .. LastWord - 1
     /\ copy' = [copy EXCEPT ![r] =
          IF word = LastWord THEN [@ EXCEPT !.count = count]
          ELSE IF word > 2 * FieldCount
            THEN [@ EXCEPT !.rows[word - 2 * FieldCount] = rows[word - 2 * FieldCount]]
          ELSE IF word % 2 = 1
            THEN [@ EXCEPT !.has[(word + 1) \div 2] = has[(word + 1) \div 2]]
          ELSE [@ EXCEPT !.val[word \div 2] = val[word \div 2]]]
     /\ step' = [step EXCEPT ![r] = word]
     /\ UNCHANGED <<latest, worker, texts, before, ghosts>>

CopyEnd(r) ==
  /\ step[r] = LastWord
  /\ step' = [step EXCEPT ![r] = -1]
  /\ copy' = [copy EXCEPT ![r] = ZeroState]
  /\ before' = [before EXCEPT ![r] = {}]
  /\ UNCHANGED <<latest, worker, texts, ghosts>>

Copy(r) == CopyBegin(r) \/ CopyWord(r) \/ CopyEnd(r)

-----------------------------------------------------------------------------
(* A reset, and live_data_init at the next boot. *)
LiveReset ==
  /\ has' = ZeroState.has /\ val' = ZeroState.val
  /\ rows' = ZeroState.rows /\ count' = ZeroState.count
  /\ clock' = 0
  /\ place' = "idle"
  /\ data' = Silence
  /\ left' = {}
  /\ changed' = {}
  /\ samples' = {}
  /\ file' = file
  /\ cache' = file
  /\ persisted' = FALSE
  /\ lacking' = FALSE
  /\ step' = [r \in Reader |-> -1]
  /\ copy' = [r \in Reader |-> ZeroState]
  /\ before' = [r \in Reader |-> {}]
  /\ spoken' = {}
  /\ told' = 0
  /\ previous' = Silence
  /\ dropped' = FALSE

LiveNext == LiveWorker \/ (\E r \in Reader : Copy(r)) \/ LiveReset

LiveSpec == LiveInit /\ [][LiveNext]_liveVars

-----------------------------------------------------------------------------
(* Properties                                                              *)

State == [has : [Field -> BOOLEAN], val : [Field -> Value],
          rows : [1 .. MaxUnknown -> Row \cup {Blank}], count : 0 .. MaxUnknown]

IsText(t) ==
  \/ t \in {NoText, Cut}
  \/ /\ t.known \in [Field -> Value \cup {Absent}]
     /\ t.unknown \in Seq(Row)

(* unknown_count stays within the table, and a text holds rows only.       *)
LiveTypeOK ==
  /\ Now \in State
  /\ clock \in Value /\ told \in Value
  /\ place \in {"idle", "merge", "persist", "write", "close", "keep", "ask"}
  /\ data \in Message \cup {Silence} /\ previous \in Message \cup {Silence}
  /\ left \subseteq Words(data)
  /\ changed \subseteq Field \cup {Other}
  /\ samples \subseteq [field : Field, value : Value, stamp : Value]
  /\ IsText(file) /\ IsText(cache)
  /\ persisted \in BOOLEAN /\ lacking \in BOOLEAN /\ dropped \in BOOLEAN
  /\ step \in [Reader -> -1 .. LastWord]
  /\ copy \in [Reader -> State]
  /\ before \in [Reader -> SUBSET Field]
  /\ spoken \subseteq Field \X Value

Copied(r) == step[r] = LastWord

(* A field that was decoded before a reader began its copy (587-592) is in *)
(* the copy, with a value of the bike, whatever is merged meanwhile.       *)
KnownStays ==
  \A r \in Reader : Copied(r) =>
    \A f \in before[r] : copy[r].has[f] /\ <<f, copy[r].val[f]>> \in spoken

(* README.md:182 "latest decoded bike state as JSON": a text names nothing *)
(* that was not decoded.                                                   *)
AnswersOnlyDecoded ==
  \A r \in Reader : Copied(r) =>
    /\ \A f \in Field : copy[r].has[f] => <<f, copy[r].val[f]>> \in spoken
    /\ \A i \in 1 .. copy[r].count : copy[r].rows[i] # Blank

(* The same: a text is written to its end.                                 *)
AnswersWholeText == \A r \in Reader : Copied(r) => Text(copy[r]) # Cut

(* A sample in the history carries the last time the bike has told, in     *)
(* this message or an earlier one (424-433, 301-304).                      *)
StampIsBikeTime == \A s \in samples : told > 0 => s.stamp = told

(* Between two messages the file for the next boot agrees with the state   *)
(* in everything but the time, although it is written only when something  *)
(* has changed or five seconds are over (545-555), unless the last try to  *)
(* write it failed.                                                        *)
FileFollowsState ==
  place = "idle" /\ persisted /\ ~lacking /\ (count > 0 \/ \E f \in Field \ {Time} : has[f]) =>
    /\ file \notin {NoText, Cut}
    /\ \A f \in Field \ {Time} : file.known[f] = Text(Now).known[f]
    /\ file.unknown = Text(Now).unknown
    /\ cache = file

(* A message that repeats the one before it changes nothing, so no rule is *)
(* evaluated and nothing is written for it (307-369), as long as the table *)
(* has had room for every unknown field.                                   *)
RepeatIsQuiet ==
  place = "merge" /\ data = previous /\ ~dropped => changed = {}
=============================================================================
