---------------------------- MODULE MC_LiveData ----------------------------
(* Two known fields, the speed and the time, and a table of one row for    *)
(* two unknown fields.                                                     *)
EXTENDS LiveData

CONSTANTS page, gear, mode

MCReader == {page}

Says(speed, time, unknown) == [known |-> <<speed, time>>, unknown |-> unknown]
Entry(id, v) == [id |-> id, value |-> v]

(* Each known field comes alone and with others, changes, and repeats; the  *)
(* unknown ones compete for the row, and one changes its value.            *)
MCMessage ==
  {Says(0, 1, <<Entry(gear, 1)>>), Says(1, Absent, <<Entry(mode, 1)>>),
   Says(Absent, 2, <<Entry(gear, 0)>>)}
=============================================================================
