--------------------------- MODULE MC_WireFormat ---------------------------
(* Digits of two bits and varints of up to four bytes, of which seven bits *)
(* count, in place of the code's seven, ten and 64: every message of up to *)
(* MaxLen bytes, and items at the edges of a digit, of Narrow and of Wide. *)
(* Wire type 1 takes one byte and type 5 two, so that the fields (0, 0),   *)
(* (0, 1) and (0, 2) fit into six bytes and overflow a table of two.       *)
EXTENDS WireFormat

Edge == {0, 1, Base - 1, Base, Narrow, Wide \div 2 - 1, Wide \div 2, Wide - 1}

Items0 == [field : 0 .. Narrow - 1, type : {0}, value : Edge, length : {0}]
Items1 == [field : {0, 6}, type : {1}, value : 0 .. (2 * Base) ^ Fixed64 - 1, length : {Fixed64}]
Items2 == [field : {0, 6}, type : {2}, value : {0}, length : 0 .. Narrow - 1]
Items5 == [field : {0, 6}, type : {5}, length : {Fixed32},
           value : {0, 1, Base, 2 * Base - 1, 2 * Base, (2 * Base) ^ Fixed32 - 1}]

MCSendable == Items0 \cup Items1 \cup Items2 \cup Items5
=============================================================================
