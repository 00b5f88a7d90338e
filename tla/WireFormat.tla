----------------------------- MODULE WireFormat -----------------------------
(***************************************************************************)
(* main/live_data_decode.c: how a notification of the bike is read, a      *)
(* protobuf message of known and unknown fields.  The sizes are constants: *)
(* in the code a byte carries seven bits of a varint (Base 128), a varint  *)
(* has at most ten bytes and 64 bits, most values are kept in 32.          *)
(*                                                                         *)
(* A position is the number of bytes read so far.  A read returns the      *)
(* position behind it and what it read, or Failed.                         *)
(***************************************************************************)
EXTENDS Integers, Sequences, FiniteSets

CONSTANTS
  Base,        (* 2^7: a byte below Base ends a varint                     *)
  VarintMax,   (* 10, the bytes read until shift reaches 64                *)
  Wide,        (* 2^64, the values of uint64_t                             *)
  Narrow,      (* 2^32, the values of uint32_t                             *)
  Fixed64,     (* 8, the bytes of a field of wire type 1                   *)
  Fixed32,     (* 4, the bytes of a field of wire type 5                   *)
  Unsigned,    (* the numbers of the fields kept as uint32_t               *)
  Signed,      (* ... as int32_t (cadence)                                 *)
  Clock,       (* ... as int64_t (time)                                    *)
  Flag,        (* ... as bool                                              *)
  MaxUnknown,  (* LIVE_DATA_MAX_UNKNOWN_FIELDS                             *)
  Sendable,    (* the items that a bike may encode                         *)
  MaxLen,      (* bound on the bytes of a message that is not encoded      *)
  MaxItems     (* bound on the items the bike encodes                      *)

Known == Unsigned \cup Signed \cup Clock \cup Flag

Failed == [ok |-> FALSE]

Read(pos, value) == [ok |-> TRUE, pos |-> pos, value |-> value]

-----------------------------------------------------------------------------
(* read_varint and read_fixed_le: little endian, in digits of seven or     *)
(* eight bits; what does not fit into 64 bits is shifted out.              *)

Value(digits, base) ==
  LET last[k \in 0 .. Len(digits)] ==   (* the value of the last k digits *)
        IF k = 0 THEN 0 ELSE digits[Len(digits) - k + 1] + base * last[k - 1]
  IN  last[Len(digits)]

Number(digits, base) == Value(digits, base) % Wide

(* Slips for the mutation runs: the byte that ends a varint may be one     *)
(* beyond the limit, a number is read with the first digit on top.         *)
ReadVarint_Longer(buf, pos) ==
  LET lengths == {n \in 1 .. VarintMax + 1 : pos + n <= Len(buf) /\ buf[pos + n] < Base}
      n == CHOOSE n \in lengths : \A m \in lengths : n <= m
  IN IF lengths = {} THEN Failed
     ELSE Read(pos + n, Number([i \in 1 .. n |-> buf[pos + i] % Base], Base))

ReadVarint_BigEndian(buf, pos) ==
  LET lengths == {n \in 1 .. VarintMax : pos + n <= Len(buf) /\ buf[pos + n] < Base}
      n == CHOOSE n \in lengths : \A m \in lengths : n <= m
  IN IF lengths = {} THEN Failed
     ELSE Read(pos + n, Number([i \in 1 .. n |-> buf[pos + n + 1 - i] % Base], Base))

ReadVarint(buf, pos) ==
  LET lengths == {n \in 1 .. VarintMax : pos + n <= Len(buf) /\ buf[pos + n] < Base}
      n == CHOOSE n \in lengths : \A m \in lengths : n <= m
  IN IF lengths = {} THEN Failed
     ELSE Read(pos + n, Number([i \in 1 .. n |-> buf[pos + i] % Base], Base))

ReadFixed(buf, pos, bytes) ==
  IF Len(buf) - pos < bytes THEN Failed
  ELSE Read(pos + bytes, Number(SubSeq(buf, pos + 1, pos + bytes), 2 * Base))

-----------------------------------------------------------------------------
(* One turn of the loop of live_data_decode_and_log, the key being read.   *)

Item(key, pos, value, length) ==
  Read(pos, [field |-> (key \div 8) % Narrow, type |-> key % 8,
             value |-> value, length |-> length])

NumberItem(key, number, length) ==
  IF number.ok THEN Item(key, number.pos, number.value, length) ELSE Failed

BytesItem(key, length, end) ==
  IF length.ok /\ length.value <= end - length.pos
    THEN Item(key, length.pos + length.value, 0, length.value % Narrow)
    ELSE Failed

ReadPayload(buf, pos, key) ==
  CASE key % 8 = 0 -> NumberItem(key, ReadVarint(buf, pos), 0)
    [] key % 8 = 1 -> NumberItem(key, ReadFixed(buf, pos, Fixed64), Fixed64)
    [] key % 8 = 5 -> NumberItem(key, ReadFixed(buf, pos, Fixed32), Fixed32)
    [] key % 8 = 2 -> BytesItem(key, ReadVarint(buf, pos), Len(buf))
    [] OTHER -> Failed

ItemBehind(buf, key) == IF key.ok THEN ReadPayload(buf, key.pos, key.value) ELSE Failed
ReadItem(buf, pos) == ItemBehind(buf, ReadVarint(buf, pos))

(* The items of a message, or Failed. *)
Prepend(item, rest) ==
  IF rest.ok THEN Read(rest.pos, <<item.value>> \o rest.value) ELSE Failed

Items(buf) ==
  LET item[pos \in 0 .. Len(buf)] == ReadItem(buf, pos)
      from[pos \in 0 .. Len(buf)] ==
        IF pos = Len(buf) THEN Read(pos, <<>>)
        ELSE IF item[pos].ok THEN Prepend(item[pos], from[item[pos].pos])
        ELSE Failed
  IN from[0]

-----------------------------------------------------------------------------
(* What a message says: a value for some known fields, and the others in a *)
(* table of limited length.                                                *)

Absent == "absent"

AsSigned(value, width) == IF value < width \div 2 THEN value ELSE value - width

Kept(field, value) ==
  CASE field \in Unsigned -> value % Narrow
    [] field \in Signed -> AsSigned(value % Narrow, Narrow)
    [] field \in Clock -> AsSigned(value, Wide)
    [] field \in Flag -> IF value # 0 THEN 1 ELSE 0

SameField(a, b) == a.field = b.field /\ a.type = b.type

(* A slip for the mutation runs: a full table drops its first row. *)
Upsert_Evicts(table, item) ==
  LET rows == {i \in DOMAIN table : SameField(table[i], item)}
  IN IF rows # {} THEN [i \in DOMAIN table |-> IF i \in rows THEN item ELSE table[i]]
     ELSE IF Len(table) < MaxUnknown THEN Append(table, item)
     ELSE Append(Tail(table), item)

(* upsert_unknown_field *)
Upsert(table, item) ==
  LET rows == {i \in DOMAIN table : SameField(table[i], item)}
  IN IF rows # {} THEN [i \in DOMAIN table |-> IF i \in rows THEN item ELSE table[i]]
     ELSE IF Len(table) < MaxUnknown THEN Append(table, item)
     ELSE table

IsKnown(item) == item.type = 0 /\ item.field \in Known

TakeItem(data, item) ==
  IF IsKnown(item)
    THEN [data EXCEPT !.known[item.field] = Kept(item.field, item.value)]
    ELSE [data EXCEPT !.unknown = Upsert(@, item)]

Nothing == [known |-> [f \in Known |-> Absent], unknown |-> <<>>]

(* What a message of these items says. *)
Meaning(items) ==
  LET after[i \in 0 .. Len(items)] ==
        IF i = 0 THEN Nothing ELSE TakeItem(after[i - 1], items[i])
  IN  after[Len(items)]

-----------------------------------------------------------------------------
(* The grammar of a message, and who sends one: any bytes, or a bike that  *)
(* encodes items.                                                          *)

Byte == 0 .. 2 * Base - 1

(* The bytes of s behind the first a and up to the b-th are a varint.      *)
IsVarint(s, a, b) ==
  /\ b - a \in 1 .. VarintMax
  /\ \A i \in a + 1 .. b : s[i] < Base <=> i = b

VarintValue(s, a, b) == Value([i \in 1 .. b - a |-> s[a + i] % Base], Base)

(* ... or an item: a key, and what its wire type asks for.                 *)
IsItem(s, a, b) ==
  \E k \in a + 1 .. b :
    /\ IsVarint(s, a, k)
    /\ LET type == VarintValue(s, a, k) % 8
       IN \/ type = 0 /\ IsVarint(s, k, b)
          \/ type = 1 /\ b - k = Fixed64
          \/ type = 5 /\ b - k = Fixed32
          \/ type = 2 /\ \E n \in k + 1 .. b :
                           IsVarint(s, k, n) /\ VarintValue(s, k, n) % Wide = b - n

(* A message is empty behind its last byte, or begins with an item that a  *)
(* message follows.                                                        *)
IsMessage(s) ==
  LET follows[a \in 0 .. Len(s)] ==
        \/ a = Len(s)
        \/ \E b \in a + 1 .. Len(s) : IsItem(s, a, b) /\ follows[b]
  IN  follows[0]

(* What is left of n without its k last digits. *)
Without(n, base, k) ==
  LET rest[i \in 0 .. k] == IF i = 0 THEN n ELSE rest[i - 1] \div base
  IN  rest[k]

Digits(n, base, k) == [i \in 1 .. k |-> Without(n, base, i - 1) % base]

Fixed(n, bytes) == Digits(n, 2 * Base, bytes)

Varint(n) ==
  LET lengths == {k \in 1 .. VarintMax : Without(n, Base, k) = 0}
      k == CHOOSE k \in lengths : \A m \in lengths : k <= m
      digits == Digits(n, Base, k)
  IN  [i \in 1 .. k |-> IF i < k THEN Base + digits[i] ELSE digits[i]]

Encode(item) ==
  Varint(8 * item.field + item.type) \o
    CASE item.type = 0 -> Varint(item.value)
      [] item.type = 1 -> Fixed(item.value, Fixed64)
      [] item.type = 5 -> Fixed(item.value, Fixed32)
      [] item.type = 2 -> Varint(item.length) \o [i \in 1 .. item.length |-> Base]

(* What a bike can encode: every value that fits.                          *)
Encodable(item) ==
  /\ item.type = 0 => item.value \in 0 .. Wide - 1 /\ item.length = 0
  /\ item.type = 1 => /\ item.value \in 0 .. Wide - 1 /\ item.length = Fixed64
                      /\ Without(item.value, 2 * Base, Fixed64) = 0
  /\ item.type = 5 => /\ item.value \in 0 .. Wide - 1 /\ item.length = Fixed32
                      /\ Without(item.value, 2 * Base, Fixed32) = 0
  /\ item.type = 2 => item.value = 0 /\ item.length \in 0 .. Narrow - 1

ASSUME WireAssumption ==
  /\ Base \in Nat \ {0, 1} /\ VarintMax \in Nat \ {0}
  /\ Wide \in Nat \ {0} /\ Narrow \in Nat \ {0}
  /\ Narrow % 2 = 0 /\ Wide % Narrow = 0 /\ Wide % 8 = 0 /\ 8 * Narrow <= Wide
  /\ Without(Wide - 1, Base, VarintMax) = 0
  /\ Fixed64 \in Nat /\ Fixed32 \in Nat
  /\ Known \subseteq 0 .. Narrow - 1
  /\ Unsigned \cap (Signed \cup Clock \cup Flag) = {}
  /\ Signed \cap (Clock \cup Flag) = {} /\ Clock \cap Flag = {}
  /\ MaxUnknown \in Nat /\ MaxLen \in Nat /\ MaxItems \in Nat
  /\ \A item \in Sendable :
       /\ item \in [field : 0 .. Narrow - 1, type : {0, 1, 2, 5}, value : Nat, length : Nat]
       /\ Encodable(item)

VARIABLES
  sender,  (* "any", bytes at random, or "bike", an encoder                *)
  message, (* its bytes                                                    *)
  encoded, (* the items that the encoder has put into it                   *)
  got      (* what the firmware makes of it                                *)

wireVars == <<sender, message, encoded, got>>

WireInit ==
  /\ sender \in {"any", "bike"}
  /\ message = <<>> /\ encoded = <<>>
  /\ got = Items(<<>>)

NextByte ==
  /\ sender = "any"
  /\ Len(message) < MaxLen
  /\ \E b \in Byte : message' = Append(message, b)
  /\ got' = Items(message')
  /\ UNCHANGED <<sender, encoded>>

SendItem ==
  /\ sender = "bike"
  /\ Len(encoded) < MaxItems
  /\ \E item \in Sendable :
       encoded' = Append(encoded, item) /\ message' = message \o Encode(item)
  /\ got' = Items(message')
  /\ UNCHANGED sender

WireSpec == WireInit /\ [][NextByte \/ SendItem]_wireVars

-----------------------------------------------------------------------------
(* Properties                                                              *)

(* The decoder (791-888) accepts exactly the messages of the grammar:      *)
(* whatever is cut off, too long or of an unknown wire type is refused.    *)
AcceptsMessages == sender = "any" => (got.ok <=> IsMessage(message))

Latest(places) == CHOOSE i \in places : \A j \in places : j <= i

(* Of several values for a known field the last one counts.                *)
LastOfKnown(items, data) ==
  \A f \in Known :
    LET places == {i \in DOMAIN items : items[i].type = 0 /\ items[i].field = f}
    IN data.known[f] = IF places = {} THEN Absent ELSE Kept(f, items[Latest(places)].value)

Firsts(items) ==
  {i \in DOMAIN items :
     /\ ~IsKnown(items[i])
     /\ \A j \in DOMAIN items : SameField(items[i], items[j]) => i <= j}

(* The table holds the fields that came first, each with its last value.   *)
LastOfUnknown(items, table) ==
  /\ Len(table) = IF Cardinality(Firsts(items)) < MaxUnknown
                    THEN Cardinality(Firsts(items)) ELSE MaxUnknown
  /\ \A row \in DOMAIN table :
       /\ table[row] = items[Latest({i \in DOMAIN items : SameField(items[i], table[row])})]
       /\ \E i \in Firsts(items) :
            /\ SameField(items[i], table[row])
            /\ Cardinality({j \in Firsts(items) : j < i}) = row - 1

(* What an accepted message leaves is the last value of each known field   *)
(* and of the unknown fields that came first, as many as the table has     *)
(* room for (202-225, 831-888).                                            *)
LastValueCounts ==
  got.ok => /\ LastOfKnown(got.value, Meaning(got.value))
            /\ LastOfUnknown(got.value, Meaning(got.value).unknown)

(* What the bike encoded is what the firmware reads, every field number    *)
(* and value (84-100, 798-829), and no item is taken for another.  Values  *)
(* of a signed field that follow come back at their sign, which protobuf   *)
(* sends in all of the 64 bits (836-839, 852-855).                         *)
ReadsWhatWasSent ==
  sender = "bike" =>
    /\ got.ok /\ got.value = encoded
    /\ \A f \in Signed \cup Clock, n \in -(Narrow \div 2) .. Narrow \div 2 - 1 :
         LET all == Items(message \o Varint(8 * f) \o Varint(n % Wide))
         IN  all.ok /\ Meaning(all.value).known[f] = n
=============================================================================
