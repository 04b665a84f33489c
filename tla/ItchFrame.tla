------------------------------ MODULE ItchFrame ------------------------------
(***************************************************************************)
(* The wire codec of src/core/parser.{h,cpp}: encode_frame writes the      *)
(* fields of a message at fixed offsets of a buffer, decode_frame reads    *)
(* them back with a cursor.  The two layouts are transcribed separately,   *)
(* each from its own function, so that reading inverts writing is a        *)
(* property and not a definition.                                          *)
(*                                                                         *)
(* A byte is a number below ByteBase (256 in the code), an integer of n    *)
(* bytes is big-endian, and writing one keeps its n low bytes.  Characters *)
(* are one-byte and symbols eight-byte numbers.  A message is a record of  *)
(* its type and its fields; those of a nested `base' stand beside the      *)
(* others.                                                                 *)
(***************************************************************************)
EXTENDS Integers, Sequences

CONSTANT ByteBase

\* A byte holds the codes of the ten types and one that is nobody's, and two
\* bytes the length of every frame.
ASSUME ByteBaseAssumption == ByteBase \in Nat /\ ByteBase >= 12

\* read_u16, read_u32, read_u48, read_u64, and memcpy of a symbol
read(bytes, at, width) ==
  LET value[n \in 0..width] == IF n = 0 THEN 0 ELSE value[n - 1] * ByteBase + bytes[at + n]
  IN  value[width]

\* what a one counts for with n bytes to its right, the widest integer having eight
Weight[n \in 0..8] == IF n = 0 THEN 1 ELSE Weight[n - 1] * ByteBase

\* byte i of write_u16, write_u32, write_u48, write_u64
byte_of(value, width, i) == (value \div Weight[width - i]) % ByteBase

Zeros(n) == [i \in 1..n |-> 0]

-----------------------------------------------------------------------------
(***************************************************************************)
(* What the decoder reads, in the order of its cursor: <<field, width>>.   *)
(***************************************************************************)

Common == <<<<"stock_locate", 2>>, <<"tracking_number", 2>>, <<"ts", 6>>>>

SystemEvent    == Common \o <<<<"event_code", 1>>>>
StockDirectory == Common \o <<<<"symbol", 8>>, <<"market_category", 1>>,
                              <<"financial_status", 1>>, <<"round_lot_size", 4>>>>
AddOrder       == Common \o <<<<"order_id", 8>>, <<"side", 1>>, <<"shares", 4>>,
                              <<"symbol", 8>>, <<"price", 4>>>>
AddOrderMPID   == AddOrder \o <<<<"attribution", 4>>>>
OrderExecuted  == Common \o <<<<"order_id", 8>>, <<"executed_shares", 4>>,
                              <<"match_number", 8>>>>
OrderExecutedWithPrice == OrderExecuted \o <<<<"printable", 1>>, <<"execution_price", 4>>>>
OrderCancel    == Common \o <<<<"order_id", 8>>, <<"canceled_shares", 4>>>>
OrderDelete    == Common \o <<<<"order_id", 8>>>>

\* a replacement read with its two ids in the wrong order
MutantSwapsIds == Common \o <<<<"new_order_id", 8>>, <<"original_order_id", 8>>,
                              <<"shares", 4>>, <<"price", 4>>>>

OrderReplace   == Common \o <<<<"original_order_id", 8>>, <<"new_order_id", 8>>,
                              <<"shares", 4>>, <<"price", 4>>>>
Trade          == AddOrder \o <<<<"match_number", 8>>>>

Layout == [S |-> SystemEvent, R |-> StockDirectory, A |-> AddOrder, F |-> AddOrderMPID,
           E |-> OrderExecuted, C |-> OrderExecutedWithPrice, X |-> OrderCancel,
           D |-> OrderDelete, U |-> OrderReplace, P |-> Trade]

Types == DOMAIN Layout

FieldNames(type) == {Layout[type][i][1] : i \in DOMAIN Layout[type]}

\* The message structs: a type, its fields, and in each what its bytes can hold.
IsMessage(m) ==
  /\ m.type \in Types
  /\ m = [name \in {"type"} \cup FieldNames(m.type) |-> m[name]]
  /\ \A i \in DOMAIN Layout[m.type] :
       m[Layout[m.type][i][1]] \in 0..(Weight[Layout[m.type][i][2]] - 1)

\* MessageType: the byte of each type
Code == [S |-> 1, R |-> 2, A |-> 3, F |-> 4, E |-> 5, C |-> 6, X |-> 7, D |-> 8, U |-> 9,
         P |-> 10]

\* kWireSize_*: the type byte and the body.  A directory is longer than its fields.
WireSize == [S |-> 12, R |-> 39, A |-> 36, F |-> 40, E |-> 31, C |-> 36, X |-> 23, D |-> 19,
             U |-> 35, P |-> 44]

framed_size(m) == 2 + WireSize[m.type]

-----------------------------------------------------------------------------
(***************************************************************************)
(* decode_frame: its status, how much of the buffer it consumed, and the   *)
(* message when the status is Ok.                                          *)
(***************************************************************************)

\* a message of a type, its fields read with a cursor that starts behind the type byte
ReadMessage(bytes, type) ==
  LET layout == Layout[type]
      cursor[n \in 0..Len(layout)] == IF n = 0 THEN 3 ELSE cursor[n - 1] + layout[n][2]
      field(name) == CHOOSE i \in DOMAIN layout : layout[i][1] = name
  IN  [name \in {"type"} \cup FieldNames(type) |->
         IF name = "type" THEN type
         ELSE read(bytes, cursor[field(name) - 1], layout[field(name)][2])]

Rejected(status, consumed) == [status |-> status, consumed |-> consumed]

\* a decoder that trusts the length prefix and reads what lies beyond the buffer
MutantReadsBeyondBuffer(bytes) ==
  LET length  == read(bytes, 0, 2)
      types   == {t \in Types : Code[t] = (bytes \o Zeros(3))[3]}
      whole   == bytes \o Zeros(50)
  IN  CASE Len(bytes) < 2 -> Rejected("ShortBuffer", 0)
        [] Len(bytes) >= 2 /\ types = {} -> Rejected("UnknownType", 2 + length)
        [] Len(bytes) >= 2 /\ types # {} ->
             LET type == CHOOSE t \in types : TRUE
             IN  IF length # WireSize[type] THEN Rejected("LengthMismatch", 2 + length)
                 ELSE [status |-> "Ok", consumed |-> 2 + length,
                       message |-> ReadMessage(whole, type)]

\* Bytes behind the frame do not matter, and a frame of another length than
\* that of its type is refused.
decode_frame(bytes) ==
  LET length  == read(bytes, 0, 2)
      whole   == Len(bytes) >= 2 /\ Len(bytes) >= 2 + length
      types   == {t \in Types : Code[t] = bytes[3]}
  IN  CASE ~whole               -> Rejected("ShortBuffer", 0)
        [] whole /\ length = 0  -> Rejected("LengthMismatch", 2)
        [] whole /\ length # 0  ->
             IF types = {} THEN Rejected("UnknownType", 2 + length)
             ELSE LET type == CHOOSE t \in types : TRUE
                  IN  IF length # WireSize[type] THEN Rejected("LengthMismatch", 2 + length)
                      ELSE [status |-> "Ok", consumed |-> 2 + length,
                            message |-> ReadMessage(bytes, type)]

-----------------------------------------------------------------------------
(***************************************************************************)
(* encode_frame: <<field, offset, width>> of what is written behind the    *)
(* header, and the buffer after writing it; one that is too small is left  *)
(* alone.                                                                  *)
(***************************************************************************)

HeaderPlaces == {<<"length", 0, 2>>, <<"type", 2, 1>>, <<"stock_locate", 3, 2>>,
                 <<"tracking_number", 5, 2>>, <<"ts", 7, 6>>}

OrderPlaces == {<<"order_id", 13, 8>>, <<"side", 21, 1>>, <<"shares", 22, 4>>,
                <<"symbol", 26, 8>>, <<"price", 34, 4>>}

ExecutionPlaces == {<<"order_id", 13, 8>>, <<"executed_shares", 21, 4>>,
                    <<"match_number", 25, 8>>}

Places ==
  [S |-> {<<"event_code", 13, 1>>},
   R |-> {<<"symbol", 13, 8>>, <<"market_category", 21, 1>>, <<"financial_status", 22, 1>>,
          <<"round_lot_size", 23, 4>>},
   A |-> OrderPlaces,
   F |-> OrderPlaces \cup {<<"attribution", 38, 4>>},
   E |-> ExecutionPlaces,
   C |-> ExecutionPlaces \cup {<<"printable", 33, 1>>, <<"execution_price", 34, 4>>},
   X |-> {<<"order_id", 13, 8>>, <<"canceled_shares", 21, 4>>},
   D |-> {<<"order_id", 13, 8>>},
   U |-> {<<"original_order_id", 13, 8>>, <<"new_order_id", 21, 8>>, <<"shares", 29, 4>>,
          <<"price", 33, 4>>},
   P |-> OrderPlaces \cup {<<"match_number", 38, 8>>}]

encode_frame(m, out) ==
  LET places   == HeaderPlaces \cup Places[m.type]
      value(f) == CASE f = "length" -> WireSize[m.type]
                    [] f = "type"   -> Code[m.type]
                    [] OTHER        -> m[f]
      covers(p, i) == i \in (p[2] + 1)..(p[2] + p[3])
  IN  IF Len(out) < framed_size(m) THEN [bytes |-> out, written |-> 0]
      ELSE [bytes |-> [i \in DOMAIN out |->
                         IF \E p \in places : covers(p, i)
                         THEN LET p == CHOOSE p \in places : covers(p, i)
                              IN  byte_of(value(p[1]), p[3], i - p[2])
                         ELSE out[i]],
            written |-> framed_size(m)]
=============================================================================
