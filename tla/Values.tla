------------------------------- MODULE Values -------------------------------
(***************************************************************************)
(* A value's way through the adapter: from the JSON of a record into a     *)
(* column (_coerce), from the column into a result (_logical_json_value)   *)
(* or into a cursor, and as the operand of a filter into a parameter.      *)
(*                                                                         *)
(* A value is a pair of a tag and a content.  Values of several tags are   *)
(* strings; what a string spells is its content.  Columns are scalar: an   *)
(* array is coerced and delivered element by element.                      *)
(***************************************************************************)
EXTENDS Timestamps

CONSTANTS
  IntLimit,   \* integers of a column are signed and have 64 bits, 2^63
  Scale,      \* fractional digits of a decimal column
  Precision   \* all digits of a decimal column

ASSUME ValuesAssumption ==
  IntLimit \in Nat \ {0} /\ Scale \in Nat /\ Precision \in Nat \ {0} /\ Scale <= Precision

Kinds == {"boolean", "int", "string", "timestamp", "decimal", "bytes", "json"}

Tag(v) == v[1]
Content(v) == v[2]

Refused == <<"refused", 0>>  \* TypeError or ValueError
Failed == <<"failed", 0>>    \* any other exception

\* units parts of a whole that has Power[scale] of them
Numerals == [units : Int, scale : Nat]

\* The JSON of records and filters, whatever type of column it is given for.  A
\* float is spelled by a short numeral and is exactly another one, the expansion
\* of its binary form; "decimal" is a string.
JsonValues ==
  ({"stamp"} \X [civil : Int, offset : Int, fraction : Fractions])
    \cup ({"int"} \X Int) \cup ({"decimal"} \X Numerals)
    \cup ({"float"} \X [spelled : Numerals, exact : Numerals])
    \cup ({"bool"} \X BOOLEAN) \cup ({"plain"} \X Nat)
    \cup ({"object"} \X [members : Nat, order : Nat]) \cup ({"jsontext"} \X ({"int"} \X Int))
    \cup ({"base64"} \X Seq(Nat))

\* "jsontext" is a string that spells a JSON value, "utf8" and "hex" the two
\* ways in which the driver makes a string of bytes.
Strings == {"plain", "stamp", "decimal", "base64", "jsontext", "utf8", "hex"}

-----------------------------------------------------------------------------
\* Into the column.

\* Plausible mistake: the range is taken as symmetric.
InIntRangeSymmetric(n) == n \in -IntLimit..IntLimit

InIntRange(n) == n \in -IntLimit..(IntLimit - 1)

CoerceInt(v) == IF Tag(v) = "int" /\ InIntRange(Content(v)) THEN v ELSE Refused

CoerceTimestamp(v) ==
  IF Tag(v) = "stamp" /\ TicksOf(Content(v)) \in Ticks
    THEN <<"ticks", TicksOf(Content(v))>> ELSE Refused

\* Decimal("text") raises InvalidOperation, which is no ValueError; Decimal(0.29)
\* is what the float is, not what it is spelled as.
CoerceDecimal(v) ==
  CASE Tag(v) = "int"     -> <<"decimal", [units |-> Content(v), scale |-> 0]>>
    [] Tag(v) = "float"   -> <<"decimal", Content(v).exact>>
    [] Tag(v) = "decimal" -> v
    [] Tag(v) \in Strings \ {"decimal"} -> Failed
    [] OTHER -> Refused

\* Members of an object in canonical order.
Canonical(v) ==
  IF Tag(v) = "object" THEN <<"object", [Content(v) EXCEPT !.order = 0]>> ELSE v

Coerce(kind, v) ==
  CASE kind = "boolean"   -> IF Tag(v) = "bool" THEN v ELSE Refused
    [] kind = "int"       -> CoerceInt(v)
    [] kind = "string"    -> IF Tag(v) \in Strings THEN v ELSE Refused
    [] kind = "timestamp" -> CoerceTimestamp(v)
    [] kind = "decimal"   -> CoerceDecimal(v)
    [] kind = "bytes"     -> IF Tag(v) = "base64" THEN <<"bytes", Content(v)>> ELSE Refused
    [] kind = "json"      -> <<"jsontext", Canonical(v)>>

\* The driver and the engine: integers have a width, and decimals lose what is
\* beyond the column's scale.
Wrapped(n) == ((n + IntLimit) % (2 * IntLimit)) - IntLimit

Rescaled(d) ==
  LET size == ((IF d.units < 0 THEN -d.units ELSE d.units) * Power[Scale]) \div Power[d.scale] IN
  [units |-> IF d.units < 0 THEN -size ELSE size, scale |-> Scale]

Column(kind, w) ==
  CASE w \in {Refused, Failed} -> w
    [] w \notin {Refused, Failed} /\ kind = "int" -> <<"int", Wrapped(Content(w))>>
    [] w \notin {Refused, Failed} /\ kind = "decimal" ->
         IF Rescaled(Content(w)).units \in -(Power[Precision] - 1)..(Power[Precision] - 1)
           THEN <<"decimal", Rescaled(Content(w))>> ELSE Failed
    [] OTHER -> w

Stored(kind, v) == Column(kind, Coerce(kind, v))
Accepts(kind, v) == Stored(kind, v) \notin {Refused, Failed}

-----------------------------------------------------------------------------
\* Out of the column.

\* Printable bytes come as text where the driver is not told otherwise.
Printable(bytes) == \A i \in DOMAIN bytes : bytes[i] < 2

\* What the driver returns of a column, with a columnFormats entry or "none".
Fetched(w, format) ==
  CASE Tag(w) = "ticks" /\ format = "int" -> <<"int", Content(w)>>
    [] Tag(w) = "ticks" /\ format # "int" ->
         <<"datetime", Content(w) - (Content(w) % TicksPerMicro)>>
    [] Tag(w) = "bytes" /\ format # "bytes" ->
         <<IF Printable(Content(w)) THEN "utf8" ELSE "hex", Content(w)>>
    [] OTHER -> w

\* Plausible mistake: _result_metadata forgets the timestamps it sorts by.
NoFormat(kind) == "none"

SortFormat(kind) == IF kind = "timestamp" THEN "int" ELSE "none"

ResultFormat(kind) ==
  CASE kind = "timestamp" -> "int" [] kind = "bytes" -> "bytes" [] OTHER -> "none"

\* Plausible mistake: documents are delivered as the text that is stored.
DocumentsOfNone == {}

\* jsonColumns
Documents == {"json"}

\* _logical_json_value, for a result (among the documents or not) or a cursor
JsonValue(kind, x, document) ==
  CASE kind = "timestamp" /\ Tag(x) = "int" -> <<"stamp", ResultText(Content(x))>>
    [] Tag(x) = "datetime"                  -> <<"stamp", ResultText(Content(x))>>
    [] Tag(x) = "jsontext" /\ document      -> Content(x)
    [] Tag(x) = "bytes"                     -> <<"base64", Content(x)>>
    [] OTHER                                -> x

Delivered(kind, w) == JsonValue(kind, Fetched(w, ResultFormat(kind)), kind \in Documents)

SortTuple(kind, w) == JsonValue(kind, Fetched(w, SortFormat(kind)), FALSE)

-----------------------------------------------------------------------------
\* Operands of filters and keysets.

\* Plausible mistake: parameters keep the public spelling of a timestamp cut
\* to microseconds.
ParameterCut(kind, v) ==
  IF kind = "timestamp" /\ Tag(v) = "stamp"
    THEN LET t == TicksOf(Content(v)) IN <<"stamp", ResultText(t - (t % TicksPerMicro))>> ELSE v

\* _parameter_value
Parameter(kind, v) ==
  IF kind = "timestamp" /\ Tag(v) = "stamp"
    THEN <<"stamp", ParameterText(TicksOf(Content(v)))>> ELSE v

\* The number in the text of a parameter.
ParameterNumber(p) ==
  IF Tag(p) = "float" THEN Content(p).spelled ELSE Content(CoerceDecimal(p))

\* What the server makes of a parameter of the column's type.  A String column
\* of bytes or of a document compares with the text of the parameter.
Operand(kind, p) ==
  CASE kind = "timestamp" -> <<"ticks", TicksOf(Content(p))>>
    [] kind = "decimal"   -> <<"decimal", Rescaled(ParameterNumber(p))>>
    [] kind = "bytes"     -> IF Tag(p) = "utf8" THEN <<"bytes", Content(p)>> ELSE <<"text", p>>
    [] kind = "json"      -> IF Tag(p) \in {"int", "float"} THEN <<"jsontext", p>> ELSE p
    [] OTHER              -> p

Equals(kind, w, v) == Operand(kind, Parameter(kind, v)) = w

-----------------------------------------------------------------------------
\* What the values given for a decimal column say.

\* The number a value is: of a float not the one it is spelled as.
NumberOf(v) ==
  CASE Tag(v) = "int" -> [units |-> Content(v), scale |-> 0]
    [] Tag(v) = "float" -> Content(v).exact
    [] Tag(v) = "decimal" -> Content(v)

\* d is less than one unit of its last digit away from n, and so n itself where
\* n has no more digits.
Near(d, n) ==
  LET off == d.units * Power[n.scale] - n.units * Power[d.scale] IN
  -Power[n.scale] < off /\ off < Power[n.scale]

\* A float that is the number it is spelled as, like 0.5.
AsSpelled(v) == Tag(v) = "float" => Content(v).spelled = Content(v).exact

=============================================================================
