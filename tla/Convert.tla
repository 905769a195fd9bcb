------------------------------ MODULE Convert ------------------------------
(***************************************************************************)
(* The conversions between the program's values and HdbValues: from_u8 ... *)
(* from_none, by the type of the parameter (ser.rs), and try_into, by the  *)
(* type the program asks for (de.rs).  A program's value is [t |-> type,   *)
(* v |-> content], with the contents of HdbValues; a text that denotes the *)
(* number n is NumberText(n).  "Err" is an error, and so is a panic.       *)
(***************************************************************************)
EXTENDS HdbValues

IntBits == [i8 |-> 8, i16 |-> 16, i32 |-> 32, i64 |-> 64,
            u8 |-> 8, u16 |-> 16, u32 |-> 32, u64 |-> 64]
SignedInts == {"i8", "i16", "i32", "i64"}

\* num::cast: n is a number of this type.
InInt(type, n) ==
    IF type \in SignedInts THEN Signed(Bits[IntBits[type]], n)
                           ELSE Unsigned(Bits[IntBits[type]], n)

\* The integer that the columns of a type hold.
Repr == [TINYINT |-> "u8", SMALLINT |-> "i16", INT |-> "i32", BIGINT |-> "i64"]

NumberText(n)  == << 600 + n, IF n < 0 \/ n > 9 THEN 2 ELSE 1 >>
IsNumberText(c) == c \in 400..999
TrueText  == << 21, 4 >>
FalseText == << 22, 5 >>

Err == Value("Err", << >>)

TextTypes   == {"VARCHAR", "NVARCHAR", "TEXT", "SHORTTEXT"}
CharTypes   == TextTypes \cup {"CHAR", "NCHAR", "STRING", "NSTRING"}
StringTypes == CharTypes \cup {"ALPHANUM", "CLOB", "NCLOB"} \cup DOMAIN DateWidth

FromInt(type, n, d) ==
    CASE d.type \in IntTypes -> IF InInt(Repr[d.type], n) THEN Value(d.type, <<n>>) ELSE Err
      [] d.type \in DecTypes -> Value("DECIMAL", <<n, 0>>)
      [] d.type \in TextTypes -> Value("STRING", NumberText(n))
      [] type = "i32" /\ d.type = "DAYDATE" -> IF IsDayDate(n) THEN Value(d.type, <<n>>) ELSE Err
      [] type = "i32" /\ d.type = "SECONDTIME" ->
            IF IsSecondTime(n) THEN Value(d.type, <<n>>) ELSE Err
      [] type = "i64" /\ d.type \in {"LONGDATE", "SECONDDATE"} -> Value(d.type, <<n>>)
      [] OTHER -> Err

\* A float that stands for the number n: the float n.
FromFloat(type, n, d) ==
    CASE d.type = (IF type = "f32" THEN "REAL" ELSE "DOUBLE") -> Value(d.type, <<n>>)
      [] d.type \in DecTypes -> Value("DECIMAL", <<n, 0>>)
      [] d.type \in TextTypes -> Value("STRING", NumberText(n))
      [] OTHER -> Err

FromStr(text, d) ==
    LET n == text[1] - 600 IN
    CASE d.type \in IntTypes ->
            IF IsNumberText(text[1]) /\ InInt(Repr[d.type], n) THEN Value(d.type, <<n>>) ELSE Err
      [] d.type \in {"REAL", "DOUBLE"} ->
            IF IsNumberText(text[1]) THEN Value(d.type, <<n>>) ELSE Err
      [] d.type \in DecTypes ->
            IF IsNumberText(text[1]) THEN Value("DECIMAL", <<n, 0>>) ELSE Err
      [] d.type \in StringTypes -> Value("STRING", text)
      [] OTHER -> Err

\* Bytes for an NCLOB must be UTF-8 (those of an odd content are not).
FromBytes(bytes, d) ==
    CASE d.type \in {"BLOB", "BLOCATOR", "BINARY", "VARBINARY"} -> Value("BINARY", bytes)
      [] d.type \in {"GEOMETRY", "POINT"} -> Value(d.type, bytes)
      [] d.type = "NCLOB" /\ bytes[1] % 2 = 0 -> Value("STRING", bytes)
      [] OTHER -> Err

\* DbvFactory for a parameter descriptor.
Ser(p, d) ==
    CASE p.t \in DOMAIN IntBits -> FromInt(p.t, p.v[1], d)
      [] p.t = "bool" -> IF d.type \in IntTypes \cup {"BOOLEAN"} THEN Value("BOOLEAN", p.v) ELSE Err
      [] p.t \in {"f32", "f64"} -> FromFloat(p.t, p.v[1], d)
      [] p.t = "char" -> IF d.type \in CharTypes THEN Value("STRING", p.v) ELSE Err
      [] p.t = "str" -> FromStr(p.v, d)
      [] p.t = "bytes" -> FromBytes(p.v, d)
      [] p.t = "none" -> IF d.nullable THEN NULL ELSE Err

-----------------------------------------------------------------------------
\* Mutant: the digits of a decimal are taken without its exponent.
ToIntDigits(type, val) ==
    CASE val.t \in IntTypes \cup {"DECIMAL"} ->
            IF InInt(type, val.v[1]) THEN Value(type, <<val.v[1]>>) ELSE Err
      [] OTHER -> Err

ToInt(type, val) ==
    LET whole == WithScale(val.v[1], val.v[2], 0)
        negative == val.v[1] < 0 /\ type \notin SignedInts
    IN
    CASE val.t \in IntTypes -> IF InInt(type, val.v[1]) THEN Value(type, val.v) ELSE Err
      [] val.t = "DECIMAL" ->
            IF ~negative /\ InInt(type, whole) THEN Value(type, <<whole>>) ELSE Err
      [] val.t = "STRING" ->
            IF IsNumberText(val.v[1]) /\ InInt(type, val.v[1] - 600)
            THEN Value(type, <<val.v[1] - 600>>) ELSE Err
      [] type = "i64" /\ val.t \in {"LONGDATE", "SECONDDATE"} -> Value(type, val.v)
      [] OTHER -> Err

ToBool(val) ==
    CASE val.t = "BOOLEAN" -> Value("bool", val.v)
      [] val.t \in IntTypes -> IF val.v[1] \in {0, 1} THEN Value("bool", val.v) ELSE Err
      [] val.t = "STRING" -> IF val.v = TrueText THEN Value("bool", <<1>>)
                             ELSE IF val.v = FalseText THEN Value("bool", <<0>>) ELSE Err
      [] OTHER -> Err

\* bigdecimal hands out the float nearest to the decimal; the floats of the
\* model are whole numbers, others are no result.
ToFloat(type, val) ==
    CASE val.t = "DECIMAL" ->
            IF val.v[1] = 0 \/ Stripped(val.v[1], val.v[2])[2] >= 0
            THEN Value(type, <<WithScale(val.v[1], val.v[2], 0)>>) ELSE Err
      [] val.t = (IF type = "f32" THEN "REAL" ELSE "DOUBLE") -> Value(type, val.v)
      [] val.t = "STRING" ->
            IF IsNumberText(val.v[1]) THEN Value(type, <<val.v[1] - 600>>) ELSE Err
      [] OTHER -> Err

\* The text of a date is what the type shows of it, that of a decimal has all
\* its digits.
ToText(val) ==
    CASE val.t \in IntTypes \cup {"REAL", "DOUBLE"} -> Value("str", NumberText(val.v[1]))
      [] val.t = "STRING" -> Value("str", val.v)
      [] val.t = "DECIMAL" -> Value("decimal text", val.v)
      [] val.t = "LONGDATE"   -> Value("date text", ShowLongDate(val.v[1]))
      [] val.t = "SECONDDATE" -> Value("date text", ShowSecondDate(val.v[1]))
      [] val.t = "DAYDATE"    -> Value("date text", ShowDayDate(val.v[1]))
      [] val.t = "SECONDTIME" -> Value("date text", ShowSecondTime(val.v[1]))
      [] OTHER -> Err

ToDateTime(val) ==
    CASE val.t = "LONGDATE"   -> Value("datetime", ShowLongDate(val.v[1]))
      [] val.t = "SECONDDATE" -> Value("datetime", ShowSecondDate(val.v[1]) \o <<0>>)
      [] OTHER -> Err

ToBytes(val) ==
    IF val.t \in {"BINARY", "GEOMETRY", "POINT", "STRING"} THEN Value("bytes", val.v) ELSE Err

\* DbValueInto; LOBs are read to their end first, which another module shows.
De(type, val) ==
    CASE val.t = "NULL" -> Value("none", << >>)
      [] type \in DOMAIN IntBits -> ToInt(type, val)
      [] type = "bool" -> ToBool(val)
      [] type \in {"f32", "f64"} -> ToFloat(type, val)
      [] type = "str" -> ToText(val)
      [] type = "datetime" -> ToDateTime(val)
      [] type = "bytes" -> ToBytes(val)

ProgramTypes == DOMAIN IntBits \cup {"bool", "f32", "f64", "str", "datetime", "bytes"}
=============================================================================
