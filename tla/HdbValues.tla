----------------------------- MODULE HdbValues -----------------------------
(***************************************************************************)
(* HdbValue and its serialisation: which type id a value announces, which  *)
(* column takes it, how many bytes it says it has, what it writes, and how *)
(* the value of a column is read from a reply.                             *)
(*                                                                         *)
(* A value is [t |-> variant, v |-> content]: <<n>> for a number, boolean, *)
(* float or date, <<m, e>> for the decimal m * 10^e, <<content, bytes>>   *)
(* for strings (the bytes of their CESU-8) and binary values, <<locator,   *)
(* characters, bytes, last, data, bytes of data>> for LOBs, and nothing    *)
(* for NULL, NOTHING and LOBSTREAMs.  The ranges of the integers and of    *)
(* the decimals' mantissas are constants (Bits, in place of 8, 16, 32, 64; *)
(* FixedBits, of 64, 96, 128; MantissaBits, of 113); the lengths and the   *)
(* widths of the fields are the real ones.  Texts have no characters whose *)
(* CESU-8 is not UTF-8 (modules Cesu8 and Utf8 are about those).           *)
(***************************************************************************)
EXTENDS Bytes, Dates

CONSTANTS Bits, FixedBits, MantissaBits

ASSUME BitsAssumption ==
    /\ DOMAIN Bits = {8, 16, 32, 64}
    /\ DOMAIN FixedBits = {8, 12, 16}
    /\ MantissaBits \in Nat \ {0, 1}

\* What the provers do not know of powers.
ASSUME PowerAssumption ==
    /\ 2 ^ (MantissaBits - 1) \in Nat \ {0}
    /\ 2 ^ MantissaBits = 2 * 2 ^ (MantissaBits - 1)

Signed(bits, n)   == -(2 ^ (bits - 1)) <= n /\ n < 2 ^ (bits - 1)
Unsigned(bits, n) == 0 <= n /\ n < 2 ^ bits

NULL == [t |-> "NULL", v |-> << >>]
Value(t, v) == [t |-> t, v |-> v]

\* The type ids, and the numbers they have on the wire.
TypeCode ==
    [TINYINT |-> 1, SMALLINT |-> 2, INT |-> 3, BIGINT |-> 4, DECIMAL |-> 5, REAL |-> 6,
     DOUBLE |-> 7, CHAR |-> 8, VARCHAR |-> 9, NCHAR |-> 10, NVARCHAR |-> 11, BINARY |-> 12,
     VARBINARY |-> 13, CLOB |-> 25, NCLOB |-> 26, BLOB |-> 27, BOOLEAN |-> 28,
     STRING |-> 29, NSTRING |-> 30, BLOCATOR |-> 31, BSTRING |-> 33, TEXT |-> 51,
     SHORTTEXT |-> 52, BINTEXT |-> 53, ALPHANUM |-> 55, LONGDATE |-> 61,
     SECONDDATE |-> 62, DAYDATE |-> 63, SECONDTIME |-> 64, GEOMETRY |-> 74,
     POINT |-> 75, FIXED16 |-> 76, FIXED8 |-> 81, FIXED12 |-> 82]
TypeIds == DOMAIN TypeCode

\* TypeId::try_new: an unknown number is an error ("Err").
TryNew(code) ==
    IF \E t \in TypeIds : TypeCode[t] = code
    THEN CHOOSE t \in TypeIds : TypeCode[t] = code ELSE "Err"

IntTypes    == {"TINYINT", "SMALLINT", "INT", "BIGINT"}
FixedTypes  == {"FIXED8", "FIXED12", "FIXED16"}
DecTypes    == FixedTypes \cup {"DECIMAL"}
LobVariants == {"CLOB", "NCLOB", "BLOB", "LOBSTREAM"}
IntWidth    == [TINYINT |-> 1, SMALLINT |-> 2, INT |-> 4, BIGINT |-> 8]
DateWidth   == [LONGDATE |-> 8, SECONDDATE |-> 8, DAYDATE |-> 4, SECONDTIME |-> 4]
DateNull    == [LONGDATE |-> LongDateNull, SECONDDATE |-> SecondDateNull,
                DAYDATE |-> DayDateNull, SECONDTIME |-> SecondTimeNull]
FixedWidth  == [FIXED8 |-> 8, FIXED12 |-> 12, FIXED16 |-> 16]

\* The type id a value announces for a column's type, or "Err".
TypeIdForEmit(val, requested) ==
    CASE val.t = "NOTHING" -> "Err"
      [] val.t = "NULL" -> IF requested = "SECONDTIME" THEN "SECONDDATE" ELSE requested
      [] val.t = "DECIMAL" -> IF requested \in DecTypes THEN requested ELSE "Err"
      [] val.t \in LobVariants \cup {"LOBSTREAM_NONE"} -> requested
      [] val.t = "STR" -> "STRING"
      [] val.t \in {"GEOMETRY", "POINT"} -> "BINARY"
      [] OTHER -> val.t

\* TypeId::matches_value_type: which announced types a column takes.
MatchesValueType(column, announced) ==
    \/ announced = column
    \/ announced = "BOOLEAN" /\ column \in IntTypes
    \/ announced = "STRING" /\ column \notin {"GEOMETRY", "POINT"}
    \/ announced = "BINARY" /\ column \in {"BLOB", "BLOCATOR", "VARBINARY", "GEOMETRY", "POINT"}
    \/ announced = "DECIMAL" /\ column \in FixedTypes

-----------------------------------------------------------------------------
(* Decimals.                                                               *)
Abs(n) == IF n < 0 THEN -n ELSE n

\* Powers of ten.
TenTo[n \in Nat] == IF n = 0 THEN 1 ELSE 10 * TenTo[n - 1]

\* How many zeros m ends with.
ZerosOf(m) ==
    CHOOSE k \in 0..Abs(m) : Abs(m) % TenTo[k] = 0 /\ Abs(m) % TenTo[k + 1] # 0

\* The decimal without trailing zeros, which is one number in one way.
Stripped(m, e) ==
    IF m = 0 THEN <<0, e>> ELSE <<Quot(m, TenTo[ZerosOf(m)]), e + ZerosOf(m)>>

\* The exponent becomes -scale, and what lies behind is cut off.
WithScale(m, e, scale) ==
    IF e + scale >= 0 THEN m * TenTo[e + scale] ELSE Quot(m, TenTo[-scale - e])

\* HdbDecimal::from_bigdecimal: digits are cut off until the mantissa has no
\* more than MantissaBits bits.  The exponent's two bytes are written over the
\* last byte of the mantissa, whose lowest bit belongs to the mantissa.
FromBigdecimal(bd) ==
    LET s == Stripped(bd[1], bd[2])
        cut == CHOOSE k \in 0..Abs(s[1]) : Abs(s[1]) \div TenTo[k] < 2 ^ MantissaBits
                   /\ (k = 0 \/ Abs(s[1]) \div TenTo[k - 1] >= 2 ^ MantissaBits)
        m == Abs(s[1]) \div TenTo[cut]
        e == s[2] + cut
    IN  IF e < -6143 \/ e > 6144 THEN Fail(<< >>)
        ELSE Done(<< >>, PutAll(<<14, 2>>,
                 << m % (2 ^ (MantissaBits - 1)),
                    2 * (e + 6176) + (IF s[1] < 0 THEN 2 ^ 15 ELSE 0) >>))

\* into_elements and into_bigdecimal.
IntoBigdecimal(low, word) ==
    LET m == low + (word % 2) * (2 ^ (MantissaBits - 1))
    IN  << IF word >= 2 ^ 15 THEN -m ELSE m, ((word % (2 ^ 15)) \div 2) - 6176 >>

\* decimal::emit: what it writes is in "in".  Nobody looks whether a FIXED12
\* has room in its twelve bytes: it writes as many as the number needs.
\* Mutant: a fixed-point number is written without its scale.
EmitDecimalUnscaled(bd, type, scale) ==
    IF type = "DECIMAL" THEN FromBigdecimal(bd)
    ELSE Done(<< >>, Put(FixedWidth[type], WithScale(bd[1], bd[2], 0)))

EmitDecimal(bd, type, scale) ==
    LET n == WithScale(bd[1], bd[2], scale) IN
    CASE type = "DECIMAL" -> FromBigdecimal(bd)
      [] type = "FIXED12" ->
            Done(<< >>, Put(IF Signed(FixedBits[12], n) THEN 12 ELSE 13, n))
      [] type \in {"FIXED8", "FIXED16"} ->
            IF Signed(FixedBits[FixedWidth[type]], n)
            THEN Done(<< >>, Put(FixedWidth[type], n)) ELSE Fail(<< >>)
      [] OTHER -> Fail(<< >>)

-----------------------------------------------------------------------------
(* Sizes and serialisation.                                                *)
\* Mutant: the one byte of the length is thought to reach one further.
BinaryLengthOffByOne(l) == (IF l <= 246 THEN 1 ELSE IF l <= 32767 THEN 3 ELSE 5) + l

BinaryLength(l) == (IF l <= 245 THEN 1 ELSE IF l <= 32767 THEN 3 ELSE 5) + l

LengthField(l) ==
    IF l <= 245 THEN Put(1, l)
    ELSE IF l <= 32767 THEN PutAll(<<1, 2>>, <<246, l>>)
    ELSE PutAll(<<1, 4>>, <<247, l>>)

EmitLengthAndBytes(l, content) == LengthField(l) \o Put(l, content)

\* A value the client cannot send in a parameter part.
NotSendable(val) == val.t \in {"CLOB", "NCLOB", "BLOB", "LOBSTREAM"}

\* HdbValue::size, without the error (see SizeIsOk); the type id is counted.
ValueSize(val, type) ==
    1 + CASE val.t \in {"NULL", "NOTHING"} -> 0
          [] val.t = "BOOLEAN" -> 1
          [] val.t \in IntTypes -> IntWidth[val.t]
          [] val.t = "REAL" -> 4
          [] val.t = "DOUBLE" -> 8
          [] val.t \in DOMAIN DateWidth -> DateWidth[val.t]
          [] val.t = "DECIMAL" -> IF type \in FixedTypes THEN FixedWidth[type] ELSE 16
          [] val.t = "LOBSTREAM_NONE" -> 9
          [] OTHER -> BinaryLength(val.v[2])

SizeIsOk(val, type) ==
    ~NotSendable(val) /\ (val.t = "DECIMAL" => type \in DecTypes)

\* HdbValue::emit: whether it succeeds, and the fields it has written (in).
\* An empty LOB's header has the length 0 and the position 0, since nothing
\* moves the position on.
EmitValue(val, descriptor) ==
    LET announced == TypeIdForEmit(val, descriptor.type)
        w == CASE NotSendable(val) -> Fail(<< >>)
               [] val.t = "NULL" -> Done(<< >>, << >>)
               [] val.t = "BOOLEAN" -> Done(<< >>, Put(1, 2 * val.v[1]))
               [] val.t \in IntTypes -> Done(<< >>, Put(IntWidth[val.t], val.v[1]))
               [] val.t \in DOMAIN DateWidth -> Done(<< >>, Put(DateWidth[val.t], val.v[1]))
               [] val.t = "REAL" -> Done(<< >>, Put(4, val.v[1]))
               [] val.t = "DOUBLE" -> Done(<< >>, Put(8, val.v[1]))
               [] val.t = "DECIMAL" -> EmitDecimal(val.v, descriptor.type, descriptor.scale)
               [] val.t = "LOBSTREAM_NONE" -> Done(<< >>, PutAll(<<1, 4, 4>>, <<0, 0, 0>>))
               [] OTHER -> Done(<< >>, EmitLengthAndBytes(val.v[2], val.v[1]))
    IN  IF announced = "Err" THEN Fail(<< >>)
        ELSE [w EXCEPT !.in = Put(1, TypeCode[announced] + (IF val.t = "NULL" THEN 128 ELSE 0))
                                \o @]

-----------------------------------------------------------------------------
(* Reading a column's value from a reply.                                  *)
\* A value was found: NULL in a column that is NOT NULL is an error.
Found(isNull, nullable, val, in) ==
    IF ~isNull THEN Done(val, in) ELSE IF nullable THEN Done(NULL, in) ELSE Fail(in)

\* A number of w bytes behind a byte that is zero for NULL.
ParseNumber(type, w, nullable, in) ==
    Then(Rd1(1, in), LAMBDA flag, s :
        IF flag = 0 THEN Found(TRUE, nullable, NULL, s)
        ELSE Then(Rd1(w, s), LAMBDA n, rest : Done(Value(type, <<n>>), rest)))

\* All bits of a float are set for NULL.
AllOnes == -1

ParseFloat(type, w, nullable, in) ==
    Then(Rd1(w, in), LAMBDA f, s : Found(f = AllOnes, nullable, Value(type, <<f>>), s))

ParseBool(nullable, in) ==
    Then(Rd1(1, in), LAMBDA b, s :
        IF b \in {0, 2} THEN Done(Value("BOOLEAN", <<b \div 2>>), s)
        ELSE IF b = 1 THEN Found(TRUE, nullable, NULL, s) ELSE Fail(s))

\* DayDate::new and SecondTime::new panic instead of returning an error.
Panics(type, d) == \/ type = "DAYDATE" /\ ~IsDayDate(d)
                   \/ type = "SECONDTIME" /\ ~IsSecondTime(d)

ParseDate(type, nullable, in) ==
    Then(Rd1(DateWidth[type], in), LAMBDA d, s :
        IF d # DateNull[type] /\ Panics(type, d) THEN Fail(s)
        ELSE Found(d = DateNull[type], nullable, Value(type, <<d>>), s))

\* The number with the scale of its column, unless that has none.
Scaled(bd, scale) ==
    Value("DECIMAL", IF scale < 32767 THEN <<WithScale(bd[1], bd[2], scale), -scale>> ELSE bd)

NullDecimal == <<0, 112 * 256>>

ParseDecimal(type, nullable, scale, in) ==
    IF type = "DECIMAL"
    THEN Then(Rd(<<14, 2>>, in), LAMBDA raw, s :
             Found(raw = NullDecimal, nullable,
                   IF raw = NullDecimal THEN NULL ELSE Scaled(IntoBigdecimal(raw[1], raw[2]), scale), s))
    ELSE Then(ParseNumber("DECIMAL", FixedWidth[type], nullable, in), LAMBDA n, s :
             Done(IF n.t = "DECIMAL" THEN Value("DECIMAL", Append(n.v, -scale)) ELSE n, s))

\* A string or a binary value; the length 255 is NULL, and between 247 and
\* 255 no length is defined.
ParseLength(l8, in) ==
    IF l8 <= 245 THEN Done(l8, in) ELSE IF l8 = 246 THEN Rd1(2, in) ELSE Rd1(4, in)

ParseBytes(variant, nullable, in) ==
    Then(Rd1(1, in), LAMBDA l8, s :
        IF l8 = 255 THEN Found(TRUE, nullable, NULL, s)
        ELSE IF l8 > 247 THEN Fail(s)
        ELSE Then(ParseLength(l8, s), LAMBDA l, body :
             Then(RdBytes(l, body), LAMBDA b, rest : Done(Value(variant, b), rest))))

\* The text of a number with this many zeros before it.
Padded(content, zeros) == content + 1000 * zeros

\* ALPHANUM: the length counts the byte behind it, which says that leading
\* zeros were left out, and how many characters there are with them.
AlphanumText(content, l, flags) ==
    LET length == IF flags >= 128 THEN flags - 128 ELSE l - 1 IN
    Value("STRING", <<Padded(content, length - (l - 1)), length>>)

ParseAlphanum(nullable, in) ==
    Then(Rd1(1, in), LAMBDA l, s :
        IF l = 255 THEN Found(TRUE, nullable, NULL, s)
        ELSE Then(Rd1(1, s), LAMBDA flags, body :
             IF l = 0 \/ (flags >= 128 /\ flags - 128 < l - 1) THEN Fail(body)
             ELSE Then(Rd1(l - 1, body), LAMBDA b, rest : Done(AlphanumText(b, l, flags), rest))))

\* The header of a LOB, and the first part of its data if it is included.
BitOf(options, i) == (options \div (2 ^ i)) % 2

ParseLob(variant, nullable, in) ==
    Then(Rd(<<1, 1>>, in), LAMBDA h, s :
        IF BitOf(h[2], 0) = 1 THEN Found(TRUE, nullable, NULL, s)
        ELSE Then(Rd(<<2, 8, 8, 8, 4>>, s), LAMBDA b, body :
             Then(RdBytes(IF BitOf(h[2], 1) = 1 THEN b[5] ELSE 0, body), LAMBDA data, rest :
                 Done(Value(variant, <<b[4], b[2], b[3], BitOf(h[2], 2)>> \o data), rest))))

\* HdbValue::parse_from_reply, by the type of the column.
ParseFromReply(type, scale, nullable, in) ==
    CASE type \in IntTypes -> ParseNumber(type, IntWidth[type], nullable, in)
      [] type = "REAL" -> ParseFloat(type, 4, nullable, in)
      [] type = "DOUBLE" -> ParseFloat(type, 8, nullable, in)
      [] type = "BOOLEAN" -> ParseBool(nullable, in)
      [] type \in DecTypes -> ParseDecimal(type, nullable, scale, in)
      [] type \in DOMAIN DateWidth -> ParseDate(type, nullable, in)
      [] type \in {"CHAR", "VARCHAR", "NCHAR", "NVARCHAR", "STRING", "NSTRING", "SHORTTEXT"} ->
            ParseBytes("STRING", nullable, in)
      [] type = "ALPHANUM" -> ParseAlphanum(nullable, in)
      [] type \in {"BINARY", "VARBINARY", "BSTRING"} -> ParseBytes("BINARY", nullable, in)
      [] type \in {"GEOMETRY", "POINT"} -> ParseBytes(type, nullable, in)
      [] type \in {"BLOB", "BINTEXT"} -> ParseLob("BLOB", nullable, in)
      [] type = "CLOB" -> ParseLob("CLOB", nullable, in)
      [] type \in {"NCLOB", "TEXT"} -> ParseLob("NCLOB", nullable, in)
      [] type = "BLOCATOR" -> Fail(in)
=============================================================================
