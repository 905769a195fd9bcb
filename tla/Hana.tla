-------------------------------- MODULE Hana --------------------------------
(***************************************************************************)
(* The values as the database sees them.  It is no part of this repository *)
(* and knows nothing of HdbValue: a value has a kind and a content         *)
(*   [k |-> "num",   v |-> <<m, e>>]        the number m * 10^e, e maximal *)
(*   [k |-> "float", v |-> <<n>>]           a float                        *)
(*   [k |-> "text" / "bytes", v |-> <<content, bytes>>]                    *)
(*   [k |-> "date",  v |-> <<year, month, day, hour, minute, second, tick>>] *)
(*   [k |-> "time",  v |-> <<hour, minute, second>>]                       *)
(*   [k |-> "raw",   v |-> <<n>>]           a moment by its number         *)
(*   [k |-> "lob",   v |-> <<locator, characters, bytes, last, data, bytes>>] *)
(*   [k |-> "null",  v |-> << >>]                                          *)
(* and comes and goes by the tables of the protocol below.                 *)
(***************************************************************************)
EXTENDS ReplyParts, TLC

Content(k, v) == [k |-> k, v |-> v]
Null == Content("null", << >>)
Number(m, e) == Content("num", IF m = 0 THEN <<0, 0>> ELSE Stripped(m, e))

\* What the database makes of a type byte it does not know, of NULL in a
\* column that is NOT NULL, of a number out of the column's range.
Rejected == Content("rejected", << >>)

\* A length and that many bytes: one byte, or a mark and two or four.
TakeBytes(in) ==
    Then(Then(Rd1(1, in), LAMBDA l8, s :
             CASE l8 = 246 -> Rd1(2, s) [] l8 = 247 -> Rd1(4, s) [] OTHER -> Done(l8, s)),
         LAMBDA l, s : RdBytes(l, s))

\* The 16 bytes of a decimal: 113 bits of mantissa, 14 of exponent, a sign.
DecimalOf(low, word) ==
    Number((IF word >= 2 ^ 15 THEN -1 ELSE 1) * (low + (word % 2) * 2 ^ (MantissaBits - 1)),
           ((word % 2 ^ 15) \div 2) - 6176)

WordsOf(m, e) ==
    << Abs(m) % 2 ^ (MantissaBits - 1),
       (IF m < 0 THEN 2 ^ 15 ELSE 0) + 2 * (e + 6176) + Abs(m) \div 2 ^ (MantissaBits - 1) >>

\* A parameter: the type code, 128 more for NULL, and the content.
FloatCodes == {6, 7}
FixedCodes == {81, 82, 76}
DateCodes == {61, 62, 63, 64}
LobCodes == {25, 26, 27, 51, 53}
CodeWidth ==
    [c \in {1, 2, 3, 4, 28} \cup FloatCodes \cup FixedCodes \cup DateCodes |->
        CASE c \in {1, 28} -> 1 [] c = 2 -> 2 [] c \in {3, 6, 63, 64} -> 4
          [] c \in {4, 7, 61, 62, 81} -> 8 [] c = 82 -> 12 [] c = 76 -> 16]

ContentOf(code, column, n) ==
    CASE code \in FloatCodes -> Content("float", <<n>>)
      [] code \in FixedCodes -> Number(n, -column.scale)
      [] code \in DateCodes -> Content("raw", <<n>>)
      [] code = 28 -> Number(IF n = 0 THEN 0 ELSE 1, 0)
      [] OTHER -> Number(n, 0)

\* The content behind the code c.
TakeContent(column, c, in) ==
    CASE c >= 128 -> Done(Null, in)
      [] c \in DOMAIN CodeWidth ->
            Then(Rd1(CodeWidth[c], in), LAMBDA n, s : Done(ContentOf(c, column, n), s))
      [] c = 5 -> Then(Rd(<<14, 2>>, in), LAMBDA d, s : Done(DecimalOf(d[1], d[2]), s))
      [] c \in {12, 29} ->
            Then(TakeBytes(in), LAMBDA b, s : Done(Content(IF c = 12 THEN "bytes" ELSE "text", b), s))
      [] c \in LobCodes ->
            Then(Rd(<<1, 4, 4>>, in), LAMBDA h, s : Done(Content("lob header", h), s))
      [] OTHER -> Done(Rejected, Lost)

TakeParameter(column, in) ==
    Then(Rd1(1, in), LAMBDA c, s : TakeContent(column, c, s))

-----------------------------------------------------------------------------
IsWhole(c) == c.k = "num" /\ c.v[2] >= 0
WholeOf(c) == c.v[1] * TenTo[c.v[2]]
FitsInt == [TINYINT |-> <<FALSE, 8>>, SMALLINT |-> <<TRUE, 16>>,
            INT |-> <<TRUE, 32>>, BIGINT |-> <<TRUE, 64>>]

\* What a column holds after it was given a parameter.
Store(column, c) ==
    LET number == IF c.k = "text" /\ IsNumberText(c.v[1]) THEN Number(c.v[1] - 600, 0) ELSE c
        fits == FitsInt[column.type]
    IN
    CASE c.k = "null" -> IF column.nullable THEN Null ELSE Rejected
      [] column.type \in IntTypes ->
            IF IsWhole(number) /\ (IF fits[1] THEN Signed(Bits[fits[2]], WholeOf(number))
                                              ELSE Unsigned(Bits[fits[2]], WholeOf(number)))
            THEN number ELSE Rejected
      [] column.type = "BOOLEAN" -> IF c.k = "num" THEN c ELSE Rejected
      [] column.type \in DecTypes -> IF number.k = "num" THEN number ELSE Rejected
      [] column.type \in {"REAL", "DOUBLE"} -> IF c.k = "float" THEN c ELSE Rejected
      [] column.type \in {"CHAR", "VARCHAR", "NCHAR", "NVARCHAR", "STRING", "NSTRING",
                          "SHORTTEXT"} -> IF c.k = "text" THEN c ELSE Rejected
      [] column.type = "ALPHANUM" -> IF c.k = "text" /\ c.v[2] <= 127 THEN c ELSE Rejected
      [] column.type \in {"BINARY", "VARBINARY", "BSTRING", "GEOMETRY", "POINT"} ->
            IF c.k = "bytes" THEN c ELSE Rejected
      [] column.type \in DOMAIN DateWidth -> IF c.k = "raw" THEN c ELSE Rejected
      [] OTHER -> Rejected

-----------------------------------------------------------------------------
\* The number of a moment: one more than the units since 0001-01-01, and the
\* number after the last moment for NULL (that of a time leaves room for 24:00).
SecondOf(h, mi, s) == (h * MinutesPerHour + mi) * SecondsPerMinute + s
SecondsOf(t) == DayNumber(t[1], t[2], t[3]) * SecondOf(HoursPerDay, 0, 0) + SecondOf(t[4], t[5], t[6])
EndOfTime == (DayNumber(9999, 12, 31) + 1) * SecondOf(HoursPerDay, 0, 0)

PutDate(type, c) ==
    LET isNull == c.k = "null" t == c.v IN
    CASE c.k = "raw" -> Put(DateWidth[type], t[1])
      [] type = "DAYDATE" ->
            Put(4, IF isNull THEN DayNumber(9999, 12, 31) + 2 ELSE DayNumber(t[1], t[2], t[3]) + 1)
      [] type = "SECONDTIME" ->
            Put(4, IF isNull THEN SecondOf(HoursPerDay, 0, 0) + 2 ELSE SecondOf(t[1], t[2], t[3]) + 1)
      [] type = "SECONDDATE" -> Put(8, IF isNull THEN EndOfTime + 1 ELSE SecondsOf(t) + 1)
      [] type = "LONGDATE" ->
            Put(8, IF isNull THEN EndOfTime * TicksPerSecond + 1
                   ELSE SecondsOf(t) * TicksPerSecond + t[7] + 1)

PutBytes(c) ==
    IF c.k = "null" THEN Put(1, 255)
    ELSE (CASE c.v[2] < 246 -> Put(1, c.v[2])
            [] c.v[2] \in 246..32767 -> PutAll(<<1, 2>>, <<246, c.v[2]>>)
            [] OTHER -> PutAll(<<1, 4>>, <<247, c.v[2]>>)) \o Put(c.v[2], c.v[1])

\* ALPHANUM: a text of digits is kept without its leading zeros.
PutAlphanum(c) ==
    LET zeros == c.v[1] \div 1000
        digits == c.v[2] - zeros
        flag == IF zeros > 0 THEN 128 + c.v[2] ELSE c.v[2]
    IN  IF c.k = "null" THEN Put(1, 255)
        ELSE PutAll(<<1, 1>>, <<digits + 1, flag>>) \o Put(digits, c.v[1] % 1000)

PutLob(c, code) ==
    IF c.k = "null" THEN PutAll(<<1, 1>>, <<code, 1>>)
    ELSE PutAll(<<1, 1, 2, 8, 8, 8, 4>>,
                <<code, 2 * (IF c.v[6] > 0 THEN 1 ELSE 0) + 4 * c.v[4], 0,
                  c.v[2], c.v[3], c.v[1], c.v[6]>>) \o Put(c.v[6], c.v[5])

Flagged(c, w, n) == IF c.k = "null" THEN Put(1, 0) ELSE PutAll(<<1, w>>, <<1, n>>)
AtScale(c, scale) == WithScale(c.v[1], c.v[2], scale)

\* The value of a column in a row of a reply.
PutColumn(column, c) ==
    CASE column.type = "TINYINT" -> Flagged(c, 1, WholeOf(c))
      [] column.type = "SMALLINT" -> Flagged(c, 2, WholeOf(c))
      [] column.type = "INT" -> Flagged(c, 4, WholeOf(c))
      [] column.type = "BIGINT" -> Flagged(c, 8, WholeOf(c))
      [] column.type = "BOOLEAN" ->
            Put(1, IF c.k = "null" THEN 1 ELSE IF c.v[1] = 0 THEN 0 ELSE 2)
      [] column.type = "REAL" -> Put(4, IF c.k = "null" THEN AllOnes ELSE c.v[1])
      [] column.type = "DOUBLE" -> Put(8, IF c.k = "null" THEN AllOnes ELSE c.v[1])
      [] column.type = "DECIMAL" ->
            PutAll(<<14, 2>>, IF c.k = "null" THEN <<0, 28672>> ELSE WordsOf(c.v[1], c.v[2]))
      [] column.type = "FIXED8" -> Flagged(c, 8, AtScale(c, column.scale))
      [] column.type = "FIXED12" -> Flagged(c, 12, AtScale(c, column.scale))
      [] column.type = "FIXED16" -> Flagged(c, 16, AtScale(c, column.scale))
      [] column.type \in {"LONGDATE", "SECONDDATE", "DAYDATE", "SECONDTIME"} ->
            PutDate(column.type, c)
      [] column.type = "ALPHANUM" -> PutAlphanum(c)
      [] column.type \in {"BLOB", "BINTEXT", "CLOB", "NCLOB", "TEXT"} ->
            PutLob(c, TypeCode[column.type])
      [] OTHER -> PutBytes(c)

-----------------------------------------------------------------------------
(* Requests as the database takes them: the sizes in the headers say where *)
(* a message, a segment and a part end.                                    *)
Ones(n) == [i \in 1..n |-> 1]

\* The fields that have exactly so many bytes; nothing if no field ends there.
Cut(bytes, in) ==
    LET ends == {k \in 0..Len(in) : Width(SubSeq(in, 1, k)) = bytes} IN
    IF ends = {} THEN Fail(Lost)
    ELSE LET k == CHOOSE k \in ends : \A j \in ends : k <= j IN Done(SubSeq(in, 1, k), SubSeq(in, k + 1, Len(in)))

TakeOption(i, in) ==
    Then(Rd(<<1, 1>>, in), LAMBDA h, s :
        Then(Rd1(CASE h[2] = 3 -> 4 [] h[2] \in {4, 7} -> 8 [] h[2] = 28 -> 1 [] OTHER -> 2, s),
             LAMBDA n, t :
            IF h[2] \notin {29, 33} THEN Done(<<h[1], h[2], n>>, t)
            ELSE Then(RdBytes(n, t), LAMBDA b, rest : Done(h \o b, rest))))

TakeRow(columns, in) ==
    RdEach(LAMBDA i, s : TakeParameter(columns[i], s), Len(columns), in)

TakeText(i, in) == TakeBytes(in)

TakeAuthField(i, in) ==
    Then(Then(Rd1(1, in), LAMBDA l8, s : IF l8 = 255 THEN Rd1(2, s) ELSE Done(l8, s)),
         LAMBDA l, s : RdBytes(l, s))

\* The content of a part with so many arguments, in so many bytes.
TakeBody(kind, n, bytes, columns, in) ==
    CASE kind \in {27, 29, 34, 39, 42, 64, 68, 70} -> RdEach(TakeOption, n, in)
      [] kind = 3 -> RdBytes(bytes, in)
      [] kind \in {10, 13} -> Rd(<<8>>, in)
      [] kind = 45 -> Rd(<<4>>, in)
      [] kind = 17 -> Rd(<<8, 8, 4, 4>>, in)
      [] kind = 28 -> Then(Rd(<<8, 1, 8, 4>>, in), LAMBDA h, s :
                          Then(Rd1(h[4], s), LAMBDA d, rest : Done(Append(h, d), rest)))
      [] kind = 32 -> RdEach(LAMBDA i, s : TakeRow(columns, s), n, in)
      [] kind = 33 -> Then(Rd1(2, in), LAMBDA c, s : RdEach(TakeAuthField, c, s))
      [] kind = 57 -> RdEach(TakeText, n, in)
      [] OTHER -> Fail(in)

\* A part: ok only if the content has the size the header says, and if the
\* header says how much of the message is left.
TakePart(columns, taken, in) ==
    Then(Rd(<<1, 1, 2, 4, 4, 4>>, in), LAMBDA h, s :
        IF h[6] # taken.left THEN Fail(Lost)
        ELSE Then(Cut(h[5], s), LAMBDA body, t :
            Then(TakeBody(h[1], IF h[3] = -1 THEN h[4] ELSE h[3], h[5], columns, body),
                 LAMBDA content, over :
                IF over # << >> THEN Fail(Lost)
                ELSE Then(Cut(PadSize(h[5]), t), LAMBDA pad, rest :
                         Done([left  |-> taken.left - 16 - h[5] - PadSize(h[5]),
                               parts |-> Append(taken.parts, [kind |-> h[1], is |-> content])],
                              rest)))))

TakeParts(columns, n, bytes, in) ==
    RdFold(LAMBDA i, taken, s : TakePart(columns, taken, s), [left |-> bytes, parts |-> << >>], n, in)

TakeRequest(columns, in) ==
    Then(Rd(<<8, 4, 4, 4, 2>> \o Ones(10) \o <<4, 4, 2, 2, 1, 1, 1, 1>> \o Ones(8), in), LAMBDA h, s :
        IF h[16] # h[3] THEN Fail(Lost)
        ELSE Then(Cut(h[3] - 24, s), LAMBDA message, rest :
            Then(TakeParts(columns, h[18], h[3] - 24, message), LAMBDA taken, over :
                IF over # << >> \/ taken.left # 0 THEN Fail(Lost)
                ELSE Done([seq |-> h[2], type |-> h[21], commit |-> h[22], parts |-> taken.parts],
                          rest))))

-----------------------------------------------------------------------------
(* Replies as the database composes them, of parts [kind, is, columns]: the *)
(* columns are those of a result set's rows, or the parameters.            *)
PutName(text) == Put(1, text[2]) \o Put(text[2], text[1])

\* Names are kept once, in the order in which they are mentioned first; the
\* offset of a name is the number of bytes before it.
Once(names) ==
    Kept(names, {i \in DOMAIN names : names[i] # << >> /\ \A j \in 1..(i - 1) : names[j] # names[i]})

OffsetIn(block, name) ==
    IF name = << >> THEN NoName
    ELSE LET at == CHOOSE i \in DOMAIN block : block[i] = name
         IN  Width(Flat([i \in 1..(at - 1) |-> PutName(block[i])]))

PutResultSetMetadata(columns) ==
    LET block == Once(Flat([i \in DOMAIN columns |->
                     <<columns[i].table, columns[i].schema, columns[i].column, columns[i].display>>]))
        field(c) == PutAll(<<1, 1, 2, 2, 2, 4, 4, 4, 4>>,
            << IF c.nullable THEN 2 ELSE 1, TypeCode[c.type], c.scale, 0, 0, OffsetIn(block, c.table),
               OffsetIn(block, c.schema), OffsetIn(block, c.column), OffsetIn(block, c.display) >>)
    IN  Flat([i \in DOMAIN columns |-> field(columns[i])])
        \o Flat([i \in DOMAIN block |-> PutName(block[i])])

\* Every parameter that has a name brings it.
PutParameterMetadata(ds) ==
    LET named == Kept(ds, {i \in DOMAIN ds : ds[i].name # << >>})
        field(i) == PutAll(<<1, 1, 1, 1, 4, 2, 2, 4>>,
            << IF ds[i].nullable THEN 2 ELSE 1, TypeCode[ds[i].type],
               CASE ds[i].dir = "IN" -> 1 [] ds[i].dir = "INOUT" -> 2 [] ds[i].dir = "OUT" -> 4, 0,
               IF ds[i].name = << >> THEN NoName ELSE i, 0, ds[i].scale, 0 >>)
    IN  Flat([i \in DOMAIN ds |-> field(i)])
        \o Flat([i \in DOMAIN named |-> PutName(named[i].name)])

PutRow(columns, row) == Flat([i \in DOMAIN columns |-> PutColumn(columns[i], row[i])])

\* Every error is filled up, with one byte at least.
PutError(e) ==
    PutAll(<<4, 4, 4, 1, 5>>, <<e.code, 0, e.text[2], e.severity, 0>>) \o Put(e.text[2], e.text[1])
    \o Padding(8 - ((18 + e.text[2]) % 8))

PutOption(id, val) ==
    LET w == CASE val.t = "INT" -> 4 [] val.t \in {"BIGINT", "DOUBLE"} -> 8 [] OTHER -> 1 IN
    Put(1, id)
    \o CASE val.t = "STRING" -> PutAll(<<1, 2>>, <<29, val.v[2]>>) \o Put(val.v[2], val.v[1])
         [] val.t = "BSTRING" -> PutAll(<<1, 2>>, <<33, val.v[2]>>) \o Put(val.v[2], val.v[1])
         [] OTHER -> Put(1, CASE val.t = "INT" -> 3 [] val.t = "BIGINT" -> 4
                              [] val.t = "DOUBLE" -> 7 [] val.t = "BOOLEAN" -> 28) \o Put(w, val.v[1])

PutOptions(options) ==
    LET ids == S!Reverse(InSomeOrder(DOMAIN options))
    IN  Flat([i \in DOMAIN ids |-> PutOption(ids[i], options[ids[i]])])

PutPartitions(p) ==
    PutAll(<<1, 7, 4, 4>>, <<p.method, 0, Len(p.parameters), Len(p.partitions)>>)
    \o Flat([i \in DOMAIN p.parameters |-> PutAll(<<4, 1, 1, 2>>, Append(p.parameters[i], 0))])
    \o Flat([i \in DOMAIN p.partitions |-> PutAll(<<4, 4>>, p.partitions[i])])

PutBody(kind, is, columns) ==
    CASE kind \in OptionKinds -> PutOptions(is)
      [] kind = "TopologyInformation" ->
            Flat([i \in DOMAIN is |-> Put(2, Cardinality(DOMAIN is[i])) \o PutOptions(is[i])])
      [] kind = "Authentication" ->
            Put(2, Len(is)) \o Flat([i \in DOMAIN is |->
                (IF is[i][2] <= 250 THEN Put(1, is[i][2]) ELSE PutAll(<<1, 2>>, <<255, is[i][2]>>))
                \o Put(is[i][2], is[i][1])])
      [] kind \in {"StatementId", "ResultSetId"} -> Put(8, is)
      [] kind \in {"ExecutionResult", "TableLocation"} -> PutAll([i \in DOMAIN is |-> 4], is)
      [] kind = "WriteLobReply" -> PutAll([i \in DOMAIN is |-> 8], is)
      [] kind = "ReadLobReply" ->
            PutAll(<<8, 1, 4, 3>>, <<is.locator, 2 + (IF is.last THEN 4 ELSE 0), is.data[2], 0>>)
            \o Put(is.data[2], is.data[1])
      [] kind = "Error" -> Flat([i \in DOMAIN is |-> PutError(is[i])])
      [] kind = "PartitionInformation" -> PutPartitions(is)
      [] kind = "ParameterMetadata" -> PutParameterMetadata(is)
      [] kind = "ResultSetMetadata" -> PutResultSetMetadata(is)
      [] kind = "ResultSet" -> Flat([i \in DOMAIN is |-> PutRow(columns, is[i])])
      [] kind = "OutputParameters" -> PutRow(IterOut(columns), is)

\* How many arguments a part has.
Arguments(kind, is, columns) ==
    CASE kind \in OptionKinds -> Cardinality(DOMAIN is)
      [] kind \in {"Authentication", "StatementId", "ResultSetId", "ReadLobReply",
                   "PartitionInformation"} -> 1
      [] kind = "OutputParameters" -> Len(IterOut(columns))
      [] OTHER -> Len(is)

\* The client takes a part that need not be padded as it comes.
PutPart(part, last) ==
    LET body == PutBody(part.kind, part.is, part.columns)
        n == Arguments(part.kind, part.is, part.columns)
        bare == part.kind = "Error" \/ (last /\ part.kind \in {"ResultSet", "ResultSetId", "ReadLobReply"})
    IN  PutAll(<<1, 1, 2, 4, 4, 4>>,
               << PartKind[part.kind], 0, IF n < MaxI16 THEN n ELSE -1, IF n < MaxI16 THEN 0 ELSE n,
                  Width(body), 0 >>)
        \o body \o IF bare THEN << >> ELSE Padding(PadSize(Width(body)))

PutReply(parts, seq) ==
    LET isError == \E i \in DOMAIN parts : parts[i].kind = "Error" IN
    PutAll(<<8, 4, 4, 4, 2, 10, 4, 4, 2, 2, 1, 1, 2, 8>>,
           << 7, seq, 0, 0, 1, 0, 0, 0, Len(parts), 1, IF isError THEN 5 ELSE 2, 0, 5, 0 >>)
    \o Flat([i \in DOMAIN parts |-> PutPart(parts[i], i = Len(parts))])
=============================================================================
