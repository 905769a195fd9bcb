------------------------------- MODULE MCWire -------------------------------
(* Instances of Wire for TLC. *)
EXTENDS Wire, TLC

LOCAL INSTANCE FiniteSetsExt

\* The ranges in place of 8, 16, 32 and 64 bits, and of i64, i96 and i128.
SmallBits  == 8 :> 3 @@ 16 :> 4 @@ 32 :> 5 @@ 64 :> 6
SmallFixed == 8 :> 6 @@ 12 :> 8 @@ 16 :> 10

P(t, n) == Value(t, <<n>>)
Txt(c, l) == Value("str", <<c, l>>)

Column(type, nullable, dir, scale) ==
  [type |-> type, nullable |-> nullable, scale |-> scale, dir |-> dir, name |-> <<51, 2>>]

\* The columns of echoes; a nullable one is returned in a row, another one as
\* an output parameter.
ScaleOf(type) == IF type \in FixedTypes THEN 1 ELSE 32767
EchoColumn(type, nullable) ==
  IF nullable THEN Column(type, TRUE, "IN", ScaleOf(type)) ELSE Column(type, FALSE, "INOUT", ScaleOf(type))
Echo(given, type, nullable) ==
  [column |-> EchoColumn(type, nullable), given |-> given, way |-> IF nullable THEN "row" ELSE "out"]

Stored == IntTypes \cup DecTypes \cup DOMAIN DateWidth
          \cup {"BOOLEAN", "REAL", "DOUBLE", "CHAR", "NVARCHAR", "SHORTTEXT", "ALPHANUM", "STRING",
                "BINARY", "VARBINARY", "GEOMETRY", "POINT"}

Edges(t) == LET b == SmallBits[IntBits[t]] IN
  IF t \in SignedInts THEN {-(2 ^ (b - 1)), -1, 0, 1, 2 ^ (b - 1) - 1} ELSE {0, 1, 2 ^ b - 1}

GivenNumbers == UNION {{P(t, n) : n \in Edges(t)} : t \in DOMAIN IntBits}
                \cup {P(t, n) : t \in {"f32", "f64"}, n \in {-2, 0, 3}}
GivenOthers  == {P("bool", 0), P("bool", 1), Value("none", << >>), Value("char", <<31, 1>>),
                 Value("NOTHING", << >>), Value("CLOB", <<3, 3>>),
                 Value("STR", <<37, 4>>), Value("LOBSTREAM", << >>),
                 Txt(0, 0), Txt(32, 245), Txt(33, 246), Txt(34, 32767), Txt(35, 32768),
                 Value("str", NumberText(7)), Value("str", NumberText(-20)), Value("str", TrueText)}
                \cup {Value("bytes", b) : b \in {<<0, 0>>, <<42, 5>>, <<43, 300>>}}
GivenDecimals == {Value("DECIMAL", <<m, e>>) : m \in {0, 1, -7, 40, -125, 511, 300}, e \in -2..1}

SomeEchoes ==
  {Echo(g, type, n) : g \in GivenNumbers \cup GivenOthers, type \in Stored, n \in BOOLEAN}
  \cup {Echo(g, type, n) : g \in GivenDecimals, type \in DecTypes \cup {"INT"}, n \in BOOLEAN}
  \cup {Echo(Value("DECIMAL", <<1, e>>), "DECIMAL", TRUE) : e \in {-6144, 6145}}
  \cup {Echo(Value(type, <<m>>), type, TRUE) : m \in {0, 1, 11}, type \in DOMAIN DateWidth}

-----------------------------------------------------------------------------
Talk(request, answer) ==
  [request |-> request, descriptors |-> << >>, known |-> Nothing, reply |-> answer]
Sent(kind, is) == Part(kind, is, << >>)

Named(type, nullable, scale, names) ==
  [type |-> type, nullable |-> nullable, scale |-> scale, table |-> names[1], schema |-> names[2],
   column |-> names[3], display |-> names[4]]
T1 == <<61, 3>>  T2 == <<62, 200>>  C1 == <<63, 1>>  C2 == <<64, 5>>
Plain(type) == Named(type, TRUE, ScaleOf(type), <<T1, T2, C1, C1>>)

RowsReply(columns, rows) ==
  << Sent("ResultSetMetadata", columns), Sent("ResultSetId", 8), Part("ResultSet", rows, columns) >>
Query(columns, rows) == Talk(ExecuteDirect(32, << >>, <<71, 25>>), RowsReply(columns, rows))

\* Days around the ends of months, years and calendars.
Years  == <<1, 2, 4, 100, 400, 1500, 1581, 1582, 1583, 1600, 1700, 1900, 2000, 2019, 2020, 9999>>
Months == << <<1, 1>>, <<1, 31>>, <<2, 28>>, <<3, 1>>, <<10, 4>>, <<10, 15>>, <<12, 1>>, <<12, 31>> >>
Leaps  == << <<4, 2, 29>>, <<100, 2, 29>>, <<1500, 2, 29>>, <<1600, 2, 29>>, <<2000, 2, 29>>, <<2020, 2, 29>> >>
Days   == [i \in 1..(16 * 8) |-> <<Years[1 + ((i - 1) \div 8)]>> \o Months[1 + ((i - 1) % 8)]] \o Leaps
Times  == << <<0, 0, 0>>, <<0, 0, 1>>, <<0, 1, 0>>, <<1, 1, 1>>, <<2, 1, 1>>, <<2, 0, 0>> >>
D(v) == Content("date", v)
DateColumns == <<Plain("DAYDATE"), Plain("SECONDDATE"), Plain("LONGDATE"), Plain("SECONDTIME")>>
DateRow(i) ==
   LET d == Days[i] t == Times[1 + (i % 6)] IN
   <<D(d), D(d \o t), D(d \o t \o <<i % 2>>), Content("time", t)>>
DateRows(from, to) == [i \in 1..(to - from + 1) |-> DateRow(from + i - 1)]
NullDates == << <<Null, Null, Null, Null>> >>

ReplyTypes == <<"TINYINT", "SMALLINT", "INT", "BIGINT", "BOOLEAN", "REAL", "DOUBLE", "DECIMAL",
   "FIXED8", "FIXED12", "FIXED16", "NCHAR", "BSTRING", "ALPHANUM", "BLOB", "BINTEXT", "CLOB", "NCLOB", "TEXT",
   "GEOMETRY", "POINT", "VARCHAR", "NSTRING">>
Lob(inline) == Content("lob", <<77, 12, 20, IF inline THEN 1 ELSE 0, IF inline THEN 15 ELSE 0,
                                IF inline THEN 20 ELSE 0>>)
SomeRow(k) == << Number(5, 0), Number(-8, 0), Number(-16, 0), Number(31, 0), Number(k % 2, 0),
   Content("float", <<3>>), Content("float", <<-2>>), Number(-511, -3), Number(-31, -1), Number(12, 0),
   Number(-5, -1), Content("text", <<14, 246>>), Content("bytes", <<15, 40000>>),
   IF k = 1 THEN Content("text", <<3016, 5>>) ELSE Content("text", <<16, 2>>),
   Lob(TRUE), Lob(FALSE), Lob(k = 1), Lob(k = 2), Lob(TRUE),
   Content("bytes", <<15, 4>>), Content("bytes", <<0, 0>>), Content("text", <<0, 0>>), Content("text", <<17, 32767>>) >>
NullRow == [i \in DOMAIN ReplyTypes |-> Null]
AllColumns == [i \in DOMAIN ReplyTypes |-> Plain(ReplyTypes[i])]
\* Six of the columns, or of a row's values.
Six(k, s) == SubSeq(s, 6 * k - 5, Min({6 * k, Len(s)}))
SomeColumns(k) == Six(k, AllColumns)

NameChoices == <<T1, T2, C1, C2, << >> >>
NamedColumns(k) == << Named("INT", TRUE, 0, <<NameChoices[1 + (k % 5)], T2, C1, C2>>),
   Named("NVARCHAR", FALSE, 0, <<NameChoices[1 + ((k + 1) % 5)], << >>, NameChoices[1 + ((k * 2) % 5)], C1>>),
   Named("BOOLEAN", TRUE, 0, << <<65, 3>>, NameChoices[1 + ((k * 3) % 5)], << >>, C2>>) >>
NamedRows == << <<Number(1, 0), Content("text", <<11, 3>>), Null>>, <<Null, Content("text", <<12, 4>>), Number(1, 0)>> >>

Context == 2 :> Value("BIGINT", <<19>>) @@ 1 :> Value("BIGINT", <<4>>)
Flags   == 1 :> Value("BOOLEAN", <<1>>) @@ 2 :> Value("INT", <<3>>) @@ 4 :> Value("BOOLEAN", <<0>>)
ServerOptions == 1 :> Value("INT", <<1000>>) @@ 11 :> Value("STRING", <<81, 3>>) @@ 37 :> Value("BOOLEAN", <<1>>)
                 @@ 53 :> Value("INT", <<3>>)
OwnOptions == 51 :> Value("INT", <<678>>) @@ 23 :> Value("INT", <<8>>) @@ 32 :> Value("STRING", <<82, 4>>)
ClientContext == 1 :> Value("STRING", <<83, 6>>) @@ 2 :> Value("STRING", <<84, 71>>) @@ 3 :> Value("STRING", <<85, 9>>)
Info == [APPLICATION |-> <<91, 3>>, APPLICATIONUSER |-> <<92, 245>>, DRIVER |-> <<93, 300>>]
Field(l) == <<IF l = 0 THEN 0 ELSE 100 + (l % 97), l>>
Error(code, severity, l) == [code |-> code, severity |-> severity, text |-> <<11, l>>]
Descriptors == << Column("INT", TRUE, "IN", 0), [Column("NCLOB", FALSE, "OUT", 0) EXCEPT !.name = << >>],
                  Column("FIXED8", TRUE, "INOUT", 2) >>
Out == <<Column("INT", TRUE, "OUT", 0), Column("NVARCHAR", FALSE, "OUT", 0), Column("INT", FALSE, "IN", 0)>>
WithParameters(id, ds, rows, answer) ==
  [Talk(Execute(id, rows, TRUE), answer) EXCEPT !.descriptors = ds, !.known.descriptors = ds]
Fetched(columns) == [metadata |-> columns, descriptors |-> << >>, fetching |-> TRUE]

NumberRow(n) == <<P("INT", n), NULL, Value("BLOB", <<3, 3>>)>>
RowOf(n) == <<P("INT", n), P("BOOLEAN", 1)>>

SomeTalks == <<
  Talk(FirstAuthRequest(ClientContext, <<Field(4), Field(11), Field(64), Field(17), Field(64)>>),
       <<Sent("Authentication", <<Field(17), Field(68)>>)>>),
  Talk(FirstAuthRequest(ClientContext, <<Field(250), Field(11)>>),
       <<Sent("Authentication", <<Field(251), Field(256), Field(250), Field(0)>>)>>),
  Talk(FirstAuthRequest(ClientContext, <<Field(251), Field(11)>>), <<Sent("Authentication", <<Field(17)>>)>>),
  Talk(SecondAuthRequest(<<Field(4), Field(70000), Field(3)>>, OwnOptions), <<Sent("ConnectOptions", ServerOptions)>>),
  Talk(SecondAuthRequest(<<Field(4), Field(17), Field(35)>>, OwnOptions),
       <<Sent("Authentication", <<Field(17), Field(0)>>), Sent("ConnectOptions", ServerOptions),
         Sent("TopologyInformation", <<1 :> Value("STRING", <<86, 9>>) @@ 2 :> Value("INT", <<30115>>)
                                    @@ 6 :> Value("BOOLEAN", <<1>>) @@ 4 :> Value("DOUBLE", <<5>>),
                                    3 :> Value("STRING", <<0, 0>>)>>)>>),
  Talk(Augmented(Prepare(<<72, 9>>), <<4>>, Info),
       <<Sent("ParameterMetadata", Descriptors), Sent("StatementId", 5), Sent("StatementContext", Context)>>),
  Talk(Prepare(<<73, 8>>),
       <<Sent("TableLocation", <<1, 3>>),
         Sent("PartitionInformation", [method |-> 1, parameters |-> << <<0, 1, 2>>, <<1, 2, 4>> >>,
                                    partitions |-> << <<0, 7>>, <<1, 8>>, <<2, 9>> >>])>>),
  Talk(ExecuteDirect(100, <<17, <<87, 6>> >>, <<0, 0>>),
       <<Sent("Error", <<Error(301, 1, 7), Error(1, 0, 6), Error(2, 2, 14)>>), Sent("ExecutionResult", <<-3, 1, -2>>),
         Sent("TransactionFlags", Flags)>>),
  Talk(Augmented(ExecuteDirect(1, << >>, <<74, 16>>), <<5>>, << >>),
       <<Sent("StatementContext", Context), Sent("Error", <<Error(7, 1, 5)>>)>>),
  WithParameters(5, Out, <<>>, <<Part("OutputParameters", <<Null, Content("text", <<12, 4>>)>>, Out),
                                 Sent("WriteLobReply", <<500, 501>>), Sent("TransactionFlags", Flags)>>),
  WithParameters(5, <<Column("INT", TRUE, "IN", 0), Column("TINYINT", FALSE, "IN", 0)>>,
                 <<RowOf(1), RowOf(2), RowOf(3), RowOf(4)>>, <<Sent("ExecutionResult", <<1, -3, 1, 1>>)>>),
  WithParameters(5, <<Column("INT", TRUE, "IN", 0), Column("TINYINT", FALSE, "IN", 0)>>,
                 <<RowOf(1), RowOf(2)>>, <<Sent("ExecutionResult", <<1, -2>>)>>),
  WithParameters(5, <<Column("INT", TRUE, "IN", 0), Column("CLOB", TRUE, "IN", 0), Column("BLOB", TRUE, "IN", 0)>>,
                 <<NumberRow(3)>>, <<Sent("ExecutionResult", <<1>>)>>),
  WithParameters(5, <<Column("INT", TRUE, "IN", 0), Column("CLOB", TRUE, "IN", 0), Column("BLOB", TRUE, "IN", 0)>>,
                 << <<P("INT", 3), Value("LOBSTREAM_NONE", << >>), NULL>> >>, <<Sent("WriteLobReply", <<500>>)>>),
  WithParameters(5, <<Column("FIXED8", TRUE, "IN", 1), Column("INT", TRUE, "IN", 0)>>,
                 << <<Value("DECIMAL", <<3, 0>>), P("INT", 1)>>, <<Value("DECIMAL", <<40, 0>>), P("INT", 1)>> >>,
                 <<Sent("ExecutionResult", <<1, 1>>)>>),
  Talk(DropStatement(5), <<>>),
  Talk(CloseResultSet(8), <<Sent("StatementContext", Context)>>),
  Talk(ReadLob(500, 0, 10), <<Sent("ReadLobReply", [locator |-> 500, last |-> FALSE, data |-> <<18, 10>>])>>),
  Talk(ReadLob(500, 10, 0), <<Sent("ReadLobReply", [locator |-> 500, last |-> TRUE, data |-> <<0, 0>>]),
                              Sent("StatementContext", Context)>>),
  Talk(WriteLob(500, <<18, 13>>, FALSE), <<Sent("WriteLobReply", <<500>>)>>),
  Talk(WriteLob(500, <<0, 0>>, TRUE), <<Sent("ExecutionResult", <<1>>)>>),
  Talk(XaRequest("XAStart", 0, <<95, 33>>), <<Sent("XatOptions", 2 :> Value("INT", <<0>>))>>),
  Talk(XaRequest("XACommit", 4, <<95, 33>>), <<Sent("TransactionFlags", Flags)>>),
  Talk(XaRequest("XARecover", 6, << >>),
       <<Sent("XatOptions", 4 :> Value("BIGINT", <<2>>) @@ 5 :> Value("BSTRING", <<96, 60>>))>>),
  [Talk(FetchNext(8, 32), <<Part("ResultSet", << Six(3, SomeRow(1)), Six(3, NullRow) >>, SomeColumns(3))>>)
     EXCEPT !.known = Fetched(SomeColumns(3))],
  [Talk(FetchNext(8, 32), <<Sent("StatementContext", Context), Part("ResultSet", << Six(1, NullRow) >>, SomeColumns(1))>>)
     EXCEPT !.known = Fetched(SomeColumns(1))],
  Query(SomeColumns(1), << Six(1, SomeRow(1)), Six(1, NullRow), Six(1, SomeRow(2)) >>),
  Query(SomeColumns(2), << Six(2, SomeRow(2)), Six(2, NullRow) >>),
  Query(DateColumns, DateRows(1, 1)),
  Query(DateColumns, NullDates),
  Query(<<Plain("INT")>>, << >>),
  Talk(ExecuteDirect(32, << >>, <<71, 25>>),
       << Sent("ResultSetMetadata", NamedColumns(1)), Sent("ResultSetId", 8), Sent("StatementContext", Context),
          Part("ResultSet", NamedRows, NamedColumns(1)), Sent("ExecutionResult", <<2>>) >>
       \o RowsReply(NamedColumns(2), NamedRows)),
  Query(NamedColumns(0), NamedRows), Query(NamedColumns(3), NamedRows), Query(NamedColumns(4), NamedRows),
  Query(NamedColumns(2), NamedRows)
  >> \o [k \in 1..4 |-> Query(SomeColumns(k), << Six(k, SomeRow(1 + (k % 2))), Six(k, NullRow) >>)]
     \o [k \in 1..27 |-> Query(DateColumns, DateRows(5 * k - 4, Min({5 * k, 134})))]

SomeProbes == {6, 11, 13, 15, 17, 33}

-----------------------------------------------------------------------------
\* Decimals in a DECIMAL column, with every mantissa.
AllMantissas == {Echo(Value("DECIMAL", <<m, e>>), "DECIMAL", TRUE) : m \in -40..40, e \in {0, 1}}
NoTalks == << >>

\* Requests that spoil the stream, and one that follows.  With eight rows of nine
\* bytes the rows end where the message ends, and the number that is missing has
\* as many bytes as the session's id at the beginning of the next request.
Rows(type, numbers) ==
  LET columns == <<Column(type, FALSE, "IN", 1)>> IN
  [Talk(Execute(5, [i \in DOMAIN numbers |-> <<Value("DECIMAL", <<numbers[i], -1>>)>>], FALSE),
        <<Sent("ExecutionResult", [i \in DOMAIN numbers |-> 1])>>)
     EXCEPT !.descriptors = columns, !.known.descriptors = columns]
TooBigHalfway  == <<Rows("FIXED8", <<1, 2, 3, 4, 5, 6, 7, 40>>), Rows("FIXED8", <<8>>)>>
TooBigAtTheEnd == <<Rows("FIXED12", <<300>>), Rows("FIXED12", <<8>>)>>
LongFields     == <<Talk(FirstAuthRequest(ClientContext, <<Field(250), Field(251)>>), << >>),
                    Talk(DropStatement(5), << >>)>>
Spoilers       == TooBigHalfway \o TooBigAtTheEnd \o LongFields
=============================================================================
