-------------------------------- MODULE Wire --------------------------------
(***************************************************************************)
(* A connection as a sequence of bytes: the client writes a request, the   *)
(* database takes it by the sizes in its headers, answers, and the client  *)
(* reads the answer by what it knows about it.  Nothing on the way says    *)
(* where one message ends but the sizes, so whoever writes more or less    *)
(* than announced, reads more or less than was written, or stops in the    *)
(* middle, spoils what comes after.                                        *)
(*                                                                         *)
(* An exchange is a request, what it needs and what the database answers:  *)
(*   [request, descriptors, known, reply]                                  *)
(* Echoes are statements that return their only parameter, in a row or as  *)
(* an output parameter: [column, given, way], given by the program.        *)
(***************************************************************************)
EXTENDS Requests, Hana

CONSTANTS Talks,         \* a sequence of exchanges whose answer is fixed
          Echoes,        \* statements that return their parameter
          Probes,        \* the numbers of the talks that may come second
          MaxExchanges   \* how many exchanges there are

-----------------------------------------------------------------------------
(* What a program can ask for.                                             *)
Elements(s) == {s[i] : i \in DOMAIN s}
IsSeq(s) == s \in Seq(Elements(s))

\* A text or bytes: no content without a length.
IsBytes(b) == b = <<b[1], b[2]>> /\ b[2] \in Nat /\ (b[2] = 0 => b[1] = Garbage)

Numbered == IntTypes \cup {"BOOLEAN", "REAL", "DOUBLE"} \cup DOMAIN DateWidth
Binaries == {"STR", "STRING", "BINARY", "GEOMETRY", "POINT"}
LobColumns == {"CLOB", "NCLOB", "BLOB", "TEXT", "BINTEXT"}
OptionTypes == {"INT", "BIGINT", "DOUBLE", "BOOLEAN", "STRING", "BSTRING"}
OtherKinds == {"Command", "StatementId", "ResultSetId", "FetchSize", "ReadLobRequest", "WriteLobRequest",
               "Parameters", "Authentication", "ClientInfo"}

IsValue(val) ==
    /\ val.t \in Numbered \cup Binaries \cup LobVariants
                 \cup {"NULL", "NOTHING", "DECIMAL", "LOBSTREAM_NONE"}
    /\ val.t \in Numbered => val.v = <<val.v[1]>> /\ val.v[1] \in Int
    /\ val.t = "BOOLEAN" => val.v[1] \in {0, 1}
    /\ val.t = "DECIMAL" => val.v[1] \in Int /\ val.v[2] \in Int
    /\ val.t \in Binaries => IsBytes(val.v)

IsColumn(d) == d.type \in TypeIds /\ d.scale \in Int

IsOption(val) ==
    /\ val.t \in OptionTypes
    /\ IF val.t \in {"STRING", "BSTRING"} THEN IsBytes(val.v) ELSE val.v = <<val.v[1]>>

IsOptions(options) == IsFiniteSet(DOMAIN options) /\ \A id \in DOMAIN options : IsOption(options[id])

IsInfo(info) ==
    /\ IsFiniteSet(DOMAIN info) /\ DOMAIN info \subseteq DOMAIN ClientInfoKey
    /\ \A key \in DOMAIN info : IsBytes(info[key])

\* A row that was converted for its parameters, or could not be.
IsProgramRow(row, ins) ==
    /\ IsSeq(row) /\ IsSeq(ins) /\ Len(row) = Len(ins)
    /\ \A j \in 1..Len(row) :
          /\ IsColumn(ins[j])
          /\ \/ row[j] = Err
             \/ IsValue(row[j]) /\ (row[j].t = "LOBSTREAM_NONE" => ins[j].type \in LobColumns)

IsProgramPart(part, ds) ==
    /\ part.kind \in OptionKinds \cup OtherKinds
    /\ part.kind \in OptionKinds => IsOptions(part.options)
    /\ part.kind = "Command" => IsBytes(part.text)
    /\ part.kind = "WriteLobRequest" => IsBytes(part.data)
    /\ part.kind = "ClientInfo" => IsInfo(part.info)
    /\ part.kind = "Authentication" =>
          IsSeq(part.fields) /\ \A i \in 1..Len(part.fields) : IsBytes(part.fields[i])
    /\ part.kind = "Parameters" =>
          IsSeq(part.rows) /\ \A i \in 1..Len(part.rows) : IsProgramRow(part.rows[i], IterIn(ds))

IsProgramRequest(r, ds) ==
    /\ r.type \in DOMAIN RequestType
    /\ IsSeq(r.parts) /\ \A i \in 1..Len(r.parts) : IsProgramPart(r.parts[i], ds)

\* A program's value, or an HdbValue it makes itself.
IsGiven(p) ==
    \/ p.t \in DOMAIN IntBits \cup {"f32", "f64"} /\ p.v[1] \in Int
    \/ p.t = "bool" /\ p.v = <<p.v[1]>> /\ p.v[1] \in {0, 1}
    \/ p.t \in {"char", "str", "bytes"} /\ IsBytes(p.v)
    \/ p.t = "none"
    \/ IsValue(p) /\ p.t # "LOBSTREAM_NONE"

IsEcho(e) == IsColumn(e.column) /\ e.column.dir \in {"IN", "INOUT"} /\ IsGiven(e.given)

ASSUME TalksAssumption ==
    \A i \in DOMAIN Talks \cup Probes : IsProgramRequest(Talks[i].request, Talks[i].descriptors)
ASSUME EchoesAssumption == \A e \in Echoes : IsEcho(e)

-----------------------------------------------------------------------------
VARIABLES exchange,      \* the current one
          count,         \* how many there were
          phase,         \* "idle", "sent", "served", or "broken" (closed by the database)
          outcome,       \* "none", "refused", "unsent", "read", "unread"
          toServer,      \* written and not taken
          taken,         \* what the database took last
          reply,         \* the parts it answered with
          toClient,      \* answered and not read
          got,           \* the parts the client has read
          clean          \* history: nothing was left half written or with a wrong size

vars == <<exchange, count, phase, outcome, toServer, taken, reply, toClient, got, clean>>

NoReply == << >>
Nothing == [metadata |-> [fields |-> << >>, names |-> << >>], descriptors |-> << >>,
            fetching |-> FALSE]

\* The value of a parameter: converted, or given as it is.
ValueOf(given, column) == IF given.t \in ProgramTypes \cup {"char", "none"}
                          THEN Ser(given, column) ELSE given

EchoExchange(e) ==
    [request |-> Execute(5, << <<ValueOf(e.given, e.column)>> >>, FALSE),
     descriptors |-> <<e.column>>,
     known |-> [Nothing EXCEPT !.descriptors = <<e.column>>],
     reply |-> NoReply, echo |-> e]

NoEcho == [column |-> Nothing, given |-> NULL, way |-> "none"]
\* Rows are fetched for metadata that were read with the first of them.
KnownTo(t) ==
    IF ~t.known.fetching THEN t.known
    ELSE LET columns == t.known.metadata IN
         [t.known EXCEPT !.metadata =
             ParseResultSetMetadata(Len(columns), PutResultSetMetadata(columns)).v]

TalkExchange(t) == [request |-> t.request, descriptors |-> t.descriptors, known |-> KnownTo(t),
                    reply |-> t.reply, echo |-> NoEcho]

Init ==
    /\ exchange = [request |-> Disconnect, descriptors |-> << >>, known |-> Nothing,
                   reply |-> NoReply, echo |-> NoEcho]
    /\ count = 0
    /\ phase = "idle"
    /\ outcome = "none"
    /\ toServer = << >>
    /\ taken = << >>
    /\ reply = NoReply
    /\ toClient = << >>
    /\ got = << >>
    /\ clean = TRUE

-----------------------------------------------------------------------------
RowsOf(request) ==
    Flat([i \in DOMAIN request.parts |->
              IF request.parts[i].kind = "Parameters" THEN request.parts[i].rows ELSE << >>])

\* The conversion fails, or the row does not suit the parameters.
IsRefused(x) ==
    \E i \in DOMAIN RowsOf(x.request) :
        LET row == RowsOf(x.request)[i] IN
        (\E j \in DOMAIN row : row[j] = Err) \/ ~RowIsAccepted(row, x.descriptors)

\* A number that a FIXED column of n bytes cannot hold.
Overflows(val, d, types) ==
    /\ val.t = "DECIMAL" /\ d.type \in types
    /\ ~Signed(FixedBits[FixedWidth[d.type]], WithScale(val.v[1], val.v[2], d.scale))

TooBig(x, types) ==
    \E i \in DOMAIN RowsOf(x.request) : \E j \in DOMAIN RowsOf(x.request)[i] :
        Overflows(RowsOf(x.request)[i][j], IterIn(x.descriptors)[j], types)

\* A decimal whose exponent the format has no room for.
OutOfRange(x) ==
    \E i \in DOMAIN RowsOf(x.request) : \E j \in DOMAIN RowsOf(x.request)[i] :
        LET val == RowsOf(x.request)[i][j] IN
        /\ val.t = "DECIMAL" /\ IterIn(x.descriptors)[j].type = "DECIMAL"
        /\ ~FromBigdecimal(val.v).ok

AuthFieldsOf(x) ==
    Flat([i \in DOMAIN x.request.parts |->
              IF x.request.parts[i].kind = "Authentication" THEN x.request.parts[i].fields
              ELSE << >>])

TooLong(x, n) == \E i \in DOMAIN AuthFieldsOf(x) : AuthFieldsOf(x)[i][2] > n

\* The two things whose size is computed otherwise than it is written.
SizeIsWrong(x) == TooBig(x, {"FIXED12"}) \/ TooLong(x, 250)

\* The three things that cannot be written and whose size can be computed.
FailsHalfway(x) == TooBig(x, {"FIXED8", "FIXED16"}) \/ OutOfRange(x) \/ TooLong(x, 65535)

Written(x, n) == Emit(x.request, 7, n, TRUE, x.descriptors)

Begin(x) ==
    /\ phase = "idle" /\ count < MaxExchanges
    /\ exchange' = x /\ count' = count + 1
    /\ taken' = << >> /\ reply' = NoReply /\ got' = << >>

\* Nothing is written.
Refuse(x) ==
    /\ Begin(x)
    /\ IsRefused(x)
    /\ outcome' = "refused"
    /\ UNCHANGED <<phase, toServer, toClient, clean>>

\* What was written when the error came stays in the buffered writer.
FailToSend(x) ==
    /\ Begin(x) /\ ~IsRefused(x)
    /\ \E w \in {Written(x, count + 1)} : ~w.ok /\ toServer' = toServer \o w.in
    /\ outcome' = "unsent"
    /\ clean' = (clean /\ ~FailsHalfway(x))
    /\ UNCHANGED <<phase, toClient>>

Send(x) ==
    /\ Begin(x) /\ ~IsRefused(x)
    /\ \E w \in {Written(x, count + 1)} : w.ok /\ toServer' = toServer \o w.in
    /\ phase' = "sent" /\ outcome' = "none"
    /\ clean' = (clean /\ ~SizeIsWrong(x))
    /\ UNCHANGED toClient

-----------------------------------------------------------------------------
\* The parameter of an echo as the database took it, last but for what comes
\* with every statement.
Parameter(request) ==
    LET i == CHOOSE k \in DOMAIN request.parts : request.parts[k].kind = 32
    IN  request.parts[i].is[1][1]

Part(kind, is, columns) == [kind |-> kind, is |-> is, columns |-> columns]

\* What an echo answers: the value it stored, or an error.
EchoReply(e, c) ==
    LET column == [type |-> e.column.type, nullable |-> e.column.nullable,
                   scale |-> e.column.scale, table |-> << >>, schema |-> << >>,
                   column |-> <<9, 3>>, display |-> <<9, 3>>]
    IN
    CASE c = Rejected -> << Part("Error", <<[code |-> 339, severity |-> 1, text |-> <<3, 5>>]>>, << >>) >>
      [] e.way = "out" -> << Part("OutputParameters", <<c>>, <<e.column>>) >>
      [] OTHER -> << Part("ResultSetMetadata", <<column>>, << >>), Part("ResultSetId", 8, << >>),
                     Part("ResultSet", << <<c>> >>, <<column>>) >>

AnswerTo(x, request) ==
    IF x.echo.way = "none" THEN x.reply
    ELSE EchoReply(x.echo, Store(x.echo.column, Parameter(request)))

\* The database takes the request and answers, or closes the connection.
Serve ==
    /\ phase = "sent"
    /\ \E r \in {TakeRequest(IterIn(exchange.descriptors), toServer)} :
         /\ toServer' = r.in
         /\ IF r.ok
            THEN /\ phase' = "served" /\ taken' = <<r.v>>
                 /\ reply' = AnswerTo(exchange, r.v)
                 /\ toClient' = toClient \o PutReply(reply', r.v.seq)
            ELSE /\ phase' = "broken" /\ taken' = << >> /\ reply' = NoReply
                 /\ UNCHANGED toClient
    /\ UNCHANGED <<exchange, count, outcome, got, clean>>

\* The client reads the reply, with what it knows about it.
Receive ==
    /\ phase = "served"
    /\ \E r \in {ParseReply(exchange.known, toClient)} :
         /\ toClient' = r.in
         /\ got' = IF r.ok THEN r.v ELSE << >>
         /\ outcome' = IF r.ok THEN "read" ELSE "unread"
    /\ phase' = "idle"
    /\ UNCHANGED <<exchange, count, toServer, taken, reply, clean>>

Next ==
    \/ /\ count = 0
       /\ \E e \in Echoes : \E x \in {EchoExchange(e)} : Refuse(x) \/ FailToSend(x) \/ Send(x)
    \/ \E i \in IF count = 0 THEN DOMAIN Talks ELSE Probes :
           LET x == TalkExchange(Talks[i]) IN Refuse(x) \/ FailToSend(x) \/ Send(x)
    \/ Serve
    \/ Receive

Spec == Init /\ [][Next]_vars

-----------------------------------------------------------------------------
(* What the database should understand.                                    *)
Told(val, d) ==
    CASE val.t = "NULL" -> Null
      [] val.t \in IntTypes \cup {"BOOLEAN"} -> Number(val.v[1], 0)
      [] val.t = "DECIMAL" -> IF d.type \in FixedTypes
                              THEN Number(WithScale(val.v[1], val.v[2], d.scale), -d.scale)
                              ELSE Number(val.v[1], val.v[2])
      [] val.t \in {"REAL", "DOUBLE"} -> Content("float", val.v)
      [] val.t \in {"STR", "STRING"} -> Content("text", val.v)
      [] val.t \in {"BINARY", "GEOMETRY", "POINT"} -> Content("bytes", val.v)
      [] val.t \in DOMAIN DateWidth -> Content("raw", val.v)
      [] OTHER -> Content("lob header", <<0, 0, 0>>)

SameOptions(options, is) ==
    /\ Len(is) = Cardinality(DOMAIN options)
    /\ \A i \in DOMAIN is : /\ is[i][1] \in DOMAIN options
                            /\ LET val == options[is[i][1]] IN
                               is[i] = <<is[i][1], OptionType[val.t]>> \o val.v

Understood(part, is, ds) ==
    CASE part.kind \in OptionKinds -> SameOptions(part.options, is)
      [] part.kind = "Command" -> is = part.text
      [] part.kind \in {"FetchSize", "StatementId", "ResultSetId"} -> is = <<part.n>>
      [] part.kind = "ReadLobRequest" -> is = <<part.locator, part.offset, part.length, 0>>
      [] part.kind = "WriteLobRequest" ->
            is = <<part.locator, IF part.last THEN 6 ELSE 2, part.offset, part.data[2], part.data[1]>>
      [] part.kind = "Authentication" -> is = part.fields
      [] part.kind = "ClientInfo" ->
            /\ Len(is) = 2 * Cardinality(DOMAIN part.info)
            /\ \A key \in DOMAIN part.info : \E i \in 1..(Len(is) \div 2) :
                   is[2 * i - 1] = ClientInfoKey[key] /\ is[2 * i] = part.info[key]
      [] part.kind = "Parameters" ->
            is = [i \in DOMAIN part.rows |->
                     [j \in DOMAIN part.rows[i] |-> Told(part.rows[i][j], IterIn(ds)[j])]]

\* SAFETY (Request::emit, Part::size and emit, HdbValue::size and emit): the
\* database does not close the connection, and what it takes by the sizes in the
\* headers is what the client meant, part by part and value by value, in the
\* right request, with nothing left.
RequestsArrive ==
    clean /\ phase \in {"served", "broken"} =>
        LET r == exchange.request IN
        /\ phase = "served" /\ toServer = << >>
        /\ taken[1].type = RequestType[r.type] /\ taken[1].seq = count /\ taken[1].commit = 1
        /\ Len(taken[1].parts) = Len(r.parts)
        /\ \A i \in DOMAIN r.parts :
               /\ taken[1].parts[i].kind = PartKind[r.parts[i].kind]
               /\ Understood(r.parts[i], taken[1].parts[i].is, exchange.descriptors)

\* What the code says of the sequence number of a packet (MESSAGE_HEADER): those
\* that have the same one are one request and its reply, so the database takes
\* each request under its own number.  Violated: a number too big for a FIXED12
\* column and a long field of an authentication have more bytes than their sizes
\* say, and the database, which goes by the sizes, refuses them; what was written of a
\* request that failed stays in the BufWriter, the next request completes it, and
\* the database answers the failed one instead.
PacketsBelongTogether ==
    phase \in {"served", "broken"} => phase = "served" /\ taken[1].seq = count

-----------------------------------------------------------------------------
(* What the client should read.                                            *)
\* The value of a column is the database's; dates are looked at apart.
Means(val, c) ==
    CASE c.k = "null" -> val = NULL
      [] c.k = "num" -> \/ val.t \in IntTypes \cup {"BOOLEAN"} /\ Number(val.v[1], 0) = c
                        \/ val.t = "DECIMAL" /\ Number(val.v[1], val.v[2]) = c
      [] c.k = "float" -> val.t \in {"REAL", "DOUBLE"} /\ val.v = c.v
      [] c.k = "text" -> val = Value("STRING", c.v)
      [] c.k = "bytes" -> val.t \in {"BINARY", "GEOMETRY", "POINT"} /\ val.v = c.v
      [] c.k = "raw" -> val.t \in DOMAIN DateWidth /\ val.v = c.v
      [] c.k = "lob" -> val.t \in LobVariants /\ val.v = c.v
      [] c.k \in {"date", "time"} -> val.t \in DOMAIN DateWidth

RowMeans(row, is) == Len(row) = Len(is) /\ \A i \in DOMAIN is : Means(row[i], is[i])

Result(n) == CASE n = -2 -> <<"SuccessNoInfo", 0>> [] n = -3 -> <<"Failure", 0>>
               [] OTHER -> <<"RowsAffected", n>>

\* A result set takes in its metadata and its id, and a context before it.
IsTakenIn(parts, i) ==
    \/ parts[i].kind \in {"ResultSetMetadata", "ResultSetId"}
    \/ parts[i].kind = "StatementContext" /\ i < Len(parts) /\ parts[i + 1].kind = "ResultSet"
Visible(parts) ==
    Kept(parts, {i \in DOMAIN parts : ~IsTakenIn(parts, i)})

ReadAs(p, s) ==
    CASE s.kind = "ResultSet" ->
            /\ Len(p.is.rows) = Len(s.is)
            /\ \A i \in DOMAIN s.is : RowMeans(p.is.rows[i], s.is[i])
      [] s.kind = "OutputParameters" -> RowMeans(p.is, s.is)
      [] s.kind = "ExecutionResult" -> p.is = [i \in DOMAIN s.is |-> Result(s.is[i])]
      [] OTHER -> p.is = s.is

WasRead == count > 0 /\ phase = "idle" /\ outcome \in {"read", "unread"} /\ reply # NoReply

\* SAFETY (Reply::parse, Part::parse, HdbValue::parse_from_reply): a reply is
\* read to its last byte, and the client has what the database answered: every
\* part, every row, every value, NULL where there was NULL.
RepliesAreRead ==
    clean /\ WasRead =>
        /\ outcome = "read" /\ toClient = << >>
        /\ Len(got) = Len(Visible(reply))
        /\ \A i \in DOMAIN got : /\ got[i].kind = Visible(reply)[i].kind
                                 /\ ReadAs(got[i], Visible(reply)[i])

\* The result sets of a reply, and the columns the database gave them.
ResultSets(parts) == Kept(parts, {i \in DOMAIN parts : parts[i].kind = "ResultSet"})

\* SAFETY (ResultSetMetadata::parse): names that columns share are sent once
\* and referred to by offset; every column gets its own, and none gets none.
NamesAreAttributed ==
    clean /\ WasRead /\ outcome = "read" =>
        \A k \in DOMAIN ResultSets(got) :
            LET md == ResultSets(got)[k].is.metadata
                columns == ResultSets(reply)[k].columns
            IN  /\ Len(md.fields) = Len(columns)
                /\ \A i \in DOMAIN columns :
                      /\ md.fields[i].type = columns[i].type
                      /\ md.fields[i].nullable = columns[i].nullable
                      /\ \A which \in {"table", "schema", "column", "display"} :
                            NameOf(md, i, which) = columns[i][which]

\* SAFETY (LongDate, SecondDate, DayDate, SecondTime): the day and the time
\* that are shown are those the database stored, in both calendars.
DatesAreShown ==
    clean /\ WasRead /\ outcome = "read" =>
        \A k \in DOMAIN ResultSets(got) : \A i \in DOMAIN ResultSets(reply)[k].is :
            LET row == ResultSets(got)[k].is.rows[i]
                is == ResultSets(reply)[k].is[i]
            IN  \A j \in DOMAIN is : is[j].k \in {"date", "time"} =>
                    De("str", row[j]) = Value("date text", is[j].v)

\* The values an echo brought back.
Returned == CASE got[1].kind = "ResultSet" -> got[1].is.rows[1]
              [] got[1].kind = "OutputParameters" -> got[1].is
              [] OTHER -> << >>

NumberTypes == DOMAIN IntBits \cup {"f32", "f64"}

\* A program's value stands for the number n, or is the moment with it.
StandsFor(p, n) ==
    CASE p.t \in NumberTypes \cup {"bool"} -> p.v = <<n>>
      [] p.t \in {"str", "bytes"} -> p.v = NumberText(n)
      [] p.t = "decimal text" -> Number(p.v[1], p.v[2]) = Number(n, 0)
      [] p.t \in {"date text", "datetime"} -> Returned[1].v = <<n>>
      [] OTHER -> FALSE

\* SAFETY (ser.rs, de.rs): a number that a program gives for a parameter of any
\* type comes back as the same number, for every type the program asks for, or
\* it is refused on one of the ways: it is never another one.
NumbersSurvive ==
    clean /\ WasRead /\ outcome = "read" /\ exchange.echo.given.t \in NumberTypes /\ Returned # << >> =>
        \A type \in ProgramTypes :
            LET p == De(type, Returned[1]) IN
            p = Err \/ StandsFor(p, exchange.echo.given.v[1])

\* SAFETY (HdbDecimal): a decimal whose mantissa has no more than 113 bits comes
\* back as the number it was.
DecimalsSurvive ==
    clean /\ WasRead /\ outcome = "read" /\ exchange.echo.given.t = "DECIMAL"
    /\ exchange.echo.column.type = "DECIMAL" /\ Returned # << >>
    /\ Abs(exchange.echo.given.v[1]) < 2 ^ MantissaBits =>
        /\ Returned[1].t = "DECIMAL"
        /\ Number(Returned[1].v[1], Returned[1].v[2])
             = Number(exchange.echo.given.v[1], exchange.echo.given.v[2])
=============================================================================
