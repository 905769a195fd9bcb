------------------------------- MODULE Parts -------------------------------
(***************************************************************************)
(* The parts of requests and replies: how many bytes one says it has, what *)
(* it writes, and how it is read.  A part is a record with its kind and    *)
(* what it carries: n (a number), text or fields (<<content, bytes>>, or a *)
(* sequence of these), options (a function from option ids to values),     *)
(* rows, locator, ...                                                      *)
(***************************************************************************)
EXTENDS Convert

CONSTANT MaxI16      \* i16::max_value(), where an argument count stops

ASSUME CountAssumption == MaxI16 \in Nat \ {0}

PartKind ==
    [Command |-> 3, ResultSet |-> 5, Error |-> 6, StatementId |-> 10, ExecutionResult |-> 12,
     ResultSetId |-> 13, TopologyInformation |-> 15, TableLocation |-> 16,
     ReadLobRequest |-> 17, ReadLobReply |-> 18, CommandInfo |-> 27, WriteLobRequest |-> 28,
     ClientContext |-> 29, WriteLobReply |-> 30, Parameters |-> 32, Authentication |-> 33,
     SessionContext |-> 34, StatementContext |-> 39, PartitionInformation |-> 40,
     OutputParameters |-> 41, ConnectOptions |-> 42, FetchSize |-> 45,
     ParameterMetadata |-> 47, ResultSetMetadata |-> 48, ClientInfo |-> 57,
     TransactionFlags |-> 64, LobFlags |-> 68, XatOptions |-> 70]

KindOf(code) ==
    IF \E k \in DOMAIN PartKind : PartKind[k] = code
    THEN CHOOSE k \in DOMAIN PartKind : PartKind[k] = code ELSE "Err"

OptionKinds == {"ClientContext", "CommandInfo", "ConnectOptions", "LobFlags", "SessionContext",
                "StatementContext", "TransactionFlags", "XatOptions"}

-----------------------------------------------------------------------------
(* Options.                                                                *)
OptionType == [INT |-> 3, BIGINT |-> 4, DOUBLE |-> 7, BOOLEAN |-> 28, STRING |-> 29, BSTRING |-> 33]
OptionWidth == [INT |-> 4, BIGINT |-> 8, DOUBLE |-> 8, BOOLEAN |-> 1]

OptionSize(val) ==
    1 + IF val.t \in DOMAIN OptionWidth THEN OptionWidth[val.t] ELSE val.v[2] + 2

EmitOption(id, val) ==
    Put(1, id) \o Put(1, OptionType[val.t])
    \o IF val.t \in DOMAIN OptionWidth THEN Put(OptionWidth[val.t], val.v[1])
       ELSE Put(2, val.v[2]) \o Put(val.v[2], val.v[1])

IdsInOrder(options) == InSomeOrder(DOMAIN options)

SizeOfOptions(options) ==
    LET ids == IdsInOrder(options) IN
    Total([i \in DOMAIN ids |-> 1 + OptionSize(options[ids[i]])])

EmitOptions(options) ==
    LET ids == IdsInOrder(options) IN
    Flat([i \in DOMAIN ids |-> EmitOption(ids[i], options[ids[i]])])

\* An option: its id, and a value with its type.
ParseOptionValue(type, in) ==
    IF type \in DOMAIN OptionWidth
    THEN Then(Rd1(OptionWidth[type], in), LAMBDA n, s :
             Done(Value(type, <<IF type = "BOOLEAN" /\ n > 0 THEN 1 ELSE n>>), s))
    ELSE Then(Rd1(2, in), LAMBDA l, body :
         Then(RdBytes(l, body), LAMBDA b, s : Done(Value(type, b), s)))

ParseOption(i, in) ==
    Then(Rd(<<1, 1>>, in), LAMBDA h, body :
        IF \A t \in DOMAIN OptionType : OptionType[t] # h[2] THEN Fail(body)
        ELSE Then(ParseOptionValue(CHOOSE t \in DOMAIN OptionType : OptionType[t] = h[2], body),
                  LAMBDA val, s : Done(<<h[1], val>>, s)))

\* Of two options with one id the later one stays.
AsMap(pairs) ==
    LET last(id) == CHOOSE i \in DOMAIN pairs :
                        pairs[i][1] = id /\ \A j \in DOMAIN pairs : pairs[j][1] = id => j <= i
    IN  [id \in {pairs[i][1] : i \in DOMAIN pairs} |-> pairs[last(id)][2]]

ParseOptions(n, in) == Then(RdEach(ParseOption, n, in), LAMBDA pairs, s : Done(AsMap(pairs), s))

\* A line of the topology has its own number of options.
ParseLine(i, in) == Then(Rd1(2, in), LAMBDA n, s : ParseOptions(n, s))

-----------------------------------------------------------------------------
(* What requests carry.                                                    *)
\* ClientInfo has keys of these lengths.
ClientInfoKey == [APPLICATION |-> <<41, 11>>, APPLICATIONVERSION |-> <<42, 18>>,
                  APPLICATIONSOURCE |-> <<43, 17>>, APPLICATIONUSER |-> <<44, 15>>,
                  DRIVER |-> <<45, 6>>, DRIVERINFO |-> <<46, 10>>, DRIVERVERSION |-> <<47, 13>>]

ClientInfoTexts(info) ==
    LET keys == InSomeOrder(DOMAIN info) IN
    Flat([i \in DOMAIN keys |-> <<ClientInfoKey[keys[i]], info[keys[i]]>>])

EmitText(text) == EmitLengthAndBytes(text[2], text[1])

\* A field of more than 250 bytes has a longer length, which size() ignores;
\* one of more than 65535 bytes is an error.
AuthFieldSize(field) == 1 + field[2]
EmitAuthField(field) ==
    IF field[2] > 65535 THEN Fail(<< >>)
    ELSE Done(<< >>, (IF field[2] <= 250 THEN Put(1, field[2])
                                         ELSE PutAll(<<1, 2>>, <<255, field[2]>>))
                     \o Put(field[2], field[1]))

Sum(f(_), s) == Total([i \in DOMAIN s |-> f(s[i])])

OfDirection(ds, dirs) == Kept(ds, {i \in DOMAIN ds : ds[i].dir \in dirs})
IterIn(descriptors)  == OfDirection(descriptors, {"IN", "INOUT"})
IterOut(descriptors) == OfDirection(descriptors, {"OUT", "INOUT"})

\* ParameterRow::new: values that are not NULL must suit their column.
RowIsAccepted(row, descriptors) ==
    LET ins == IterIn(descriptors) IN
    /\ Len(row) <= Len(ins)
    /\ \A i \in DOMAIN row : row[i].t # "NULL" =>
           LET announced == TypeIdForEmit(row[i], ins[i].type) IN
           announced # "Err" /\ MatchesValueType(ins[i].type, announced)

RowSize(row, descriptors) ==
    LET ins == IterIn(descriptors) IN
    Total([i \in DOMAIN row |-> ValueSize(row[i], ins[i].type)])

RowSizeIsOk(row, descriptors) ==
    \A i \in DOMAIN row : SizeIsOk(row[i], IterIn(descriptors)[i].type)

\* A row writes its values one by one, up to the first error.
EmitRow(row, descriptors) ==
    LET ins == IterIn(descriptors) IN WriteEach([i \in DOMAIN row |-> EmitValue(row[i], ins[i])])

\* Part::count.
Count(part) ==
    CASE part.kind \in OptionKinds -> Cardinality(DOMAIN part.options)
      [] part.kind = "ClientInfo" -> 2 * Cardinality(DOMAIN part.info)
      [] part.kind = "Parameters" -> Len(part.rows)
      [] OTHER -> 1

\* Part::body_size without the padding, for parts it succeeds for.
BodySize(part, descriptors) ==
    CASE part.kind \in OptionKinds -> SizeOfOptions(part.options)
      [] part.kind = "Authentication" -> 2 + Sum(AuthFieldSize, part.fields)
      [] part.kind = "ClientInfo" ->
            Sum(LAMBDA t : BinaryLength(t[2]), ClientInfoTexts(part.info))
      [] part.kind = "Command" -> part.text[2]
      [] part.kind = "FetchSize" -> 4
      [] part.kind = "Parameters" -> Sum(LAMBDA row : RowSize(row, descriptors), part.rows)
      [] part.kind = "ReadLobRequest" -> 24
      [] part.kind = "WriteLobRequest" -> 21 + part.data[2]
      [] part.kind \in {"ResultSetId", "StatementId"} -> 8

BodySizeIsOk(part, descriptors) ==
    part.kind = "Parameters" => \A i \in DOMAIN part.rows : RowSizeIsOk(part.rows[i], descriptors)

\* Part::emit_body without the padding: whether it succeeds, and what it wrote.
EmitBody(part, descriptors) ==
    CASE part.kind \in OptionKinds -> Done(<< >>, EmitOptions(part.options))
      [] part.kind = "Authentication" ->
            [WriteEach([i \in DOMAIN part.fields |-> EmitAuthField(part.fields[i])])
                EXCEPT !.in = Put(2, Len(part.fields)) \o @]
      [] part.kind = "ClientInfo" ->
            LET texts == ClientInfoTexts(part.info) IN
            Done(<< >>, Flat([i \in DOMAIN texts |-> EmitText(texts[i])]))
      [] part.kind = "Command" -> Done(<< >>, Put(part.text[2], part.text[1]))
      [] part.kind = "FetchSize" -> Done(<< >>, Put(4, part.n))
      [] part.kind = "Parameters" ->
            WriteEach([i \in DOMAIN part.rows |-> EmitRow(part.rows[i], descriptors)])
      [] part.kind = "ReadLobRequest" ->
            Done(<< >>, PutAll(<<8, 8, 4, 4>>, <<part.locator, part.offset, part.length, 0>>))
      [] part.kind = "WriteLobRequest" ->
            Done(<< >>, PutAll(<<8, 1, 8, 4>>, <<part.locator, IF part.last THEN 6 ELSE 2,
                                                 part.offset, part.data[2]>>)
                        \o Put(part.data[2], part.data[1]))
      [] part.kind \in {"ResultSetId", "StatementId"} -> Done(<< >>, Put(8, part.n))

PadSize(size) == IF size = 0 THEN 0 ELSE 7 - ((size - 1) % 8)
Padding(n) == [i \in 1..n |-> [w |-> 1, v |-> 0]]

PartSize(part, descriptors) ==
    LET size == BodySize(part, descriptors) IN 16 + size + PadSize(size)

\* Part::emit; before it, so many bytes of the message remain.
EmitPart(part, remaining, descriptors) ==
    LET size == BodySize(part, descriptors)
        count == Count(part)
        body == EmitBody(part, descriptors)
        header == PutAll(<<1, 1, 2, 4, 4, 4>>,
                         <<PartKind[part.kind], 0,
                           IF count < MaxI16 THEN count ELSE -1,
                           IF count < MaxI16 THEN 0 ELSE count, size, remaining>>)
    IN  IF body.ok
        THEN Done(<< >>, header \o body.in \o Padding(PadSize(size)))
        ELSE Fail(header \o body.in)
=============================================================================
