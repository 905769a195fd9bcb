----------------------------- MODULE ReplyParts -----------------------------
(***************************************************************************)
(* The parts of a reply as the client reads them.                          *)
(***************************************************************************)
EXTENDS Parts

NoName == -1         \* u32::max_value(), for a column or parameter without a name

Bit(flags, i) == (flags \div 2 ^ i) % 2 = 1

\* A name: one byte of length, and the text.
ParseName(i, in) ==
    Then(Rd1(1, in), LAMBDA l, s : RdBytes(l, s))

-----------------------------------------------------------------------------
(* Result set metadata: the fields refer to their names by the offset in a *)
(* block of names behind them, where every name is there once.             *)
ParseField(i, in) ==
    Then(Rd(<<1, 1, 2, 2, 2, 4, 4, 4, 4>>, in), LAMBDA f, s :
        IF TryNew(f[2]) = "Err" THEN Fail(s)
        ELSE Done([type |-> TryNew(f[2]), nullable |-> Bit(f[1], 1), scale |-> f[3],
                   table |-> f[6], schema |-> f[7], column |-> f[8], display |-> f[9]], s))

\* The offsets the fields mention, once each.
Offsets(fields) ==
    UNION {{fields[i].table, fields[i].schema, fields[i].column, fields[i].display} :
           i \in DOMAIN fields} \ {NoName}

\* Mutant: the bytes of the lengths are not counted.
KeyedByOffsetOfText(names, offsets) ==
    LET offset(i) == Total([j \in 1..(i - 1) |-> names[j][2]])
        found == {offset(i) : i \in DOMAIN names}
    IN  [o \in found \cup offsets |->
            IF o \in found THEN names[CHOOSE i \in DOMAIN names : offset(i) = o] ELSE << >>]

\* The names in their order, keyed by their offset in the block.
KeyedByOffset(names, offsets) ==
    LET offset(i) == Total([j \in 1..(i - 1) |-> names[j][2] + 1])
        found == {offset(i) : i \in DOMAIN names}
    IN  [o \in found \cup offsets |->
            IF o \in found THEN names[CHOOSE i \in DOMAIN names : offset(i) = o] ELSE << >>]

ParseResultSetMetadata(n, in) ==
    Then(RdEach(ParseField, n, in), LAMBDA fields, s :
        Then(RdEach(ParseName, Cardinality(Offsets(fields)), s), LAMBDA names, rest :
            Done([fields |-> fields, names |-> KeyedByOffset(names, Offsets(fields))], rest)))

\* schemaname, tablename, columnname, displayname of a field; NoName has none.
NameOf(md, i, which) ==
    IF md.fields[i][which] \in DOMAIN md.names THEN md.names[md.fields[i][which]] ELSE << >>

-----------------------------------------------------------------------------
(* Parameter metadata: behind the descriptors comes the name of each of    *)
(* them that has one.                                                      *)
DirectionFromU8(v) ==
    CASE v = 1 -> "IN" [] v = 2 -> "INOUT" [] v = 4 -> "OUT" [] OTHER -> "Err"

ParseDescriptor(i, in) ==
    Then(Rd(<<1, 1, 1, 1, 4, 2, 2, 4>>, in), LAMBDA f, s :
        IF DirectionFromU8(f[3]) = "Err" \/ TryNew(f[2]) = "Err" THEN Fail(s)
        ELSE Done([type |-> TryNew(f[2]), nullable |-> Bit(f[1], 1), scale |-> f[7],
                   dir |-> DirectionFromU8(f[3]), name |-> f[5]], s))

\* The descriptors carry their name's offset until the names are read.
WithName(ds) == {i \in DOMAIN ds : ds[i].name # NoName}

ParseParameterMetadata(n, in) ==
    Then(RdEach(ParseDescriptor, n, in), LAMBDA ds, s :
        Then(RdEach(ParseName, Cardinality(WithName(ds)), s), LAMBDA names, rest :
            Done([i \in DOMAIN ds |->
                     [ds[i] EXCEPT !.name =
                         IF @ = NoName THEN << >>
                         ELSE names[Cardinality({j \in WithName(ds) : j <= i})]]], rest)))

-----------------------------------------------------------------------------
\* Row::parse and OutputParameters::parse: a value for each column.
ParseRow(columns, in) ==
    RdEach(LAMBDA i, s : ParseFromReply(columns[i].type, columns[i].scale, columns[i].nullable, s),
           Len(columns), in)

\* Errors: code, position, length of the text, severity, SQL state, text, and
\* a filler that is never empty.
ParseError(i, in) ==
    Then(Rd(<<4, 4, 4, 1, 5>>, in), LAMBDA h, s :
        Then(RdBytes(h[3], s), LAMBDA text, t :
            Then(Rd([k \in 1..(8 - ((18 + h[3]) % 8)) |-> 1], t), LAMBDA fill, rest :
                Done([code |-> h[1], severity |-> h[4], text |-> text], rest))))

ParseExecutionResult(i, in) ==
    Then(Rd1(4, in), LAMBDA n, s :
        Done(CASE n = -2 -> <<"SuccessNoInfo", 0>>
               [] n = -3 -> <<"Failure", 0>>
               [] OTHER -> <<"RowsAffected", n>>, s))

ParseAuthField(i, in) ==
    Then(Then(Rd1(1, in), LAMBDA l8, s :
             CASE l8 = 255 -> Rd1(2, s) [] l8 \in 251..254 -> Fail(s) [] OTHER -> Done(l8, s)),
         LAMBDA l, s : RdBytes(l, s))

ParseReadLobReply(in) ==
    Then(Rd(<<8, 1, 4, 3>>, in), LAMBDA h, s :
        Then(RdBytes(h[3], s), LAMBDA data, rest :
            Done([locator |-> h[1], last |-> Bit(h[2], 2), data |-> data], rest)))

ParsePartitionParameter(i, in) ==
    Then(Rd(<<4, 1, 1, 2>>, in), LAMBDA f, s :
        IF f[2] \in 0..2 THEN Done(SubSeq(f, 1, 3), s) ELSE Fail(s))

ParsePartitionInformation(in) ==
    Then(Rd(<<1, 7, 4, 4>>, in), LAMBDA h, s :
        IF h[1] \notin 0..2 THEN Fail(s)
        ELSE Then(RdEach(ParsePartitionParameter, h[3], s), LAMBDA parameters, t :
                 Then(RdEach(LAMBDA i, u : Rd(<<4, 4>>, u), h[4], t), LAMBDA partitions, rest :
                     Done([method |-> h[1], parameters |-> parameters,
                           partitions |-> partitions], rest))))

-----------------------------------------------------------------------------
(* A result set takes what belongs to it from the parts before it: perhaps *)
(* a statement context; its id; perhaps its metadata, if they are not      *)
(* known.  The rows that a fetch brings come without an id and metadata.   *)
(* known: what is known before the reply [metadata, descriptors, fetching]. *)
LastIs(parts, kind) == parts # << >> /\ S!Last(parts).kind = kind
Without(parts, kind) == IF LastIs(parts, kind) THEN S!Front(parts) ELSE parts

IdIsThere(parts) == LastIs(Without(parts, "StatementContext"), "ResultSetId")
BeforeId(parts) == S!Front(Without(parts, "StatementContext"))

MetadataFor(parts, known) ==
    IF ~known.fetching /\ LastIs(BeforeId(parts), "ResultSetMetadata")
    THEN S!Last(BeforeId(parts)).is ELSE known.metadata

ParseRows(n, parts, known, in) ==
    LET md == MetadataFor(parts, known) IN
    Then(RdEach(LAMBDA i, s : ParseRow(md.fields, s), n, in), LAMBDA rows, rest :
        Done([id |-> IF known.fetching THEN 0 ELSE S!Last(Without(parts, "StatementContext")).is,
              metadata |-> md, rows |-> rows], rest))

\* What is left of the parts when a part of this kind has been read.
PartsBefore(kind, parts, known) ==
    CASE kind # "ResultSet" -> parts
      [] known.fetching -> Without(parts, "StatementContext")
      [] OTHER -> Without(BeforeId(parts), "ResultSetMetadata")

\* Part::parse_body: what a part of this kind is, with so many arguments.
ParseBody(kind, n, parts, known, in) ==
    CASE kind \in OptionKinds \ {"ClientContext", "LobFlags"} -> ParseOptions(n, in)
      [] kind = "Authentication" -> 
            Then(Rd1(2, in), LAMBDA c, s : RdEach(ParseAuthField, c, s))
      [] kind = "Error" -> RdEach(ParseError, n, in)
      [] kind = "OutputParameters" -> ParseRow(IterOut(known.descriptors), in)
      [] kind = "ParameterMetadata" -> ParseParameterMetadata(n, in)
      [] kind = "ReadLobReply" -> ParseReadLobReply(in)
      [] kind = "WriteLobReply" -> RdEach(LAMBDA i, s : Rd1(8, s), n, in)
      [] kind = "ResultSet" ->
            IF known.fetching \/ IdIsThere(parts) THEN ParseRows(n, parts, known, in) ELSE Fail(in)
      [] kind \in {"ResultSetId", "StatementId"} -> Rd1(8, in)
      [] kind = "ResultSetMetadata" -> ParseResultSetMetadata(n, in)
      [] kind = "ExecutionResult" -> RdEach(ParseExecutionResult, n, in)
      [] kind = "TableLocation" -> RdEach(LAMBDA i, s : Rd1(4, s), n, in)
      [] kind = "TopologyInformation" -> RdEach(ParseLine, n, in)
      [] kind = "PartitionInformation" -> ParsePartitionInformation(in)
      [] OTHER -> Fail(in)

\* Mutant: every part is taken to be padded.
ReadsPaddingAlways(kind, last) == kind # "Error"

\* The parts that are not padded when they are the last, and the one that
\* brings its own fillers.
ReadsPadding(kind, last) ==
    ~(kind = "Error" \/ (last /\ kind \in {"ResultSet", "ResultSetId", "ReadLobReply"}))

\* Part::parse: the header, the body, the padding.
ParsePart(parts, known, last, in) ==
    Then(Rd(<<1, 1, 2, 4, 4, 4>>, in), LAMBDA h, s :
        LET kind == KindOf(h[1])
            pad == [i \in 1..(7 - ((h[5] + 7) % 8)) |-> 1]
        IN  IF kind = "Err" THEN Fail(s)
            ELSE Then(ParseBody(kind, IF h[3] > h[4] THEN h[3] ELSE h[4], parts, known, s),
                      LAMBDA is, t :
                     Done(Append(PartsBefore(kind, parts, known), [kind |-> kind, is |-> is]),
                          IF ReadsPadding(kind, last) THEN Rd(pad, t).in ELSE t)))

\* Reply::parse with its headers: one segment, of kind 2 (reply) or 5 (error).
ParseReply(known, in) ==
    Then(Rd(<<8, 4, 4, 4, 2, 10, 4, 4, 2, 2, 1, 1, 2, 8>>, in), LAMBDA h, s :
        IF h[5] # 1 \/ h[11] \notin {2, 5} THEN Fail(s)
        ELSE RdFold(LAMBDA i, parts, t : ParsePart(parts, known, i = h[9], t), << >>, h[9], s))
=============================================================================
