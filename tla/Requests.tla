------------------------------ MODULE Requests ------------------------------
(***************************************************************************)
(* The requests the client sends, and how one is written: a message header *)
(* and a segment header with sizes computed beforehand, and the parts.     *)
(***************************************************************************)
EXTENDS Parts, TLC

RequestType ==
    [ExecuteDirect |-> 2, Prepare |-> 3, Execute |-> 13, ReadLob |-> 16, WriteLob |-> 17,
     Authenticate |-> 65, Connect |-> 66, CloseResultSet |-> 69, DropStatementId |-> 70,
     FetchNext |-> 71, Disconnect |-> 77, XAStart |-> 83, XAEnd |-> 84, XAPrepare |-> 85,
     XACommit |-> 86, XARollback |-> 87, XARecover |-> 88, XAForget |-> 89]

HOLD_CURSORS_OVER_COMMIT == 8

New(type, options, parts) == [type |-> type, options |-> options, parts |-> parts]

OptionsPart(kind, options) == [kind |-> kind, options |-> options]
NumberPart(kind, n) == [kind |-> kind, n |-> n]
Command(text) == [kind |-> "Command", text |-> text]
Auth(fields) == [kind |-> "Authentication", fields |-> fields]

FirstAuthRequest(context, fields) ==
    New("Authenticate", 0, <<OptionsPart("ClientContext", context), Auth(fields)>>)

SecondAuthRequest(fields, options) ==
    New("Connect", 0, <<Auth(fields), OptionsPart("ConnectOptions", options)>>)

\* Without a command info (a line and the name of a module) there is no part.
ExecuteDirect(fetchSize, info, stmt) ==
    New("ExecuteDirect", HOLD_CURSORS_OVER_COMMIT,
        <<NumberPart("FetchSize", fetchSize)>>
        \o (IF info = << >> THEN << >>
            ELSE << OptionsPart("CommandInfo", 1 :> Value("INT", <<info[1]>>)
                                               @@ 2 :> Value("STRING", info[2])) >>)
        \o <<Command(stmt)>>)

Prepare(stmt) == New("Prepare", HOLD_CURSORS_OVER_COMMIT, <<Command(stmt)>>)

\* A statement without parameters has no part for them; the LOBs of a row are
\* streamed behind it only if the flags say so.
Execute(id, rows, streaming) ==
    New("Execute", HOLD_CURSORS_OVER_COMMIT,
        <<NumberPart("StatementId", id)>>
        \o (IF rows = << >> THEN << >> ELSE <<[kind |-> "Parameters", rows |-> rows]>>)
        \o (IF streaming THEN <<OptionsPart("LobFlags", 0 :> Value("BOOLEAN", <<1>>))>> ELSE << >>))

DropStatement(id) == New("DropStatementId", 0, <<NumberPart("StatementId", id)>>)

FetchNext(id, fetchSize) ==
    New("FetchNext", 0, <<NumberPart("ResultSetId", id), NumberPart("FetchSize", fetchSize)>>)

CloseResultSet(id) == New("CloseResultSet", 0, <<NumberPart("ResultSetId", id)>>)

\* The server counts from one.
ReadLob(locator, offset, length) ==
    New("ReadLob", 0, << [kind |-> "ReadLobRequest", locator |-> locator,
                          offset |-> offset + 1, length |-> length] >>)

WriteLob(locator, data, last) ==
    New("WriteLob", 0, << [kind |-> "WriteLobRequest", locator |-> locator, offset |-> -1,
                           data |-> data, last |-> last] >>)

\* The branch's id is one BSTRING, and there is one of it; recovery asks
\* without an id, and flags are left out where there are none.
XaOptions(flags, xid) ==
    (IF flags = 0 /\ xid # << >> THEN << >> ELSE 1 :> Value("INT", <<flags>>))
    @@ IF xid = << >> THEN << >>
       ELSE 4 :> Value("BIGINT", <<1>>) @@ 5 :> Value("BSTRING", xid)

XaRequest(type, flags, xid) ==
    New(type, 0, <<OptionsPart("XatOptions", XaOptions(flags, xid))>>)

Disconnect == New("Disconnect", 0, << >>)

\* What the connection adds to a request.
Augmented(request, sequence, info) ==
    [request EXCEPT !.parts = @
        \o (IF sequence = << >> THEN << >>
            ELSE <<OptionsPart("StatementContext", 1 :> Value("BIGINT", sequence))>>)
        \o (IF info = << >> THEN << >> ELSE <<[kind |-> "ClientInfo", info |-> info]>>)]

-----------------------------------------------------------------------------
SegmentSize(request, descriptors) ==
    24 + Sum(LAMBDA part : PartSize(part, descriptors), request.parts)

\* The bytes of the message from its i-th part on.
Remaining(request, descriptors, i) ==
    SegmentSize(request, descriptors) - 24
    - Total([k \in 1..(i - 1) |-> PartSize(request.parts[k], descriptors)])

\* The sizes are asked for first, and with them comes the error for values
\* that cannot be sent.
SizesAreOk(request, descriptors) ==
    \A i \in DOMAIN request.parts : BodySizeIsOk(request.parts[i], descriptors)

Zeros(n) == [i \in 1..n |-> 0]
Bytes1(n) == [i \in 1..n |-> 1]

Headers(request, session, seq, autoCommit, size) ==
    PutAll(<<8, 4, 4, 4, 2>> \o Bytes1(10) \o <<4, 4, 2, 2, 1, 1, 1, 1>> \o Bytes1(8),
           <<session, seq, size, size, 1>> \o Zeros(10)
           \o <<size, 0, Len(request.parts), 1, 1, RequestType[request.type],
                IF autoCommit THEN 1 ELSE 0, request.options>> \o Zeros(8))

\* Request::emit: whether it succeeds, and the bytes it has written by then.
Emit(request, session, seq, autoCommit, descriptors) ==
    LET size == SegmentSize(request, descriptors) IN
    IF ~SizesAreOk(request, descriptors) THEN Fail(<< >>)
    ELSE [WriteEach([i \in DOMAIN request.parts |->
                        EmitPart(request.parts[i], Remaining(request, descriptors, i), descriptors)])
             EXCEPT !.in = Headers(request, session, seq, autoCommit, size) \o @]
=============================================================================
