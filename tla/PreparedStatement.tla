-------------------------- MODULE PreparedStatement --------------------------
(***************************************************************************)
(* A PreparedStatement: prepared once, executed with rows of parameters,   *)
(* alone or in a batch, and dropped.  For a row with readers (LOBSTREAM)   *)
(* the server first gets the row without the contents of the LOBs and      *)
(* answers with a locator for each; a LobWriter then copies each reader to *)
(* its locator, in chunks that end with a complete character, and the      *)
(* server executes the row when the last LOB is complete.                  *)
(*                                                                         *)
(* A roundtrip of full_send_sync is one step (AmConnCore has its parts):   *)
(* the request is processed, refused or lost, and the statement and its    *)
(* locators do not survive the reconnect.  The server is external.         *)
(***************************************************************************)
EXTENDS Utf8, Response, FiniteSets

CONSTANTS
  Statements,    \* what is prepared: in-parameters, type of the reply, its parts,
                 \* and how many rows it is given, at most
  Values,        \* by type: the parameter values that are given
  WriteLengths,  \* values of the connection's lob_write_length
  MaxRead,       \* bytes that a reader gives at once, at most
  Faults, MaxFaults

\* The server refuses the request; a connection reset before, or after it was
\* processed; the connection ends; the reply is unreadable; the server closes
\* the session; a reader fails.
AllFaults == {"error", "lostRequest", "lostReply", "eof", "garbage", "closing", "reader"}
LobTypes == {"CLOB", "BLOB"}                      \* NCLOBs are like CLOBs
Types == LobTypes \cup {"INT", "TEXT"}

ASSUME ConstantsAssumption ==
  /\ \A s \in Statements :
       /\ s.params \in Seq(Types) /\ s.maxRows \in Nat
       /\ s.parts \in Seq({s.parts[i] : i \in DOMAIN s.parts})
  /\ \A t \in Types : \A v \in Values[t] : v.content \in Seq(Utf8Byte)
  /\ WriteLengths \subseteq Nat /\ MaxRead \in Nat \ {0}
  /\ Faults \subseteq AllFaults /\ MaxFaults \in Nat

VARIABLES
  handle,    \* the PreparedStatement: "none", "alive" or "dropped"
  st,        \* what was prepared: a_descriptors and what the server will answer
  batch,     \* the rows of the batch
  \* --- execute_row under way
  streaming, \* LOBs are being written
  todo,      \* the LOBs to write: locator, type and content of the reader
  writer,    \* the LobWriter of the first of them
  irvs,      \* internal_return_values so far
  \* --- what the program has
  result,    \* of the last call
  response,  \* its HdbResponse
  got,       \* what was taken out of the response
  \* --- server and connection (external)
  session,   \* "up", "new" after a reconnect, "down" or "closing"
  srvStmt,   \* "none", "open" or "dropped"
  pending,   \* the row that waits for its LOBs
  lobs,      \* by locator: what has arrived, and whether it is complete
  executed,  \* the rows that were executed, in order
  srvValues, \* the results that the server has sent in this call
  chunk,     \* the last chunk that was sent
  faults,
  \* --- history
  given,     \* the rows that were accepted, by their id
  asked      \* ids of the rows of the last call, or of the batch

program == <<result, response, got>>
stream == <<streaming, todo, writer, irvs>>
server == <<session, srvStmt, pending, lobs, executed, srvValues, chunk>>
history == <<given, asked>>
vars == <<handle, st, batch, stream, program, server, faults, history>>

\* A parameter value, of the type or not ("wrong"), NULL, LOBSTREAM(None) or
\* LOBSTREAM(Some(reader)).
Param(kind, content) == [kind |-> kind, content |-> content]
Row(id, values) == [id |-> id, values |-> values]
NoRow == Row(0, <<>>)
NoWriter == [open |-> FALSE, rest |-> <<>>, buffer |-> <<>>, length |-> 0]
OpenWriter(rest, buffer, length) ==
  [open |-> TRUE, rest |-> rest, buffer |-> buffer, length |-> length]
NoChunk == [type |-> "none", data |-> <<>>, last |-> FALSE, length |-> 0]
Result(kind, val) == [kind |-> kind, val |-> val]
Greatest(a, b) == IF a < b THEN b ELSE a

\* The numbers of a set, in their order; there is one such sequence.
Orders(set) == {q \in [1..Cardinality(set) -> set] : \A i, j \in DOMAIN q : i < j => q[i] < q[j]}

HasIn == st.params # <<>>
Ready == handle = "alive" /\ ~streaming

\* The converted content, as the server stores it.
Stored(type, content) == IF type = "CLOB" THEN ToCesu8(content) ELSE content

Init ==
  /\ handle = "none" /\ st \in Statements /\ batch = <<>>
  /\ streaming = FALSE /\ todo = <<>> /\ writer = NoWriter /\ irvs = <<>>
  /\ result = Result("none", 0) /\ response = <<>> /\ got = <<>>
  /\ session = "up" /\ srvStmt = "none" /\ pending = NoRow /\ lobs = <<>>
  /\ executed = <<>> /\ srvValues = <<>> /\ chunk = NoChunk /\ faults = 0
  /\ given = <<>> /\ asked = <<>>

-----------------------------------------------------------------------------
(* Roundtrips.                                                             *)

\* A statement of a lost session is not known: the server refuses.
Outcomes ==
  IF session # "up" THEN {"error"}
  ELSE {"ok"} \cup (IF faults < MaxFaults THEN Faults \ {"reader"} ELSE {})

Arrives(outcome) == outcome \in {"ok", "lostReply", "garbage", "closing"}

\* After a reset the request is repeated in a new session, which refuses it.
Connection(outcome) ==
  /\ session' = CASE outcome \in {"lostRequest", "lostReply"} -> "new"
                  [] outcome \in {"eof", "garbage"} -> "down"
                  [] outcome = "closing" -> "closing"
                  [] OTHER -> session
  /\ faults' = IF outcome = "ok" \/ session # "up" THEN faults ELSE faults + 1

NotStreaming == streaming' = FALSE /\ todo' = <<>> /\ writer' = NoWriter /\ irvs' = <<>>

\* The call ends with an error.
Fail(reason) == result' = Result("err", reason) /\ response' = <<>> /\ NotStreaming

\* The call ends with HdbResponse::try_new.
Respond(values, replytype) ==
  \E built \in {HdbResponse(values, replytype)} :
    /\ result' = Result(IF built.ok THEN "ok" ELSE "err", "response")
    /\ response' = built.values /\ NotStreaming

\* What the parts of a reply mean to the program; the one about its LOBs does not
\* count.
Meaning(parts) ==
  LET irvsOf == IntoInternalReturnValues(RemoveFirstOfKind(parts, "wlr")).values
  IN Kept([i \in DOMAIN irvsOf |->
             IF irvsOf[i].kind = "er" THEN AffectedRows(irvsOf[i].val) ELSE irvsOf[i]],
          {i \in DOMAIN irvsOf : irvsOf[i].kind \notin {"pm", "wlr"}})

-----------------------------------------------------------------------------
(* PreparedStatement::try_new and the drop.                                *)

\* The reply to the Prepare request has the StatementId; the other parts are
\* evaluated, and TransactionFlags that close the session are an error.
Prepare(outcome) ==
  /\ handle = "none" /\ result.kind = "none"
  /\ Connection(outcome)
  /\ handle' = IF outcome = "ok" THEN "alive" ELSE "none"
  /\ srvStmt' = IF Arrives(outcome) THEN "open" ELSE srvStmt
  /\ result' = Result(IF outcome = "ok" THEN "prepared" ELSE "err", "prepare")
  /\ UNCHANGED <<st, batch, stream, response, got, pending, lobs, executed, srvValues,
                 chunk, history>>

\* Bug variant: the statement is dropped if there is an open batch only.
DropRequest_Forgotten(outcome) == Arrives(outcome) /\ batch # <<>>

\* The DropStatementId request reaches the server.
DropRequest(outcome) == Arrives(outcome)

\* PreparedStatementCore::drop; whatever comes back is ignored.
Drop(outcome) ==
  /\ Ready /\ outcome # "error"
  /\ handle' = "dropped" /\ batch' = <<>>
  /\ Connection(outcome)
  /\ srvStmt' = IF DropRequest(outcome) THEN "dropped" ELSE srvStmt
  /\ UNCHANGED <<st, stream, program, pending, lobs, executed, srvValues, chunk, history>>

-----------------------------------------------------------------------------
(* Rows of parameters.                                                     *)

\* Rows with one value per parameter, one too few and one too many.
ValuesAt(i) == IF i \in DOMAIN st.params THEN Values[st.params[i]] ELSE {Param("value", <<>>)}
OneMore(rows, values) == {Append(r, v) : r \in rows, v \in values}
RowsOfLength[n \in Nat] ==
  IF n = 0 THEN {<<>>} ELSE OneMore(RowsOfLength[n - 1], ValuesAt(n))
GivenRows == UNION {RowsOfLength[n] : n \in Greatest(0, Len(st.params) - 1)..(Len(st.params) + 1)}

IsReader(v) == v.kind = "reader"
HasReader(row) == \E i \in DOMAIN row.values : IsReader(row.values[i])

\* ParameterRow::new, with descriptors for the values and matches_value_type.
Accepts(values) ==
  /\ Len(values) <= Len(st.params)
  /\ \A i \in DOMAIN values : values[i].kind # "wrong"

\* What the server makes of a row: it fits if there is a value for each
\* parameter; it wants to get the LOBs that are announced without data.
Fits(row) ==
  /\ Len(row.values) = Len(st.params)
  /\ \A i \in DOMAIN row.values : row.values[i].kind = "lobnull" => st.params[i] # "INT"
LobPositions(row) == {i \in DOMAIN row.values : row.values[i].kind = "lobnull"}

Accept(values) == given' = Append(given, values)

\* Bug variant: the rows are collected in the opposite order.
BatchAfter_Front(row) == IF Accepts(row.values) THEN <<row>> \o batch ELSE batch

\* ParameterRows::push_hdb_values
BatchAfter(row) == IF Accepts(row.values) THEN Append(batch, row) ELSE batch

\* add_row_to_batch; add_batch gives it values that fit.
AddRow(values) ==
  /\ Ready /\ Len(given) < st.maxRows
  /\ \A i \in DOMAIN values : IsReader(values[i]) => values[i].content = <<>>
  /\ IF HasIn /\ Accepts(values)
     THEN Accept(values) /\ asked' = Append(asked, Len(given'))
          /\ result' = Result("added", Len(given'))
     ELSE UNCHANGED history /\ result' = Result("err", "row")
  /\ batch' = IF HasIn THEN BatchAfter(Row(Len(given) + 1, values)) ELSE batch
  /\ response' = <<>> /\ got' = <<>>
  /\ UNCHANGED <<handle, st, stream, server, faults>>

-----------------------------------------------------------------------------
(* execute_parameter_rows                                                  *)

\* The server executes the rows, or refuses some of them.
SrvExecuteRows(rows, results) ==
  \E done \in Orders({i \in DOMAIN rows : results[i] # ExecFailure}) :
    executed' = executed \o [k \in DOMAIN done |-> rows[done[k]]]

\* The errors that come with the results: one for each row that failed.
ErrorsOf(rows, results) ==
  Kept([i \in DOMAIN rows |-> rows[i].id], {i \in DOMAIN rows : results[i] = ExecFailure})

\* Rows are sent, none for a statement without parameters.
ExecuteParameterRows(rows) ==
  \E outcome \in (IF \A i \in DOMAIN rows : Fits(rows[i]) THEN Outcomes ELSE {"error"}) :
  \E results \in [DOMAIN rows -> {1, ExecFailure}] :
    LET failures == HasFailure(results)
        wantsLobs == \E i \in DOMAIN rows : LobPositions(rows[i]) # {}
        parts == IF wantsLobs THEN <<Value("wlr", 0)>> ELSE st.parts
        values == IntoInternalReturnValues(parts)
    IN /\ failures => Arrives(outcome) /\ ~wantsLobs
       /\ IF \A i \in DOMAIN rows : Fits(rows[i]) THEN Connection(outcome)
          ELSE UNCHANGED <<session, faults>>
       /\ IF Arrives(outcome) /\ ~wantsLobs THEN SrvExecuteRows(rows, results)
          ELSE UNCHANGED executed
       /\ srvValues' = IF outcome = "ok" /\ ~failures THEN Meaning(parts) ELSE <<>>
       /\ CASE outcome # "ok" -> Fail("roundtrip")
            [] outcome = "ok" /\ failures ->
                 /\ result' = Result("results", MixErrors(results, ErrorsOf(rows, results)))
                 /\ response' = <<>> /\ NotStreaming
            [] outcome = "ok" /\ ~failures /\ ~values.ok -> Fail("parts")
            [] OTHER -> Respond(values.values, st.type)
       /\ got' = <<>>
       /\ UNCHANGED <<handle, st, srvStmt, pending, lobs, chunk>>

\* Bug variant: the batch is cleared after a successful execution only.
BatchTaken_IfOk == IF result'.kind = "ok" THEN <<>> ELSE batch

\* mem::swap with an empty ParameterRows, before anything is sent.
BatchTaken == <<>>

\* execute_batch: a batch with a reader cannot be sent (HdbValue::size).
ExecuteBatch ==
  /\ Ready /\ (HasIn => batch # <<>>)
  /\ \/ /\ \E i \in DOMAIN batch : HasReader(batch[i])
        /\ Fail("size") /\ got' = <<>> /\ srvValues' = <<>>
        /\ UNCHANGED <<handle, st, session, srvStmt, pending, lobs, executed, chunk, faults>>
     \/ /\ \A i \in DOMAIN batch : ~HasReader(batch[i])
        /\ ExecuteParameterRows(batch)
  /\ batch' = BatchTaken
  /\ asked' = <<>> /\ UNCHANGED given

ExecuteEmptyBatch ==
  /\ Ready /\ HasIn /\ batch = <<>>
  /\ Fail("empty") /\ got' = <<>>
  /\ UNCHANGED <<handle, st, batch, server, faults, history>>

\* execute with values that serde has converted for the descriptors.
Execute(values) ==
  /\ Ready /\ (HasIn => Len(given) < st.maxRows)
  /\ Len(values) = Len(st.params) /\ \A i \in DOMAIN values : values[i].kind = "value"
  /\ IF HasIn THEN Accept(values) ELSE UNCHANGED given
  /\ ExecuteParameterRows(IF HasIn THEN <<Row(Len(given) + 1, values)>> ELSE <<>>)
  /\ UNCHANGED <<batch, asked>>

-----------------------------------------------------------------------------
(* execute_row                                                             *)

\* Bug variant: the readers are taken from the end.
LobsToWrite_Reversed(values, order) ==
  LET last == Len(order) + 1
  IN [k \in DOMAIN order |-> [locator |-> k, type |-> st.params[order[last - k]],
                              content |-> values[order[last - k]].content]]

\* The locators, in the order of the reply, and the readers, in the order of
\* the row.
LobsToWrite(values, order) ==
  [k \in DOMAIN order |-> [locator |-> k, type |-> st.params[order[k]],
                           content |-> values[order[k]].content]]

IsProcedure == st.type = "DbProcedureCall"

\* The reply to the main request: the row waits for its LOBs; a procedure is
\* executed, and gives its results, when they have arrived.
ExecuteMain(row, values, readers) ==
  \E outcome \in (IF Fits(row) THEN Outcomes ELSE {"error"}) :
    LET parts == IF IsProcedure THEN <<Value("wlr", 0)>> ELSE <<Value("wlr", 0)>> \o st.parts
        main == IntoInternalReturnValues(RemoveFirstOfKind(parts, "wlr"))
    IN /\ IF Fits(row) THEN Connection(outcome) ELSE UNCHANGED <<session, faults>>
       /\ IF Arrives(outcome)
          THEN /\ pending' = row
               /\ lobs' = [k \in 1..Cardinality(LobPositions(row)) |-> [data |-> <<>>, done |-> FALSE]]
          ELSE UNCHANGED <<pending, lobs>>
       /\ srvValues' = IF outcome = "ok" THEN Meaning(parts) ELSE <<>>
       /\ IF outcome # "ok" \/ ~main.ok \/ readers # LobPositions(row)
          THEN Fail("main")
          ELSE /\ streaming' = TRUE
               /\ \E order \in Orders(readers) : todo' = LobsToWrite(values, order)
               /\ irvs' = main.values /\ writer' = NoWriter
               /\ result' = Result("none", 0) /\ response' = <<>>
       /\ UNCHANGED executed

\* The main request, in which LOBSTREAM(None) stands for the readers; values
\* without a descriptor are not sent (zip).
ExecuteRow(values) ==
  /\ Ready /\ HasIn /\ Len(given) < st.maxRows
  /\ LET cut == [i \in {i \in DOMAIN st.params : i <= Len(values)} |-> values[i]]
         readers == {i \in DOMAIN cut : IsReader(cut[i])}
         row == Row(Len(given) + 1,
                    [i \in DOMAIN cut |-> IF i \in readers THEN Param("lobnull", <<>>) ELSE cut[i]])
     IN \/ /\ ~Accepts(row.values)
           /\ Fail("row") /\ got' = <<>> /\ UNCHANGED <<handle, st, given, server, faults>>
        \/ /\ Accepts(row.values) /\ Accept(values)
           /\ LobPositions(row) = {} /\ ExecuteParameterRows(<<row>>)
        \/ /\ Accepts(row.values) /\ Accept(values)
           /\ LobPositions(row) # {} /\ ExecuteMain(row, cut, readers)
           /\ got' = <<>> /\ UNCHANGED <<handle, st, srvStmt, chunk>>
  /\ UNCHANGED <<batch, asked>>

-----------------------------------------------------------------------------
(* LobWriter.                                                              *)

\* LobWriter::new, with the lob_write_length that the connection has now.
NewWriter ==
  /\ streaming /\ todo # <<>> /\ ~writer.open
  /\ \/ /\ todo[1].type \notin LobTypes
        /\ Fail("type")
     \/ /\ todo[1].type \in LobTypes
        /\ \E length \in WriteLengths :
             writer' = OpenWriter(todo[1].content, <<>>, length)
        /\ UNCHANGED <<result, response, streaming, todo, irvs>>
  /\ UNCHANGED <<handle, st, batch, got, server, faults, history>>

\* The server appends to a LOB; with the last one it executes the row.
SrvWriteLob(locator, data, last) ==
  \* the positions of the locators in the row
  \E order \in Orders(LobPositions(pending)) :
  LET after == [lobs EXCEPT ![locator] = [data |-> @.data \o data, done |-> last]]
      lobAt(i) == CHOOSE k \in DOMAIN order : order[k] = i
  IN /\ lobs' = after
     /\ executed' =
          IF \A k \in DOMAIN after : after[k].done
          THEN Append(executed, Row(pending.id,
                 [i \in DOMAIN pending.values |->
                    IF i \in LobPositions(pending) THEN Param("lob", after[lobAt(i)].data)
                    ELSE pending.values[i]]))
          ELSE executed

\* write_a_lob_chunk: a reply of type WriteLob tells nothing new; the one to
\* the last chunk of a procedure's last LOB has the results.  TransactionFlags
\* are not evaluated.
SendChunk(data, last, outcome, writerAfter) ==
  LET results == last /\ IsProcedure /\ \A k \in DOMAIN lobs \ {todo[1].locator} : lobs[k].done
      values == IntoInternalReturnValues(RemoveFirstOfKind(st.parts, "wlr"))
  IN /\ Connection(outcome)
     /\ chunk' = [type |-> todo[1].type, data |-> data, last |-> last, length |-> writer.length]
     /\ IF Arrives(outcome) THEN SrvWriteLob(todo[1].locator, data, last)
        ELSE UNCHANGED <<lobs, executed>>
     /\ srvValues' = IF results THEN Meaning(st.parts) ELSE srvValues
     /\ IF outcome \notin {"ok", "closing"} \/ (results /\ ~values.ok) THEN Fail("chunk")
        ELSE /\ writer' = writerAfter
             /\ todo' = IF last THEN Tail(todo) ELSE todo
             /\ irvs' = IF results THEN irvs \o values.values ELSE irvs
             /\ UNCHANGED <<streaming, result, response>>

\* Text is cut at the last complete character, everything else is sent as it is.
Cut(b) == IF todo[1].type = "CLOB" THEN CutOff(b)
          ELSE [ok |-> TRUE, cesu8 |-> b, tail |-> <<>>]

\* Bug variant: only the input is compared with the length of a chunk.
IsBuffered_InputOnly(buffer, input) == Len(input) < writer.length

\* write() keeps the input if it does not make a chunk.
IsBuffered(buffer, input) == Len(input) + Len(buffer) < writer.length

\* io::copy reads some bytes and gives them to write().
Copy(n) ==
  /\ writer.open /\ n <= Len(writer.rest)
  /\ LET input == SubSeq(writer.rest, 1, n)
         joined == writer.buffer \o input
         rest == SubSeq(writer.rest, n + 1, Len(writer.rest))
         cut == Cut(joined)
     IN \/ /\ IsBuffered(writer.buffer, input)
           /\ writer' = OpenWriter(rest, joined, writer.length)
           /\ UNCHANGED <<result, response, streaming, todo, irvs, server, faults>>
        \/ /\ ~IsBuffered(writer.buffer, input) /\ ~cut.ok
           /\ Fail("utf8") /\ UNCHANGED <<server, faults>>
        \/ /\ ~IsBuffered(writer.buffer, input) /\ cut.ok
           /\ \E outcome \in Outcomes :
                SendChunk(cut.cesu8, FALSE, outcome, OpenWriter(rest, cut.tail, writer.length))
           /\ UNCHANGED <<srvStmt, pending>>
  /\ UNCHANGED <<handle, st, batch, got, history>>

ReaderFails ==
  /\ writer.open /\ "reader" \in Faults /\ faults < MaxFaults
  /\ Fail("reader") /\ faults' = faults + 1
  /\ UNCHANGED <<handle, st, batch, got, server, history>>

\* Bug variant: nothing is sent if the buffer is empty.
FlushDue_IfBuffered == writer.open /\ writer.rest = <<>> /\ writer.buffer # <<>>

\* io::copy has come to the end of the reader.
FlushDue == writer.open /\ writer.rest = <<>>

\* flush() sends the rest of the buffer as the last chunk; "stream is ending
\* with invalid utf-8" if it is not complete.
Flush ==
  /\ FlushDue
  /\ LET cut == Cut(writer.buffer)
     IN \/ /\ ~cut.ok \/ cut.tail # <<>>
           /\ Fail("utf8") /\ UNCHANGED <<server, faults>>
        \/ /\ cut.ok /\ cut.tail = <<>>
           /\ \E outcome \in Outcomes : SendChunk(cut.cesu8, TRUE, outcome, NoWriter)
           /\ UNCHANGED <<srvStmt, pending>>
  /\ UNCHANGED <<handle, st, batch, got, history>>

\* All LOBs are written: the response is built, with the type of the main reply.
Finish ==
  /\ streaming /\ todo = <<>>
  /\ Respond(irvs, st.type)
  /\ UNCHANGED <<handle, st, batch, got, server, faults, history>>

-----------------------------------------------------------------------------
(* The program takes values out of the response.                           *)

Kinds == {"rs", "rows", "out", "success"}

\* get_resultset, get_affected_rows, get_output_parameters, get_success
GetValue(kind) ==
  /\ ~streaming /\ response # <<>>
  /\ \E taken \in {Get(response, kind)} :
       /\ response' = taken.rest
       /\ got' = IF taken.ok THEN Append(got, taken.value) ELSE got
       /\ result' = Result(IF taken.ok THEN "got" ELSE "nothing", kind)
  /\ UNCHANGED <<handle, st, batch, stream, server, faults, history>>

\* into_resultset, ...: consumes the response.
IntoValue(kind) ==
  /\ ~streaming /\ result.kind = "ok"
  /\ IF IntoSingle(response, kind)
     THEN got' = response /\ result' = Result("single", kind)
     ELSE got' = <<>> /\ result' = Result("err", "evaluation")
  /\ response' = <<>>
  /\ UNCHANGED <<handle, st, batch, stream, server, faults, history>>

-----------------------------------------------------------------------------
Step ==
  \/ NewWriter \/ ReaderFails \/ Flush \/ Finish
  \/ \E n \in 1..MaxRead : Copy(n)

Next ==
  \/ \E outcome \in Outcomes : Prepare(outcome) \/ Drop(outcome)
  \/ \E values \in GivenRows : AddRow(values) \/ Execute(values) \/ ExecuteRow(values)
  \/ ExecuteBatch \/ ExecuteEmptyBatch
  \/ Step
  \/ \E kind \in Kinds : GetValue(kind) \/ IntoValue(kind)

Spec == Init /\ [][Next]_vars

\* A call that was begun goes on: readers deliver, and the server answers.
FairSpec == Spec /\ WF_vars(Step)

-----------------------------------------------------------------------------
(* Properties.                                                             *)

\* lob_writer.rs, sync_prepared_statement.rs:258: in a row that was executed
\* every LOB is what the reader contained that was given at its position: no
\* byte is missing or sent twice, no LOB is mixed up with another.
LobsArrive ==
  \A k \in DOMAIN executed :
    \A i \in DOMAIN st.params :
      LET v == given[executed[k].id][i]
      IN executed[k].values[i] =
           (IF IsReader(v) THEN Param("lob", Stored(st.params[i], v.content)) ELSE v)

\* lob_writer.rs:231: text is refused only if it is not UTF-8, however the
\* reader and the write length cut it (for write lengths from 2 on; a single
\* byte has no cutoff point).
TextIsAccepted ==
  result = Result("err", "utf8") /\ (\A n \in WriteLengths : n > 1) =>
    \E i \in DOMAIN st.params :
      /\ st.params[i] = "CLOB" /\ IsReader(given[Len(given)][i])
      /\ ~IsUtf8(given[Len(given)][i].content)

TextsAreUtf8 ==
  \A k \in DOMAIN given : \A i \in DOMAIN given[k] :
    i \in DOMAIN st.params /\ st.params[i] = "CLOB" /\ IsReader(given[k][i]) =>
      IsUtf8(given[k][i].content)

\* lob_writer.rs:169, :225: what is kept back of a text is less than a chunk, or
\* an incomplete character, and what is sent before the end is a chunk, but for
\* such a rest.  (Of bytes that are not UTF-8 more can be kept.)  Every chunk of
\* a CLOB consists of complete characters, whatever the reader gives.
ChunksAreCut ==
  /\ TextsAreUtf8 =>
       /\ Len(writer.buffer) <= Greatest(writer.length - 1, 3)
       /\ chunk.type # "none" /\ ~chunk.last => Len(chunk.data) >= chunk.length - 3
  /\ chunk.type = "CLOB" => CESU!IsText(chunk.data)

Ids(rows) == {rows[k].id : k \in DOMAIN rows}

\* sync_prepared_statement.rs:350: no row is executed twice, and a row of the
\* batch was not executed, also if an execution fails and the program goes on.
RowsOnce ==
  /\ \A j, k \in DOMAIN executed :
       j # k => executed[j].id # executed[k].id
  /\ Ids(executed) \cap Ids(batch) = {}

\* sync_prepared_statement.rs:341, reply.rs:145: an execution of the batch that
\* succeeds has executed all rows that were added since the last one, in their
\* order, and nothing else.
BatchSucceeds ==
  /\ Len(executed') = Len(executed) + Len(asked)
  /\ \A k \in DOMAIN asked : executed'[Len(executed) + k].id = asked[k]

\* If rows of it fail, the program gets a result for each row, and with the
\* failures the errors that belong to these rows.
BatchFailsInPart ==
  /\ Len(result'.val) = Len(asked)
  /\ \A k \in DOMAIN asked :
       IF result'.val[k].result = ExecFailure
       THEN result'.val[k].error = asked[k] /\ asked[k] \notin Ids(executed')
       ELSE asked[k] \in Ids(executed')

\* The program is told exactly what became of the rows of a batch.
BatchIsExact ==
  [][asked # <<>> /\ asked' = <<>> =>
       /\ result'.kind = "ok" => BatchSucceeds
       /\ result'.kind = "results" => BatchFailsInPart]_vars

\* hdb_response.rs:320: the program gets the result sets and the sets of
\* output parameters in the order in which the server has sent them, and as
\* long as it has not taken them, all of them are in the response.
ResultsInOrder ==
  result.kind \in {"ok", "got", "nothing", "single"} =>
    \A kind \in {"rs", "out"} :
      OfKind(kind, got) \o OfKind(kind, S!Reverse(response)) = OfKind(kind, srvValues)

\* sync_prepared_statement.rs:460, :419: a statement that the program does not
\* have, or has no more, is not left on a server whose session goes on.
StatementIsDropped == session = "up" /\ handle # "alive" => srvStmt # "open"

\* sync_prepared_statement.rs:243: writing the LOBs comes to an end.
ExecutionsReturn == streaming ~> ~streaming

-----------------------------------------------------------------------------
(* The inductive invariant behind RowsOnce.                                *)

IsSequence(q) == q \in Seq({q[k] : k \in DOMAIN q})

SequenceTypes ==
  /\ IsSequence(given) /\ IsSequence(batch) /\ IsSequence(executed) /\ IsSequence(todo)
  /\ st \in Statements

\* Rows have the numbers under which they were accepted.
Numbered(rows) == \A k \in DOMAIN rows : rows[k].id \in 1..Len(given)
Different(rows) == \A j, k \in DOMAIN rows : j # k => rows[j].id # rows[k].id

RowsInv ==
  /\ Numbered(executed) /\ Different(executed)
  /\ Numbered(batch) /\ Different(batch)
  /\ Ids(executed) \cap Ids(batch) = {}

\* Every LOB that is still to be written has a locator of its own, and the row
\* that waits for them was not executed.
StreamInv ==
  /\ writer.open => streaming /\ todo # <<>>
  /\ streaming =>
       /\ pending.id \in 1..Len(given) /\ pending.id \notin Ids(batch)
       /\ todo # <<>> => pending.id \notin Ids(executed)
       /\ \A k \in DOMAIN todo : todo[k].locator \in DOMAIN lobs /\ ~lobs[todo[k].locator].done
       /\ \A j, k \in DOMAIN todo : j # k => todo[j].locator # todo[k].locator

StatementInv == SequenceTypes /\ RowsInv /\ StreamInv

-----------------------------------------------------------------------------
(* The inductive invariant behind LobsArrive, with ChunksAreCut and        *)
(* TextIsAccepted.                                                         *)

\* The last row that was accepted.
LastGiven == given[Len(given)]

\* What was given are bytes, and rows of the batch are as they were given.
GivenInv ==
  /\ \A k \in DOMAIN given :
       IsSequence(given[k]) /\ \A i \in DOMAIN given[k] : given[k][i].content \in Seq(Utf8Byte)
  /\ \A k \in DOMAIN batch : batch[k].values = given[batch[k].id]

\* The row that waits for its LOBs is the last one, and it waits for its readers.
WaitingInv ==
  streaming =>
    /\ pending.id = Len(given) /\ DOMAIN pending.values = DOMAIN st.params
    /\ \A i \in DOMAIN st.params :
         /\ i \in DOMAIN LastGiven
         /\ i \in LobPositions(pending) <=> IsReader(LastGiven[i])
         /\ ~IsReader(LastGiven[i]) => pending.values[i] = LastGiven[i]

\* Locators and readers belong together; LOBs that are complete are what the
\* reader had, and nothing has arrived of those that were not begun.
LobsInOrder(order) ==
  /\ DOMAIN lobs = DOMAIN order
  /\ \A k \in DOMAIN todo :
       LET i == order[todo[k].locator]
       IN todo[k].type = st.params[i] /\ todo[k].content = LastGiven[i].content
  /\ \A k \in DOMAIN order :
       lobs[k].done => lobs[k].data = Stored(st.params[order[k]], LastGiven[order[k]].content)

TodoInv ==
  streaming =>
    /\ \E order \in Orders(LobPositions(pending)) : LobsInOrder(order)
    /\ \A k \in DOMAIN todo : k # 1 \/ ~writer.open => lobs[todo[k].locator].data = <<>>

\* The content of the reader is what was sent, complete characters if it is a
\* text, what is buffered, and the rest.
Divided(content, sent) == content = sent \o (writer.buffer \o writer.rest)

WriterInv ==
  writer.open =>
    /\ writer.length \in WriteLengths /\ todo[1].type \in LobTypes
    /\ writer.buffer \in Seq(Utf8Byte) /\ writer.rest \in Seq(Utf8Byte)
    /\ \E n \in 0..Len(todo[1].content) :
         LET sent == SubSeq(todo[1].content, 1, n)
         IN /\ Divided(todo[1].content, sent)
            /\ lobs[todo[1].locator].data = Stored(todo[1].type, sent)
            /\ todo[1].type = "CLOB" => IsUtf8(sent)

LobsInv ==
  /\ GivenInv /\ WaitingInv /\ TodoInv /\ WriterInv
  /\ LobsArrive /\ ChunksAreCut /\ TextIsAccepted

-----------------------------------------------------------------------------
(* The inductive invariant behind BatchIsExact and ResultsInOrder.         *)

\* As long as the program can execute the batch, it has what was asked for.
AskedInv ==
  /\ IsSequence(asked)
  /\ handle # "dropped" =>
       /\ Len(asked) = Len(batch)
       /\ \A k \in DOMAIN batch : batch[k].id = asked[k]

OrderedKinds == {"rs", "out"}

\* The values that were received for the LOBs under way are those that the
\* server has sent; a procedure sends them with the last chunk.
IrvsInv ==
  streaming =>
    /\ handle = "alive" /\ result.kind = "none" /\ got = <<>>
    /\ \A kind \in OrderedKinds :
         /\ OfKind(kind, irvs) = OfKind(kind, srvValues)
         /\ IsProcedure /\ todo # <<>> => OfKind(kind, irvs) = <<>>

ResponseInv ==
  /\ IsSequence(irvs) /\ IsSequence(srvValues) /\ IsSequence(response) /\ IsSequence(got)
  /\ response # <<>> => result.kind \in {"ok", "got", "nothing"}
  /\ result.kind = "ok" => got = <<>>

ResultsInv == IrvsInv /\ ResponseInv /\ ResultsInOrder

ReplyInv == AskedInv /\ ResultsInv

=============================================================================
