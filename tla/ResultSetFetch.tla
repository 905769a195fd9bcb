--------------------------- MODULE ResultSetFetch ---------------------------
(***************************************************************************)
(* A ResultSet of hdbconnect: the rows come in packets, the first one with *)
(* the reply to the query, the others with FETCH requests.  The state of   *)
(* the ResultSet (RsState) holds the rows that were not yet handed out and *)
(* shares a ResultSetCore with the LOB handles in the rows; the            *)
(* ResultSetCore in turn owns a reference to the prepared statement.  What *)
(* drops them last informs the server.                                     *)
(*                                                                         *)
(* A FETCH request is sent by full_send_sync (see AmConnCore), which       *)
(* repeats it once after a connection reset.  The server is external.      *)
(***************************************************************************)
EXTENDS Integers, Sequences, FiniteSets

CONSTANTS
  N,               \* number of rows of the query
  FetchSize,       \* rows per packet, at most
  Faults,          \* the faults that are considered
  MaxFaults        \* how often they occur, at most

\* A request or its reply is lost by a connection reset; the connection ends;
\* a reply cannot be parsed; the server answers with an error, or closes the
\* cursor too early.
AllFaults == {"lostRequest", "lostReply", "eof", "garbage", "error", "closed"}

ASSUME ConstantsAssumption ==
  /\ N \in Nat /\ FetchSize \in Nat \ {0}
  /\ Faults \subseteq AllFaults /\ MaxFaults \in Nat

VARIABLES
  \* --- the user's handles
  rsAlive,    \* the ResultSet
  psAlive,    \* the PreparedStatement
  userRows,   \* the rows, or their LOB handles, that the user still has
  \* --- RsState and ResultSetCore
  rowIter, nextRows,
  rscore,     \* RsState still refers to the ResultSetCore
  attributes, \* of the last packet
  \* --- the operation under way
  op,         \* "none", "next_row" or "total"
  phase,      \* where its fetch is
  attempt,
  dropping,   \* the requests that drops have to send, in their order
  \* --- server and connection (external)
  hasLobs,    \* the rows have LOB columns
  cursor,     \* "open", "closed" by the server, "released" or "lost"
  stmt,       \* "none", "open" or "dropped"
  pos,        \* rows sent so far
  skipped,    \* a cursor survived the loss of a reply with some of its rows
  reply,
  broken,     \* no reply can be read any more
  faults,
  \* --- history
  delivered,  \* rows returned by next_row, in order
  failed,     \* a call has returned an error
  result      \* of the last call

handles == <<rsAlive, psAlive, userRows>>
rsState == <<rowIter, nextRows, rscore, attributes>>
opVars  == <<op, phase, attempt>>
server  == <<hasLobs, cursor, stmt, pos, skipped>>
wire    == <<reply, broken, faults>>
history == <<delivered, failed, result>>
vars == <<handles, rsState, opVars, dropping, server, wire, history>>

Attr(last, closed) == [last |-> last, closed |-> closed]
NoReply == [kind |-> "none", rows |-> <<>>, attributes |-> Attr(FALSE, FALSE)]
Result(kind, value) == [kind |-> kind, value |-> value]

\* The rows from..to, as they are in a packet.
RowsFromTo(from, to) == [i \in 1..(to - from + 1) |-> from + i - 1]

\* The server may flag the packet with which the rows end as the last one; it
\* may close the cursor with it.
PacketAttributes(end) ==
  {Attr(FALSE, FALSE)} \cup
  (IF end = N THEN {Attr(TRUE, FALSE), Attr(TRUE, TRUE)} ELSE {})

RowsOf(q) == {q[i] : i \in DOMAIN q}
BufferedRows == RowsOf(rowIter) \cup RowsOf(nextRows)
AllRows == delivered \o rowIter \o nextRows

-----------------------------------------------------------------------------
(* The ResultSet as it is built from the reply to the query; a reply with  *)
(* metadata and a ResultSetId only gives an empty first packet.            *)

Init ==
  \E first \in 0..(IF N < FetchSize THEN N ELSE FetchSize) :
  \E attrs \in PacketAttributes(first) :
    /\ rsAlive = TRUE /\ psAlive \in BOOLEAN /\ userRows = {}
    /\ rowIter = <<>> /\ nextRows = RowsFromTo(1, first)
    /\ rscore = TRUE /\ attributes = attrs
    /\ op = "none" /\ phase = "idle" /\ attempt = 1
    /\ dropping = <<>>
    /\ hasLobs \in BOOLEAN
    /\ cursor = (IF attrs.closed THEN "closed" ELSE "open")
    /\ stmt = (IF psAlive THEN "open" ELSE "none")
    /\ pos = first /\ skipped = FALSE /\ reply = NoReply /\ broken = FALSE /\ faults = 0
    /\ delivered = <<>> /\ failed = FALSE /\ result = Result("none", 0)

-----------------------------------------------------------------------------
(* Drops.                                                                  *)

\* Bug variant: the LOB handles have no reference to the ResultSetCore.
CoreAlive_StateOnly(inState, rows) == inState

\* The ResultSetCore lives as long as RsState or a row with a LOB refers to it.
CoreAlive(inState, rows) == inState \/ (hasLobs /\ rows # {})

CoreIsAlive == CoreAlive(rscore, userRows \cup BufferedRows)

\* Bug variant: a complete result set needs no message.
DropRequests_LastPacketIsEnough(closed, lastOwner) ==
  (IF closed \/ attributes.last THEN <<>> ELSE <<"CloseResultSet">>) \o
  (IF lastOwner THEN <<"DropStatementId">> ELSE <<>>)

\* ResultSetCore::drop closes the cursor; then its fields are dropped, and
\* the reference to the prepared statement may have been the last one.
DropRequests(closed, lastOwner) ==
  (IF closed THEN <<>> ELSE <<"CloseResultSet">>) \o
  (IF lastOwner THEN <<"DropStatementId">> ELSE <<>>)

\* The requests that are due when RsState refers to the core, or not, and
\* these rows are alive.
AfterDrop(inState, rows, attrs) ==
  dropping' = IF CoreIsAlive /\ ~CoreAlive(inState, rows)
              THEN dropping \o DropRequests(attrs.closed, stmt # "none" /\ ~psAlive)
              ELSE dropping

Free == dropping = <<>> /\ op = "none"

\* The ResultSet goes out of scope.
DropResultSet ==
  /\ rsAlive /\ Free
  /\ rsAlive' = FALSE /\ rscore' = FALSE
  /\ rowIter' = <<>> /\ nextRows' = <<>>
  /\ AfterDrop(FALSE, userRows, attributes)
  /\ UNCHANGED <<psAlive, userRows, attributes, opVars, server, wire, history>>

\* The user drops a row, or the LOB handle taken from it.
DropRow(r) ==
  /\ Free
  /\ userRows' = userRows \ {r}
  /\ AfterDrop(rscore, userRows' \cup BufferedRows, attributes)
  /\ UNCHANGED <<rsAlive, psAlive, rsState, opVars, server, wire, history>>

\* The PreparedStatement goes out of scope.
DropPreparedStatement ==
  /\ psAlive /\ Free
  /\ psAlive' = FALSE
  /\ dropping' = IF CoreIsAlive THEN dropping ELSE dropping \o <<"DropStatementId">>
  /\ UNCHANGED <<rsAlive, userRows, rsState, opVars, server, wire, history>>

\* A request of a drop is sent; whatever comes back is ignored.  Over a broken
\* connection nothing arrives.
SendDropRequest ==
  /\ dropping # <<>>
  /\ dropping' = Tail(dropping)
  /\ cursor' = IF Head(dropping) = "CloseResultSet" /\ cursor = "open" /\ ~broken
               THEN "released" ELSE cursor
  /\ stmt' = IF Head(dropping) = "DropStatementId" /\ ~broken THEN "dropped" ELSE stmt
  /\ UNCHANGED <<handles, rsState, opVars, hasLobs, pos, skipped, wire, history>>

-----------------------------------------------------------------------------
(* next_row and total_number_of_rows.                                      *)

\* is_complete(): true, or an error if the server closed the cursor too early.
IsComplete == ~rscore \/ attributes.last
IsInconsistent == rscore /\ ~attributes.last /\ attributes.closed

\* The call returns r.
Return(r) ==
  /\ result' = r /\ op' = "none" /\ phase' = "idle" /\ attempt' = 1
  /\ failed' = (failed \/ r.kind \in {"err", "usage"})

ReturnRow(r) ==
  /\ delivered' = Append(delivered, r)
  /\ userRows' = userRows \cup {r}
  /\ Return(Result("row", r))

NextRowBuffered ==
  /\ rsAlive /\ Free
  /\ rowIter # <<>>
  /\ ReturnRow(Head(rowIter)) /\ rowIter' = Tail(rowIter)
  /\ UNCHANGED <<rsAlive, psAlive, nextRows, rscore, attributes, dropping, server, wire>>

\* Bug variant: the packet stays in next_rows.
RowsAfterSwap_NotTaken == nextRows

\* mem::swap leaves an empty next_rows.
RowsAfterSwap == <<>>

\* row_iter is replaced by the rows fetched so far; None if there are none.
SwapAndReturn ==
  /\ nextRows' = RowsAfterSwap
  /\ \/ /\ nextRows # <<>>
        /\ ReturnRow(Head(nextRows)) /\ rowIter' = Tail(nextRows)
     \/ /\ nextRows = <<>>
        /\ Return(Result("end", 0)) /\ UNCHANGED <<delivered, userRows, rowIter>>
  /\ UNCHANGED <<rsAlive, psAlive, rscore, attributes, dropping, server, wire>>

NextRowSwap ==
  /\ rsAlive /\ Free
  /\ rowIter = <<>> /\ (nextRows # <<>> \/ IsComplete)
  /\ SwapAndReturn

NextRowFetch ==
  /\ rsAlive /\ Free
  /\ rowIter = <<>> /\ nextRows = <<>> /\ ~IsComplete /\ ~IsInconsistent
  /\ op' = "next_row" /\ phase' = "send"
  /\ UNCHANGED <<handles, rsState, attempt, dropping, server, wire, history>>

\* The rest of next_row after its fetch.
NextRowFetched ==
  /\ op = "next_row" /\ phase = "fetched" /\ dropping = <<>>
  /\ SwapAndReturn

\* total_number_of_rows and fetch_all fetch until the result set is complete.
TotalStart ==
  /\ rsAlive /\ Free
  /\ op' = "total" /\ phase' = "fetched"
  /\ UNCHANGED <<handles, rsState, attempt, dropping, server, wire, history>>

TotalFetch ==
  /\ op = "total" /\ phase = "fetched" /\ dropping = <<>>
  /\ ~IsComplete /\ ~IsInconsistent
  /\ phase' = "send" /\ attempt' = 1
  /\ UNCHANGED <<handles, rsState, op, dropping, server, wire, history>>

\* Bug variant: the rows of the packet in use are not counted.
RowCount_NextRowsOnly == Len(nextRows)

\* RsState::len()
RowCount == Len(nextRows) + Len(rowIter)

TotalReturn ==
  /\ op = "total" /\ phase = "fetched" /\ dropping = <<>>
  /\ IsComplete
  /\ Return(Result("total", RowCount))
  /\ UNCHANGED <<handles, rsState, dropping, server, wire, delivered>>

\* is_complete() gives an error in next_row or in fetch_all.
ReturnInconsistent ==
  /\ IsInconsistent /\ dropping = <<>>
  /\ \/ rsAlive /\ op = "none" /\ rowIter = <<>> /\ nextRows = <<>>
     \/ op = "total" /\ phase = "fetched"
  /\ Return(Result("err", 0))
  /\ UNCHANGED <<handles, rsState, dropping, server, wire, delivered>>

\* has_multiple_rows()
HasMultipleRows == ~IsComplete \/ RowCount > 1

\* into_single_row consumes the result set.
IntoSingleRow ==
  /\ rsAlive /\ Free
  /\ rsAlive' = FALSE /\ rscore' = FALSE
  /\ rowIter' = <<>> /\ nextRows' = <<>>
  /\ \/ /\ HasMultipleRows
        /\ Return(Result("usage", 2)) /\ UNCHANGED <<delivered, userRows>>
     \/ /\ ~HasMultipleRows /\ RowCount = 0
        /\ Return(Result("usage", 0)) /\ UNCHANGED <<delivered, userRows>>
     \/ /\ ~HasMultipleRows /\ RowCount = 1
        /\ ReturnRow((rowIter \o nextRows)[1])
  /\ AfterDrop(FALSE, userRows', attributes)
  /\ UNCHANGED <<psAlive, attributes, server, wire>>

-----------------------------------------------------------------------------
(* fetch_next: one roundtrip of full_send_sync, see AmConnCore.            *)

SendFetch ==
  /\ phase = "send" /\ ~broken
  /\ phase' = "await"
  /\ UNCHANGED <<handles, rsState, op, attempt, dropping, server, wire, history>>

SendFetchFails ==
  /\ phase = "send" /\ broken
  /\ Return(Result("err", 0))
  /\ UNCHANGED <<handles, rsState, dropping, server, wire, delivered>>

\* The server answers (external): with an error if it has no open cursor.
SrvSendError ==
  /\ phase = "await" /\ reply = NoReply
  /\ \/ cursor # "open" /\ UNCHANGED faults
     \/ cursor = "open" /\ "error" \in Faults /\ faults < MaxFaults /\ faults' = faults + 1
  /\ reply' = [NoReply EXCEPT !.kind = "error"]
  /\ UNCHANGED <<handles, rsState, opVars, dropping, server, broken, history>>

\* With the next rows, at least one if there is one.
SrvSendPacket ==
  /\ phase = "await" /\ reply = NoReply /\ cursor = "open"
  /\ \E end \in pos..N, attrs \in [last : BOOLEAN, closed : BOOLEAN] :
       /\ end - pos <= FetchSize
       /\ end = pos => attrs.last
       /\ \/ attrs \in PacketAttributes(end) /\ UNCHANGED faults
          \/ /\ "closed" \in Faults /\ faults < MaxFaults
             /\ attrs = Attr(FALSE, TRUE) /\ faults' = faults + 1
       /\ reply' = [kind |-> "rows", rows |-> RowsFromTo(pos + 1, end), attributes |-> attrs]
       /\ pos' = end
       /\ cursor' = IF attrs.closed THEN "closed" ELSE cursor
  /\ UNCHANGED <<handles, rsState, opVars, dropping, hasLobs, stmt, skipped, broken, history>>

\* Bug variant: the rows of a former packet are replaced.
NextRowsWith_Replaced(rows) == rows

\* parse_rows appends row by row, and keeps what it has appended when it fails.
NextRowsWith(rows) == nextRows \o rows

\* Bug variant: the attributes of the first packet are kept.
AttributesOf_Former(r) == attributes

\* ResultSet::parse stores the attributes of the packet.
AttributesOf(r) == r.attributes

\* The reply is read completely.  After the last packet RsState gives up the
\* ResultSetCore.
ReadPacket ==
  /\ phase = "await" /\ reply.kind = "rows"
  /\ reply' = NoReply
  /\ attributes' = AttributesOf(reply)
  /\ nextRows' = NextRowsWith(reply.rows)
  /\ rscore' = ~attributes'.last
  /\ phase' = "fetched"
  /\ AfterDrop(rscore', userRows \cup BufferedRows \cup RowsOf(reply.rows), attributes')
  /\ UNCHANGED <<handles, rowIter, op, attempt, server, broken, faults, history>>

\* The server reports an error.
ReadError ==
  /\ phase = "await" /\ reply.kind = "error"
  /\ reply' = NoReply
  /\ Return(Result("err", 0))
  /\ UNCHANGED <<handles, rsState, dropping, server, broken, faults, delivered>>

\* full_send_sync repeats a request once.
CanRepeat == attempt = 1

\* The roundtrip ends with this fault: a connection reset leads to a
\* repetition over a new connection, everything else to an error.
Breaks(fault) ==
  /\ fault \in Faults /\ faults < MaxFaults /\ faults' = faults + 1
  /\ reply' = NoReply
  /\ LET reset == fault \in {"lostRequest", "lostReply"} IN
     /\ broken' = (broken \/ ~reset)
     /\ \/ reset /\ CanRepeat /\ phase' = "reconnect" /\ UNCHANGED <<op, attempt, failed, result>>
        \/ ~(reset /\ CanRepeat) /\ Return(Result("err", 0))

\* The reply ends, or is not understood, after some of its rows: the
\* attributes are already stored, the rows already appended.
ReadBreaks(fault) ==
  /\ fault \in {"lostReply", "eof", "garbage"} /\ Breaks(fault)
  /\ phase = "await" /\ reply.kind = "rows"
  /\ \E i \in 0..Len(reply.rows) : nextRows' = NextRowsWith(SubSeq(reply.rows, 1, i))
  /\ attributes' = AttributesOf(reply)
  /\ UNCHANGED <<handles, rowIter, rscore, dropping, server, delivered>>

\* The same before anything of the result set was read, or before the server
\* saw the request.
FetchBreaks(fault) ==
  /\ fault \in {"lostRequest", "lostReply", "eof", "garbage"} /\ Breaks(fault)
  /\ phase = "await" /\ (fault = "lostRequest" <=> reply = NoReply)
  /\ UNCHANGED <<handles, rsState, dropping, server, delivered>>

\* The server may close the cursors of the former connection.  If it does not,
\* the rows of a lost reply are skipped.
Reconnect ==
  /\ phase = "reconnect"
  /\ phase' = "send" /\ attempt' = 2
  /\ cursor' \in (IF cursor = "open" THEN {"open", "lost"} ELSE {cursor})
  /\ skipped' = (skipped \/ (cursor' = "open" /\ Len(AllRows) < pos))
  /\ UNCHANGED <<handles, rsState, op, dropping, hasLobs, stmt, pos, wire, history>>

-----------------------------------------------------------------------------
CallStep ==
  \/ SendFetch \/ SendFetchFails \/ SrvSendError \/ SrvSendPacket
  \/ ReadPacket \/ ReadError \/ Reconnect
  \/ NextRowFetched \/ TotalFetch \/ TotalReturn \/ ReturnInconsistent
  \/ SendDropRequest

UserStep ==
  \/ NextRowBuffered \/ NextRowSwap \/ NextRowFetch \/ TotalStart \/ IntoSingleRow
  \/ DropResultSet \/ DropPreparedStatement
  \/ \E r \in userRows : DropRow(r)

FaultStep ==
  \E fault \in Faults : ReadBreaks(fault) \/ FetchBreaks(fault)

Next == CallStep \/ UserStep \/ FaultStep

Spec == Init /\ [][Next]_vars

\* A call that was started goes on, and the server answers.
FairSpec == Spec /\ WF_vars(CallStep)

-----------------------------------------------------------------------------
(* Properties.                                                             *)

Increasing(q) == \A i, j \in DOMAIN q : i < j => q[i] < q[j]
NoTrouble == ~failed /\ ~skipped
HandlesGone == ~CoreIsAlive /\ dropping = <<>> /\ ~broken

\* Rows are buffered and handed out once and in the order of the query, also
\* when a packet was parsed in part before its fetch failed or was repeated
\* (parse_rows appends to next_rows row by row).
NoRowTwice == rsAlive => Increasing(AllRows)

\* As long as nothing failed or was skipped, no row is missing between those
\* handed out, those buffered and those the server has still to send, and
\* next_row returns None only when every row was handed out.
NoRowMissing ==
  NoTrouble => /\ op = "none" /\ rsAlive => AllRows = RowsFromTo(1, pos)
               /\ result.kind = "end" => Len(delivered) = N

\* As long as nothing failed or was skipped, total_number_of_rows is the number of rows
\* of the query without those already handed out.
TotalIsRight ==
  [][NoTrouble /\ op = "total" /\ op' = "none" /\ result'.kind = "total"
     => result'.value = N - Len(delivered)]_vars

\* In whatever order the user drops the statement, the result set and the rows:
\* the statement is not dropped on the server while a cursor of it is open
\* (ResultSetCore has a reference to it), CloseResultSet is sent when the last
\* row with a LOB is gone, not when the ResultSet is (a LOB handle keeps the
\* cursor it reads from), and when the handles are gone, so are the cursor and
\* the statement, after failed and repeated fetches as well.
ReleasedInOrder ==
  /\ stmt = "dropped" => cursor # "open"
  /\ hasLobs /\ (userRows \cup BufferedRows) # {} => cursor # "released"
  /\ HandlesGone => cursor # "open" /\ (~psAlive => stmt # "open")

\* total_number_of_rows and next_row come to an end.
CallsEnd == (op # "none") ~> (op = "none")

-----------------------------------------------------------------------------
(* The inductive invariant behind the safety properties.                   *)

AttributesType == [last : BOOLEAN, closed : BOOLEAN]
ReplyType == [kind : {"none", "rows", "error"}, rows : Seq(Nat), attributes : AttributesType]
ResultType == [kind : {"none", "row", "end", "total", "err", "usage"}, value : Nat]

Drops == {<<>>, <<"CloseResultSet">>, <<"DropStatementId">>,
          <<"CloseResultSet", "DropStatementId">>}

HandleTypes == rsAlive \in BOOLEAN /\ psAlive \in BOOLEAN /\ userRows \subseteq Nat

StateTypes ==
  /\ rowIter \in Seq(Nat) /\ nextRows \in Seq(Nat)
  /\ rscore \in BOOLEAN /\ attributes \in AttributesType

OpTypes ==
  /\ op \in {"none", "next_row", "total"}
  /\ phase \in {"idle", "fetched", "send", "await", "reconnect"} /\ attempt \in 1..2

ServerTypes ==
  /\ hasLobs \in BOOLEAN /\ cursor \in {"open", "closed", "released", "lost"}
  /\ stmt \in {"none", "open", "dropped"} /\ pos \in 0..N /\ skipped \in BOOLEAN

WireTypes == reply \in ReplyType /\ broken \in BOOLEAN /\ faults \in Nat
HistoryTypes == delivered \in Seq(Nat) /\ failed \in BOOLEAN /\ result \in ResultType

\* The types of all variables.
TypeOK ==
  /\ HandleTypes /\ StateTypes /\ OpTypes /\ dropping \in Drops
  /\ ServerTypes /\ WireTypes /\ HistoryTypes

\* The rows of the reply under way follow those that were parsed before.
Coming == AllRows \o reply.rows

\* What a fetch may rely on.
CallInv ==
  /\ op = "none" <=> phase = "idle"
  /\ op # "none" => rsAlive
  /\ phase \in {"send", "await", "reconnect"} => rscore
  /\ op = "next_row" => rowIter = <<>>
  /\ op = "next_row" /\ phase = "fetched" /\ nextRows = <<>> => attributes.last
  /\ ~rsAlive => ~rscore /\ rowIter = <<>> /\ nextRows = <<>>
  /\ phase # "await" => reply = NoReply

\* The attributes of a packet tell the end of the rows and the end of the cursor.
AttributesInv ==
  /\ attributes.last => pos = N
  /\ attributes.closed => cursor # "open"
  /\ rsAlive /\ ~rscore => attributes.last
  /\ reply.kind # "rows" => reply.rows = <<>>
  /\ reply.kind = "rows" => /\ reply.attributes.last => pos = N
                            /\ reply.attributes.closed => cursor # "open"
                            /\ reply.rows = <<>> => reply.attributes.last

\* No row is parsed a second time.
OrderInv ==
  /\ Increasing(Coming)
  /\ \A i \in DOMAIN Coming : Coming[i] \in 1..pos

\* The position of the server is that of the rows which arrived, if the next
\* fetch can succeed.
Synchronous ==
  \/ phase \in {"idle", "fetched"}
  \/ phase = "send" /\ cursor = "open"
  \/ phase = "await" /\ (cursor = "open" \/ reply.kind = "rows")

\* No row is left out.
CompleteInv ==
  NoTrouble =>
    /\ \A i \in DOMAIN Coming : Coming[i] = i
    /\ rsAlive /\ Synchronous => Len(Coming) = pos
    /\ result.kind = "end" => Len(delivered) = N

Due(request) == \E i \in DOMAIN dropping : dropping[i] = request

\* What the handles keep alive on the server, and what is released without them.
ReleaseInv ==
  /\ Due("CloseResultSet") => ~CoreIsAlive
  /\ Due("DropStatementId") => ~CoreIsAlive /\ ~psAlive
  /\ cursor = "open" /\ ~broken => CoreIsAlive \/ Due("CloseResultSet")
  /\ stmt = "open" /\ ~broken => CoreIsAlive \/ psAlive \/ Due("DropStatementId")
  /\ cursor = "released" => ~CoreIsAlive
  /\ stmt = "dropped" => cursor # "open"

IInv == TypeOK /\ CallInv /\ AttributesInv /\ OrderInv /\ CompleteInv /\ ReleaseInv

=============================================================================
