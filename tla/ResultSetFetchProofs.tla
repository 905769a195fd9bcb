------------------------ MODULE ResultSetFetchProofs ------------------------
(***************************************************************************)
(* The inductive invariant of ResultSetFetch, and the safety properties    *)
(* that follow from it: rows are handed out once, in their order and       *)
(* without a gap, total_number_of_rows counts them, and the server's       *)
(* cursor and statement are released in time.                              *)
(***************************************************************************)
EXTENDS ResultSetFetch, SequenceTheorems, TLAPS

-----------------------------------------------------------------------------
(* Lemmas about rows.                                                      *)

\* A packet holds consecutive rows.
LEMMA PacketOfRows ==
  ASSUME NEW from \in Nat, NEW to \in Nat, from <= to + 1
  PROVE  /\ RowsFromTo(from, to) \in Seq(Nat)
         /\ Len(RowsFromTo(from, to)) = to - from + 1
         /\ \A i \in 1..(to - from + 1) : RowsFromTo(from, to)[i] = from + i - 1
<1> DEFINE n == to - from + 1
<1>1. n \in Nat
  OBVIOUS
<1>2. RowsFromTo(from, to) \in [1..n -> Nat]
  BY <1>1 DEF RowsFromTo
<1>3. RowsFromTo(from, to) \in Seq(Nat)
  BY <1>1, <1>2, SeqDef
<1>4. DOMAIN RowsFromTo(from, to) = 1..n
  BY <1>2
<1>5. Len(RowsFromTo(from, to)) = n
  BY <1>1, <1>3, <1>4, LenProperties
<1> QED
  BY <1>3, <1>5 DEF RowsFromTo

\* The rows of two sequences.
LEMMA RowsOfBoth ==
  ASSUME NEW a \in Seq(Nat), NEW b \in Seq(Nat)
  PROVE  RowsOf(a \o b) = RowsOf(a) \cup RowsOf(b)
<1>1. /\ a \o b \in Seq(Nat) /\ DOMAIN (a \o b) = 1..(Len(a) + Len(b))
      /\ DOMAIN a = 1..Len(a) /\ DOMAIN b = 1..Len(b) /\ Len(a) \in Nat /\ Len(b) \in Nat
  BY ConcatProperties, LenProperties
<1>2. ASSUME NEW i \in DOMAIN (a \o b) PROVE (a \o b)[i] \in RowsOf(a) \cup RowsOf(b)
  <2>1. CASE i <= Len(a)
    BY <1>1, <2>1, ConcatProperties DEF RowsOf
  <2>2. CASE i > Len(a)
    <3>1. (a \o b)[i] = b[i - Len(a)] /\ i - Len(a) \in DOMAIN b
      BY <1>1, <2>2, ConcatProperties
    <3> QED
      BY <3>1 DEF RowsOf
  <2> QED
    BY <1>1, <2>1, <2>2
<1>3. ASSUME NEW i \in DOMAIN a PROVE a[i] \in RowsOf(a \o b)
  <2>1. i \in DOMAIN (a \o b) /\ (a \o b)[i] = a[i]
    BY <1>1, ConcatProperties
  <2> QED
    BY <2>1 DEF RowsOf
<1>4. ASSUME NEW i \in DOMAIN b PROVE b[i] \in RowsOf(a \o b)
  <2>1. Len(a) + i \in DOMAIN (a \o b) /\ (a \o b)[Len(a) + i] = b[i]
    BY <1>1, ConcatProperties
  <2> QED
    BY <2>1 DEF RowsOf
<1> QED
  BY <1>2, <1>3, <1>4 DEF RowsOf

\* The first row and the others.
LEMMA RowsOfHead ==
  ASSUME NEW q \in Seq(Nat), q # <<>>
  PROVE  RowsOf(q) = {Head(q)} \cup RowsOf(Tail(q))
<1>1. /\ Head(q) = q[1] /\ 1 \in DOMAIN q
      /\ \A i \in DOMAIN Tail(q) : i + 1 \in DOMAIN q /\ Tail(q)[i] = q[i + 1]
  OBVIOUS
<1>2. ASSUME NEW i \in DOMAIN q, i # 1
      PROVE  i - 1 \in DOMAIN Tail(q) /\ Tail(q)[i - 1] = q[i]
  BY <1>2, HeadTailProperties, LenProperties
<1>3. ASSUME NEW i \in DOMAIN q PROVE q[i] \in {Head(q)} \cup RowsOf(Tail(q))
  BY <1>1, <1>2 DEF RowsOf
<1>4. ASSUME NEW i \in DOMAIN Tail(q) PROVE Tail(q)[i] \in RowsOf(q)
  BY <1>1 DEF RowsOf
<1> QED
  BY <1>1, <1>3, <1>4 DEF RowsOf

\* No rows.
LEMMA NoRows == RowsOf(<<>>) = {}
BY DEF RowsOf

\* To hand out the first row moves it from one sequence to the other.
LEMMA HandOver ==
  ASSUME NEW a \in Seq(Nat), NEW b \in Seq(Nat), b # <<>>
  PROVE  /\ Append(a, Head(b)) \o Tail(b) = a \o b
         /\ Append(a, Head(b)) \in Seq(Nat) /\ Tail(b) \in Seq(Nat) /\ Head(b) \in Nat
<1>1. Head(b) \in Nat /\ Tail(b) \in Seq(Nat) /\ Len(Tail(b)) = Len(b) - 1
      /\ \A i \in 1..Len(Tail(b)) : Tail(b)[i] = b[i + 1]
  BY HeadTailProperties
<1>2. Append(a, Head(b)) \in Seq(Nat) /\ Len(Append(a, Head(b))) = Len(a) + 1
  BY <1>1, AppendProperties
<1>3. Len(a) \in Nat /\ Len(b) \in Nat \ {0} /\ Head(b) = b[1]
  BY LenProperties, EmptySeq
<1> DEFINE l == Append(a, Head(b)) \o Tail(b)
           r == a \o b
<1>4. l \in Seq(Nat) /\ Len(l) = Len(a) + Len(b)
  BY <1>1, <1>2, <1>3, ConcatProperties
<1>5. r \in Seq(Nat) /\ Len(r) = Len(a) + Len(b)
  BY ConcatProperties
<1>6. ASSUME NEW i \in 1..(Len(a) + Len(b)) PROVE l[i] = r[i]
  <2>1. l[i] = IF i <= Len(a) + 1 THEN Append(a, Head(b))[i] ELSE Tail(b)[i - (Len(a) + 1)]
    BY <1>1, <1>2, <1>3, ConcatProperties
  <2>2. r[i] = IF i <= Len(a) THEN a[i] ELSE b[i - Len(a)]
    BY ConcatProperties
  <2>3. CASE i <= Len(a)
    BY <1>1, <1>3, <2>1, <2>2, <2>3, AppendProperties
  <2>4. CASE i = Len(a) + 1
    BY <1>1, <1>3, <2>1, <2>2, <2>4, AppendProperties
  <2>5. CASE i > Len(a) + 1
    <3>1. i - (Len(a) + 1) \in 1..Len(Tail(b)) /\ i - (Len(a) + 1) + 1 = i - Len(a)
      BY <1>1, <1>3, <2>5
    <3> QED
      BY <1>1, <1>3, <2>1, <2>2, <2>5, <3>1
  <2> QED
    BY <1>3, <2>3, <2>4, <2>5
<1> HIDE DEF l, r
<1>7. l = r
  BY <1>4, <1>5, <1>6, SeqEqual
<1> QED
  BY <1>1, <1>2, <1>7 DEF l, r

-----------------------------------------------------------------------------
(* What drops send.                                                        *)

\* A concatenation that begins with nothing.
LEMMA EmptyBefore ==
  /\ <<>> \o <<>> = <<>>
  /\ <<>> \o (<<>> \o <<>>) = <<>>
  /\ <<>> \o (<<>> \o <<"DropStatementId">>) = <<"DropStatementId">>
  /\ <<>> \o <<"CloseResultSet">> = <<"CloseResultSet">>
  /\ <<>> \o <<"CloseResultSet", "DropStatementId">>
       = <<"CloseResultSet", "DropStatementId">>
OBVIOUS

\* A request follows another one.
LEMMA TwoRequests ==
  <<"CloseResultSet">> \o <<"DropStatementId">> = <<"CloseResultSet", "DropStatementId">>
<1> DEFINE S == {"CloseResultSet", "DropStatementId"}
           c == <<"CloseResultSet">>
           d == <<"DropStatementId">>
           l == c \o d
           r == <<"CloseResultSet", "DropStatementId">>
<1>1. c \in Seq(S) /\ d \in Seq(S) /\ r \in Seq(S) /\ Len(c) = 1 /\ Len(d) = 1 /\ Len(r) = 2
      /\ c[1] = "CloseResultSet" /\ d[1] = "DropStatementId"
      /\ r[1] = "CloseResultSet" /\ r[2] = "DropStatementId"
  OBVIOUS
<1> HIDE DEF c, d, r
<1>2. l \in Seq(S) /\ Len(l) = 2 /\ \A i \in 1..2 : l[i] = IF i <= 1 THEN c[i] ELSE d[i - 1]
  BY <1>1, ConcatProperties
<1> HIDE DEF l
<1>3. \A i \in 1..2 : l[i] = r[i]
  <2>1. l[1] = r[1]
    BY <1>1, <1>2
  <2>2. l[2] = r[2]
    BY <1>1, <1>2
  <2> QED
    BY <2>1, <2>2
<1>4. l = r
  BY <1>1, <1>2, <1>3, SeqEqual
<1> QED
  BY <1>4 DEF l, r, c, d

\* ResultSetCore::drop closes the cursor first, then the statement may be dropped.
LEMMA DropRequestsAre ==
  ASSUME NEW closed \in BOOLEAN, NEW lastOwner \in BOOLEAN
  PROVE  <<>> \o DropRequests(closed, lastOwner) =
           IF closed THEN IF lastOwner THEN <<"DropStatementId">> ELSE <<>>
           ELSE IF lastOwner THEN <<"CloseResultSet", "DropStatementId">>
                ELSE <<"CloseResultSet">>
<1>1. CASE closed /\ lastOwner
  BY <1>1, EmptyBefore DEF DropRequests
<1>2. CASE closed /\ ~lastOwner
  BY <1>2, EmptyBefore DEF DropRequests
<1>3. CASE ~closed /\ lastOwner
  <2>1. <<"CloseResultSet">> \o <<"DropStatementId">> = <<"CloseResultSet", "DropStatementId">>
    BY TwoRequests
  <2> QED
    BY <1>3, <2>1, EmptyBefore DEF DropRequests
<1>4. CASE ~closed /\ ~lastOwner
  <2>1. <<"CloseResultSet">> \o <<>> = <<"CloseResultSet">>
    OBVIOUS
  <2> QED
    BY <1>4, <2>1, EmptyBefore DEF DropRequests
<1> QED
  BY <1>1, <1>2, <1>3, <1>4

\* Which requests are due.
LEMMA DueIs ==
  /\ dropping = <<>> => ~Due("CloseResultSet") /\ ~Due("DropStatementId")
  /\ dropping = <<"CloseResultSet">> => Due("CloseResultSet") /\ ~Due("DropStatementId")
  /\ dropping = <<"DropStatementId">> => ~Due("CloseResultSet") /\ Due("DropStatementId")
  /\ dropping = <<"CloseResultSet", "DropStatementId">>
       => Due("CloseResultSet") /\ Due("DropStatementId")
BY DEF Due

\* The same after a step.
LEMMA DueWillBe ==
  /\ dropping' = <<>> => ~Due("CloseResultSet")' /\ ~Due("DropStatementId")'
  /\ dropping' = <<"CloseResultSet">> => Due("CloseResultSet")' /\ ~Due("DropStatementId")'
  /\ dropping' = <<"DropStatementId">> => ~Due("CloseResultSet")' /\ Due("DropStatementId")'
  /\ dropping' = <<"CloseResultSet", "DropStatementId">>
       => Due("CloseResultSet")' /\ Due("DropStatementId")'
BY DEF Due

\* The last reference to the ResultSetCore goes: what is due then.
LEMMA CoreDropped ==
  ASSUME TypeOK, ReleaseInv, NEW inState \in BOOLEAN, NEW rows, NEW attrs \in AttributesType,
         AfterDrop(inState, rows, attrs), CoreIsAlive, ~CoreAlive(inState, rows)
  PROVE  /\ dropping' \in Drops
         /\ Due("CloseResultSet")' <=> ~attrs.closed
         /\ Due("DropStatementId")' <=> stmt # "none" /\ ~psAlive
<1>1. dropping = <<>>
  BY DueIs DEF TypeOK, ReleaseInv, Drops
<1> DEFINE last == stmt # "none" /\ ~psAlive
<1>2. dropping' = <<>> \o DropRequests(attrs.closed, last)
  BY <1>1 DEF AfterDrop
<1>3. attrs.closed \in BOOLEAN /\ last \in BOOLEAN
  BY DEF AttributesType
<1> HIDE DEF last
<1>4. dropping' = IF attrs.closed THEN IF last THEN <<"DropStatementId">> ELSE <<>>
                  ELSE IF last THEN <<"CloseResultSet", "DropStatementId">>
                       ELSE <<"CloseResultSet">>
  BY <1>2, <1>3, DropRequestsAre
<1>5. dropping' \in Drops /\ (Due("CloseResultSet")' <=> ~attrs.closed)
      /\ (Due("DropStatementId")' <=> last)
  BY <1>3, <1>4, DueWillBe DEF Drops
<1> QED
  BY <1>5 DEF last

\* Another reference is left, or the core was already gone: nothing is due.
LEMMA CoreNotDropped ==
  ASSUME NEW inState, NEW rows, NEW attrs, AfterDrop(inState, rows, attrs),
         ~CoreIsAlive \/ CoreAlive(inState, rows)
  PROVE  dropping' = dropping
BY DEF AfterDrop

\* In both cases the requests are those of one drop.
LEMMA DropsTyped ==
  ASSUME TypeOK, ReleaseInv, NEW inState \in BOOLEAN, NEW rows, NEW attrs \in AttributesType,
         AfterDrop(inState, rows, attrs)
  PROVE  dropping' \in Drops
<1>1. dropping \in Drops
  BY DEF TypeOK, Drops
<1> QED
  BY <1>1, CoreDropped, CoreNotDropped

-----------------------------------------------------------------------------
(* Types.                                                                  *)

\* The sizes of packets are natural numbers.
LEMMA Bounds == N \in Nat /\ FetchSize \in Nat /\ MaxFaults \in Nat
BY ConstantsAssumption

\* The attributes of a packet.
LEMMA PacketAttributesTyped ==
  ASSUME NEW end, NEW attrs \in PacketAttributes(end)
  PROVE  attrs \in AttributesType /\ (attrs.last => end = N)
<1>1. attrs = Attr(FALSE, FALSE) \/ (end = N /\ attrs \in {Attr(TRUE, FALSE), Attr(TRUE, TRUE)})
  BY DEF PacketAttributes
<1>2. \A last, closed \in BOOLEAN : Attr(last, closed) \in AttributesType
  BY DEF Attr, AttributesType
<1>3. attrs \in AttributesType
  BY <1>1, <1>2
<1>4. ~Attr(FALSE, FALSE).last
  BY DEF Attr
<1> QED
  BY <1>1, <1>3, <1>4

\* Init builds a typed ResultSet.
LEMMA TypeInit == Init => TypeOK
<1> SUFFICES ASSUME Init PROVE TypeOK
  OBVIOUS
<1>1. PICK first \in 0..(IF N < FetchSize THEN N ELSE FetchSize) :
        \E attrs \in PacketAttributes(first) :
           /\ nextRows = RowsFromTo(1, first) /\ attributes = attrs /\ pos = first
           /\ cursor = (IF attrs.closed THEN "closed" ELSE "open")
  BY DEF Init
<1>2. PICK attrs \in PacketAttributes(first) :
        /\ nextRows = RowsFromTo(1, first) /\ attributes = attrs /\ pos = first
        /\ cursor = (IF attrs.closed THEN "closed" ELSE "open")
  BY <1>1
<1>3. first \in 0..N /\ first \in Nat
  BY Bounds
<1>4. StateTypes
  <2>1. nextRows \in Seq(Nat) /\ <<>> \in Seq(Nat)
    BY <1>2, <1>3, PacketOfRows, EmptySeq
  <2>2. attributes \in AttributesType
    BY <1>2, PacketAttributesTyped
  <2>3. rowIter = <<>> /\ rscore = TRUE
    BY DEF Init
  <2> QED
    BY <2>1, <2>2, <2>3 DEF StateTypes
<1>5. ServerTypes
  <2>1. cursor \in {"open", "closed"} /\ pos \in 0..N
    BY <1>2, <1>3
  <2>2. hasLobs \in BOOLEAN /\ stmt \in {"none", "open"} /\ skipped = FALSE
    BY DEF Init
  <2> QED
    BY <2>1, <2>2 DEF ServerTypes
<1>6. WireTypes
  <2>1. reply = NoReply /\ broken = FALSE /\ faults = 0
    BY DEF Init
  <2> QED
    BY <2>1, EmptySeq DEF NoReply, Attr, ReplyType, AttributesType, WireTypes
<1>7. HistoryTypes
  <2>1. delivered = <<>> /\ failed = FALSE /\ result = Result("none", 0)
    BY DEF Init
  <2> QED
    BY <2>1, EmptySeq DEF Result, ResultType, HistoryTypes
<1>8. HandleTypes /\ OpTypes /\ dropping \in Drops
  BY DEF Init, HandleTypes, OpTypes, Drops
<1> QED
  BY <1>4, <1>5, <1>6, <1>7, <1>8 DEF TypeOK

\* The end of a call.
LEMMA ReturnTypes ==
  ASSUME TypeOK, NEW r \in ResultType, Return(r)
  PROVE  /\ OpTypes' /\ result' \in ResultType /\ failed' \in BOOLEAN
         /\ op' = "none" /\ phase' = "idle"
<1>1. failed \in BOOLEAN
  BY DEF TypeOK, HistoryTypes
<1>2. failed' \in BOOLEAN
  BY <1>1 DEF Return
<1> QED
  BY <1>2 DEF Return, OpTypes

\* What a call can return.
LEMMA ResultsTyped ==
  /\ Result("err", 0) \in ResultType /\ Result("end", 0) \in ResultType
  /\ Result("usage", 0) \in ResultType /\ Result("usage", 2) \in ResultType
  /\ \A n \in Nat : Result("row", n) \in ResultType /\ Result("total", n) \in ResultType
BY DEF Result, ResultType

\* A call that returns a row.
LEMMA ReturnRowTypes ==
  ASSUME TypeOK, NEW r \in Nat, ReturnRow(r)
  PROVE  OpTypes' /\ HistoryTypes' /\ userRows' \subseteq Nat
<1>1. Return(Result("row", r)) /\ delivered' = Append(delivered, r)
      /\ userRows' = userRows \cup {r}
  BY DEF ReturnRow
<1>2. delivered' \in Seq(Nat) /\ userRows' \subseteq Nat
  BY <1>1, AppendProperties DEF TypeOK, HistoryTypes, HandleTypes
<1> QED
  BY <1>1, <1>2, ReturnTypes, ResultsTyped DEF HistoryTypes

\* A call that returns without a row.
LEMMA ReturnNoRowTypes ==
  ASSUME TypeOK, NEW r \in ResultType, Return(r), UNCHANGED delivered
  PROVE  OpTypes' /\ HistoryTypes'
BY ReturnTypes DEF TypeOK, HistoryTypes

\* The end of a fetch.
LEMMA SwapTypes ==
  ASSUME TypeOK, SwapAndReturn
  PROVE  TypeOK'
<1> USE DEF handles, rsState, opVars, server, wire, history
<1>1. nextRows' = <<>> /\ <<>> \in Seq(Nat)
  BY EmptySeq DEF SwapAndReturn, RowsAfterSwap
<1>2. /\ OpTypes' /\ HistoryTypes' /\ userRows' \subseteq Nat /\ rowIter' \in Seq(Nat)
  <2>1. CASE nextRows # <<>> /\ ReturnRow(Head(nextRows)) /\ rowIter' = Tail(nextRows)
    <3>1. Tail(nextRows) \in Seq(Nat) /\ Head(nextRows) \in Nat
      BY <2>1, HandOver DEF TypeOK, StateTypes, HistoryTypes
    <3> QED
      BY <2>1, <3>1, ReturnRowTypes
  <2>2. CASE Return(Result("end", 0)) /\ UNCHANGED <<delivered, userRows, rowIter>>
    BY <2>2, ReturnNoRowTypes, ResultsTyped DEF TypeOK, HandleTypes, StateTypes
  <2> QED
    BY <2>1, <2>2 DEF SwapAndReturn
<1>3. UNCHANGED <<rsAlive, psAlive, rscore, attributes, dropping, server, wire>>
  BY DEF SwapAndReturn
<1> QED
  BY <1>1, <1>2, <1>3 DEF TypeOK, HandleTypes, StateTypes, ServerTypes, WireTypes

\* The end of a roundtrip by a fault.
LEMMA BreaksTypes ==
  ASSUME TypeOK, NEW fault, Breaks(fault), UNCHANGED delivered
  PROVE  OpTypes' /\ WireTypes' /\ HistoryTypes'
<1>1. NoReply \in ReplyType
  BY EmptySeq DEF NoReply, Attr, ReplyType, AttributesType
<1>2. WireTypes'
  <2>1. broken' \in BOOLEAN
    BY DEF Breaks, TypeOK, WireTypes
  <2>2. reply' \in ReplyType /\ faults' \in Nat
    BY <1>1 DEF Breaks, TypeOK, WireTypes
  <2> QED
    BY <2>1, <2>2 DEF WireTypes
<1>3. CASE phase' = "reconnect" /\ UNCHANGED <<op, attempt, failed, result>>
  BY <1>2, <1>3 DEF TypeOK, OpTypes, HistoryTypes
<1>4. CASE Return(Result("err", 0))
  BY <1>2, <1>4, ReturnNoRowTypes, ResultsTyped
<1> QED
  BY <1>3, <1>4 DEF Breaks

\* What is left to send after the first request of a drop.
LEMMA TailsOfDrops ==
  /\ Tail(<<"CloseResultSet">>) = <<>> /\ Tail(<<"DropStatementId">>) = <<>>
  /\ Tail(<<"CloseResultSet", "DropStatementId">>) = <<"DropStatementId">>
OBVIOUS

\* Every step keeps the types.
LEMMA TypeStep ==
  ASSUME TypeOK, CallInv, ReleaseInv, [Next]_vars
  PROVE  TypeOK'
<1> USE DEF handles, rsState, opVars, server, wire, history
<1>0. NoReply \in ReplyType
  BY EmptySeq DEF NoReply, Attr, ReplyType, AttributesType
<1>1. CASE SendFetch
  BY <1>1 DEF SendFetch, TypeOK, HandleTypes, StateTypes, OpTypes, ServerTypes, WireTypes,
     HistoryTypes
<1>2. CASE SendFetchFails
  <2>1. Return(Result("err", 0)) /\ UNCHANGED delivered
    BY <1>2 DEF SendFetchFails
  <2>2. OpTypes' /\ HistoryTypes'
    BY <2>1, ReturnNoRowTypes, ResultsTyped
  <2> QED
    BY <1>0, <1>2, <2>2 DEF SendFetchFails, TypeOK, HandleTypes, StateTypes, ServerTypes, WireTypes
<1>3. CASE SrvSendError
  <2>1. reply' \in ReplyType
    BY <1>3, EmptySeq DEF SrvSendError, NoReply, Attr, ReplyType, AttributesType
  <2>2. faults' \in Nat
    BY <1>3 DEF SrvSendError, TypeOK, WireTypes
  <2> QED
    BY <1>3, <2>1, <2>2 DEF SrvSendError, TypeOK, HandleTypes, StateTypes, OpTypes, ServerTypes,
       WireTypes, HistoryTypes
<1>4. CASE SrvSendPacket
  <2>1. PICK end \in pos..N, attrs \in [last : BOOLEAN, closed : BOOLEAN] :
           /\ reply' = [kind |-> "rows", rows |-> RowsFromTo(pos + 1, end), attributes |-> attrs]
           /\ pos' = end /\ cursor' = (IF attrs.closed THEN "closed" ELSE cursor)
           /\ faults' = faults \/ faults' = faults + 1
    BY <1>4 DEF SrvSendPacket
  <2>2. pos \in Nat /\ pos <= N
    BY Bounds DEF TypeOK, ServerTypes
  <2>3. end \in Nat /\ end \in 0..N /\ pos + 1 <= end + 1
    BY <2>2, Bounds
  <2>4. RowsFromTo(pos + 1, end) \in Seq(Nat)
    BY <2>2, <2>3, PacketOfRows
  <2>5. WireTypes'
    BY <1>4, <2>1, <2>4 DEF SrvSendPacket, TypeOK, WireTypes, ReplyType, AttributesType
  <2>6. ServerTypes'
    BY <1>4, <2>1, <2>3 DEF SrvSendPacket, TypeOK, ServerTypes
  <2> QED
    BY <1>4, <2>5, <2>6 DEF SrvSendPacket, TypeOK, HandleTypes, StateTypes, OpTypes, HistoryTypes
<1>5. CASE ReadPacket
  <2>1. reply \in ReplyType /\ reply.rows \in Seq(Nat) /\ reply.attributes \in AttributesType
    BY DEF TypeOK, WireTypes, ReplyType
  <2>2. nextRows' \in Seq(Nat) /\ attributes' \in AttributesType
    BY <1>5, <2>1, ConcatProperties DEF ReadPacket, NextRowsWith, AttributesOf, TypeOK, StateTypes
  <2>3. rscore' \in BOOLEAN
    BY <1>5 DEF ReadPacket
  <2>4. dropping' \in Drops
    BY <1>5, <2>2, <2>3, DropsTyped DEF ReadPacket
  <2> QED
    BY <1>0, <1>5, <2>2, <2>3, <2>4 DEF ReadPacket, TypeOK, HandleTypes, StateTypes, OpTypes,
       ServerTypes, WireTypes, HistoryTypes
<1>6. CASE ReadError
  <2>1. Return(Result("err", 0)) /\ UNCHANGED delivered
    BY <1>6 DEF ReadError
  <2>2. OpTypes' /\ HistoryTypes'
    BY <2>1, ReturnNoRowTypes, ResultsTyped
  <2> QED
    BY <1>0, <1>6, <2>2 DEF ReadError, TypeOK, HandleTypes, StateTypes, ServerTypes, WireTypes
<1>7. CASE Reconnect
  <2>1. skipped' \in BOOLEAN
    BY <1>7 DEF Reconnect, TypeOK, ServerTypes
  <2>2. cursor' \in {"open", "closed", "released", "lost"}
    BY <1>7 DEF Reconnect, TypeOK, ServerTypes
  <2> QED
    BY <1>7, <2>1, <2>2 DEF Reconnect, TypeOK, HandleTypes, StateTypes, OpTypes, ServerTypes,
       WireTypes, HistoryTypes
<1>8. CASE NextRowFetched
  BY <1>8, SwapTypes DEF NextRowFetched
<1>9. CASE TotalFetch
  BY <1>9 DEF TotalFetch, IsComplete, IsInconsistent, TypeOK, HandleTypes, StateTypes,
     OpTypes, ServerTypes, WireTypes, HistoryTypes
<1>10. CASE TotalReturn
  <2>1. RowCount \in Nat
    BY LenProperties DEF RowCount, TypeOK, StateTypes
  <2>2. OpTypes' /\ HistoryTypes'
    BY <1>10, <2>1, ReturnNoRowTypes, ResultsTyped DEF TotalReturn
  <2> QED
    BY <1>10, <2>2 DEF TotalReturn, TypeOK, HandleTypes, StateTypes, ServerTypes, WireTypes
<1>11. CASE ReturnInconsistent
  <2>1. Return(Result("err", 0)) /\ UNCHANGED delivered
    BY <1>11 DEF ReturnInconsistent
  <2>2. OpTypes' /\ HistoryTypes'
    BY <2>1, ReturnNoRowTypes, ResultsTyped
  <2> QED
    BY <1>0, <1>11, <2>2 DEF ReturnInconsistent, TypeOK, HandleTypes, StateTypes, ServerTypes,
       WireTypes
<1>12. CASE SendDropRequest
  <2>1. dropping' \in Drops
    <3>1. dropping \in Drops /\ dropping # <<>> /\ dropping' = Tail(dropping)
      BY <1>12 DEF SendDropRequest, TypeOK
    <3>2. Tail(<<"CloseResultSet">>) = <<>> /\ Tail(<<"DropStatementId">>) = <<>>
          /\ Tail(<<"CloseResultSet", "DropStatementId">>) = <<"DropStatementId">>
      BY TailsOfDrops
    <3> QED
      BY <3>1, <3>2 DEF Drops
  <2>2. ServerTypes'
    BY <1>12 DEF SendDropRequest, TypeOK, ServerTypes
  <2> QED
    BY <1>12, <2>1, <2>2 DEF SendDropRequest, TypeOK, HandleTypes, StateTypes, OpTypes, WireTypes,
       HistoryTypes
<1>13. CASE NextRowBuffered
  <2>1. Tail(rowIter) \in Seq(Nat) /\ Head(rowIter) \in Nat
    BY <1>13, HandOver DEF NextRowBuffered, TypeOK, StateTypes, HistoryTypes
  <2>2. OpTypes' /\ HistoryTypes' /\ userRows' \subseteq Nat
    BY <1>13, <2>1, ReturnRowTypes DEF NextRowBuffered
  <2> QED
    BY <1>13, <2>1, <2>2 DEF NextRowBuffered, TypeOK, HandleTypes, StateTypes, ServerTypes,
       WireTypes
<1>14. CASE NextRowSwap
  BY <1>14, SwapTypes DEF NextRowSwap
<1>15. CASE NextRowFetch
  BY <1>15 DEF NextRowFetch, Free, IsComplete, IsInconsistent, TypeOK, HandleTypes,
     StateTypes, OpTypes, ServerTypes, WireTypes, HistoryTypes
<1>16. CASE TotalStart
  BY <1>16 DEF TotalStart, Free, TypeOK, HandleTypes, StateTypes, OpTypes, ServerTypes,
     WireTypes, HistoryTypes
<1>17. CASE IntoSingleRow
  <2>1. dropping' \in Drops
    <3>1. attributes \in AttributesType
      BY DEF TypeOK, StateTypes
    <3> QED
      BY <1>17, <3>1, DropsTyped DEF IntoSingleRow
  <2>2. rowIter' = <<>> /\ nextRows' = <<>> /\ <<>> \in Seq(Nat)
    BY <1>17, EmptySeq DEF IntoSingleRow
  <2>3. OpTypes' /\ HistoryTypes' /\ userRows' \subseteq Nat
    <3>1. CASE RowCount = 1 /\ ReturnRow((rowIter \o nextRows)[1])
      <4>1. rowIter \o nextRows \in Seq(Nat) /\ Len(rowIter \o nextRows) = 1
        BY <3>1, ConcatProperties, LenProperties DEF RowCount, TypeOK, StateTypes
      <4>2. (rowIter \o nextRows)[1] \in Nat
        BY <4>1, ElementOfSeq
      <4> QED
        BY <3>1, <4>2, ReturnRowTypes
    <3>2. CASE /\ Return(Result("usage", 0)) \/ Return(Result("usage", 2))
               /\ UNCHANGED <<delivered, userRows>>
      BY <3>2, ReturnNoRowTypes, ResultsTyped DEF TypeOK, HandleTypes
    <3> QED
      BY <1>17, <3>1, <3>2 DEF IntoSingleRow
  <2> QED
    BY <1>17, <2>1, <2>2, <2>3 DEF IntoSingleRow, TypeOK, HandleTypes, StateTypes, ServerTypes,
       WireTypes
<1>18. CASE DropResultSet
  <2>1. dropping' \in Drops
    <3>1. attributes \in AttributesType
      BY DEF TypeOK, StateTypes
    <3> QED
      BY <1>18, <3>1, DropsTyped DEF DropResultSet
  <2>2. <<>> \in Seq(Nat)
    BY EmptySeq
  <2>3. HandleTypes'
    BY <1>18 DEF DropResultSet, TypeOK, HandleTypes
  <2>4. StateTypes'
    BY <1>18, <2>2 DEF DropResultSet, TypeOK, StateTypes
  <2>5. OpTypes' /\ ServerTypes'
    BY <1>18 DEF DropResultSet, TypeOK, OpTypes, ServerTypes
  <2>6. WireTypes' /\ HistoryTypes'
    BY <1>18 DEF DropResultSet, TypeOK, WireTypes, HistoryTypes
  <2> QED
    BY <2>1, <2>3, <2>4, <2>5, <2>6 DEF TypeOK
<1>19. CASE DropPreparedStatement
  <2>1. dropping' \in Drops
    <3>1. <<>> \o <<"DropStatementId">> = <<"DropStatementId">>
      OBVIOUS
    <3> QED
      BY <1>19, <3>1 DEF DropPreparedStatement, Free, Drops
  <2>2. HandleTypes'
    BY <1>19 DEF DropPreparedStatement, TypeOK, HandleTypes
  <2> QED
    BY <1>19, <2>1, <2>2 DEF DropPreparedStatement, TypeOK, StateTypes, OpTypes, ServerTypes,
       WireTypes, HistoryTypes
<1>20. ASSUME NEW r \in userRows, DropRow(r) PROVE TypeOK'
  <2>1. dropping' \in Drops
    <3>1. attributes \in AttributesType /\ rscore \in BOOLEAN
      BY DEF TypeOK, StateTypes
    <3> QED
      BY <1>20, <3>1, DropsTyped DEF DropRow
  <2> QED
    BY <1>20, <2>1 DEF DropRow, TypeOK, HandleTypes, StateTypes, OpTypes, ServerTypes,
       WireTypes, HistoryTypes
<1>21. ASSUME NEW fault \in Faults, ReadBreaks(fault) PROVE TypeOK'
  <2>1. reply \in ReplyType /\ reply.rows \in Seq(Nat) /\ reply.attributes \in AttributesType
    BY DEF TypeOK, WireTypes, ReplyType
  <2>2. PICK i \in 0..Len(reply.rows) : nextRows' = nextRows \o SubSeq(reply.rows, 1, i)
    BY <1>21 DEF ReadBreaks, NextRowsWith
  <2>3. SubSeq(reply.rows, 1, i) \in Seq(Nat)
    BY <2>1, <2>2, SubSeqProperties, LenProperties, ElementOfSeq
  <2>4. nextRows' \in Seq(Nat) /\ attributes' \in AttributesType
    BY <1>21, <2>1, <2>2, <2>3, ConcatProperties DEF ReadBreaks, AttributesOf, TypeOK, StateTypes
  <2>5. OpTypes' /\ WireTypes' /\ HistoryTypes'
    BY <1>21, BreaksTypes DEF ReadBreaks
  <2> QED
    BY <1>21, <2>4, <2>5 DEF ReadBreaks, TypeOK, HandleTypes, StateTypes, ServerTypes
<1>22. ASSUME NEW fault \in Faults, FetchBreaks(fault) PROVE TypeOK'
  <2>1. OpTypes' /\ WireTypes' /\ HistoryTypes'
    BY <1>22, BreaksTypes DEF FetchBreaks
  <2> QED
    BY <1>22, <2>1 DEF FetchBreaks, TypeOK, HandleTypes, StateTypes, ServerTypes
<1>23. CASE UNCHANGED vars
  BY <1>23 DEF vars, TypeOK, HandleTypes, StateTypes, OpTypes, ServerTypes, WireTypes,
     HistoryTypes
<1> QED
  BY <1>1, <1>2, <1>3, <1>4, <1>5, <1>6, <1>7, <1>8, <1>9, <1>10, <1>11, <1>12, <1>13,
     <1>14, <1>15, <1>16, <1>17, <1>18, <1>19, <1>20, <1>21, <1>22, <1>23 DEF Next,
     CallStep, UserStep, FaultStep
-----------------------------------------------------------------------------
(* Calls and packets.                                                      *)

\* Where a call is, and what it may rely on.
LEMMA CallInvInit == Init => CallInv
BY DEF Init, CallInv

\* Both parts of an empty sequence are empty.
LEMMA NothingFollows ==
  ASSUME NEW a \in Seq(Nat), NEW b \in Seq(Nat), a \o b = <<>>
  PROVE  a = <<>> /\ b = <<>>
<1>1. Len(a \o b) = Len(a) + Len(b) /\ Len(a \o b) = 0
  BY ConcatProperties, EmptySeq
<1>2. Len(a) \in Nat /\ Len(b) \in Nat
  BY LenProperties
<1>3. Len(a) = 0 /\ Len(b) = 0
  BY <1>1, <1>2
<1> QED
  BY <1>3, EmptySeq

\* A fetch is under way only for a call, and only while the ResultSet refers to
\* its core.
LEMMA CallInvStep ==
  ASSUME TypeOK, CallInv, AttributesInv, [Next]_vars
  PROVE  CallInv'
<1> USE DEF CallInv, handles, rsState, opVars, server, wire, history
<1>1. CASE SendFetch
  BY <1>1 DEF SendFetch, TypeOK, OpTypes, HandleTypes, StateTypes
<1>2. CASE SendFetchFails
  BY <1>2 DEF SendFetchFails, Return, Result, TypeOK, OpTypes, HandleTypes, StateTypes
<1>3. CASE SrvSendError
  BY <1>3 DEF SrvSendError, NoReply, TypeOK, OpTypes, HandleTypes, StateTypes
<1>4. CASE SrvSendPacket
  BY <1>4 DEF SrvSendPacket, TypeOK, OpTypes, HandleTypes, StateTypes
<1>5. CASE ReadPacket
  <2>1. /\ phase = "await" /\ reply.kind = "rows" /\ phase' = "fetched" /\ reply' = NoReply
        /\ attributes' = reply.attributes /\ nextRows' = nextRows \o reply.rows
        /\ UNCHANGED <<handles, rowIter, op>>
    BY <1>5 DEF ReadPacket, NextRowsWith, AttributesOf
  <2>2. rsAlive
    BY <2>1
  <2>3. nextRows' = <<>> => reply.rows = <<>>
    <3>1. nextRows \in Seq(Nat) /\ reply.rows \in Seq(Nat)
      BY DEF TypeOK, StateTypes, WireTypes, ReplyType
    <3> QED
      BY <2>1, <3>1, NothingFollows
  <2>4. nextRows' = <<>> => attributes'.last
    BY <2>1, <2>3 DEF AttributesInv
  <2> QED
    BY <2>1, <2>2, <2>4
<1>6. CASE ReadError
  BY <1>6 DEF ReadError, Return, Result, TypeOK, OpTypes, HandleTypes, StateTypes
<1>7. CASE Reconnect
  BY <1>7 DEF Reconnect, TypeOK, OpTypes, HandleTypes, StateTypes
<1>8. CASE NextRowFetched
  BY <1>8 DEF NextRowFetched, SwapAndReturn, RowsAfterSwap, ReturnRow, Return, Result,
     TypeOK, OpTypes, HandleTypes, StateTypes
<1>9. CASE TotalFetch
  BY <1>9 DEF TotalFetch, IsComplete, IsInconsistent, TypeOK, OpTypes, HandleTypes,
     StateTypes
<1>10. CASE TotalReturn
  BY <1>10 DEF TotalReturn, Return, Result, IsComplete, RowCount, TypeOK, OpTypes,
     HandleTypes, StateTypes
<1>11. CASE ReturnInconsistent
  BY <1>11 DEF ReturnInconsistent, IsInconsistent, Return, Result, TypeOK, OpTypes,
     HandleTypes, StateTypes
<1>12. CASE SendDropRequest
  BY <1>12 DEF SendDropRequest, TypeOK, OpTypes, HandleTypes, StateTypes
<1>13. CASE NextRowBuffered
  BY <1>13 DEF NextRowBuffered, Free, ReturnRow, Return, Result, TypeOK, OpTypes,
     HandleTypes, StateTypes
<1>14. CASE NextRowSwap
  BY <1>14 DEF NextRowSwap, Free, IsComplete, SwapAndReturn, RowsAfterSwap, ReturnRow,
     Return, Result, TypeOK, OpTypes, HandleTypes, StateTypes
<1>15. CASE NextRowFetch
  BY <1>15 DEF NextRowFetch, Free, IsComplete, IsInconsistent, TypeOK, OpTypes, HandleTypes,
     StateTypes
<1>16. CASE TotalStart
  BY <1>16 DEF TotalStart, Free, TypeOK, OpTypes, HandleTypes, StateTypes
<1>17. CASE IntoSingleRow
  BY <1>17 DEF IntoSingleRow, Free, ReturnRow, Return, Result, TypeOK, OpTypes, HandleTypes,
     StateTypes
<1>18. CASE DropResultSet
  BY <1>18 DEF DropResultSet, Free, TypeOK, OpTypes, HandleTypes, StateTypes
<1>19. CASE DropPreparedStatement
  BY <1>19 DEF DropPreparedStatement, Free, TypeOK, OpTypes, HandleTypes, StateTypes
<1>20. ASSUME NEW r \in userRows, DropRow(r) PROVE CallInv'
  BY <1>20 DEF DropRow, Free, TypeOK, OpTypes, HandleTypes, StateTypes
<1>21. ASSUME NEW fault \in Faults, ReadBreaks(fault) PROVE CallInv'
  BY <1>21 DEF ReadBreaks, Breaks, Return, Result, NextRowsWith, AttributesOf, TypeOK,
     OpTypes, HandleTypes, StateTypes
<1>22. ASSUME NEW fault \in Faults, FetchBreaks(fault) PROVE CallInv'
  BY <1>22 DEF FetchBreaks, Breaks, Return, Result, TypeOK, OpTypes, HandleTypes, StateTypes
<1>23. CASE UNCHANGED vars
  BY <1>23 DEF vars, TypeOK, OpTypes, HandleTypes, StateTypes
<1> QED
  BY <1>1, <1>2, <1>3, <1>4, <1>5, <1>6, <1>7, <1>8, <1>9, <1>10, <1>11, <1>12, <1>13,
     <1>14, <1>15, <1>16, <1>17, <1>18, <1>19, <1>20, <1>21, <1>22, <1>23 DEF Next,
     CallStep, UserStep, FaultStep

\* The attributes of the first packet.
LEMMA AttributesInit == Init => AttributesInv
<1> SUFFICES ASSUME Init PROVE AttributesInv
  OBVIOUS
<1>1. PICK first \in 0..(IF N < FetchSize THEN N ELSE FetchSize) :
        \E attrs \in PacketAttributes(first) :
           /\ attributes = attrs /\ pos = first
           /\ cursor = (IF attrs.closed THEN "closed" ELSE "open")
  BY DEF Init
<1>2. PICK attrs \in PacketAttributes(first) :
        /\ attributes = attrs /\ pos = first
        /\ cursor = (IF attrs.closed THEN "closed" ELSE "open")
  BY <1>1
<1>3. reply = NoReply /\ rscore
  BY DEF Init
<1> QED
  BY <1>2, <1>3, PacketAttributesTyped DEF AttributesInv, NoReply

\* What the server sends with a packet.
LEMMA PacketSent ==
  ASSUME TypeOK, CallInv, AttributesInv, SrvSendPacket
  PROVE  /\ reply.rows = <<>> /\ cursor = "open" /\ phase = "await" /\ reply = NoReply
         /\ pos \in Nat /\ pos' \in pos..N /\ reply'.kind = "rows"
         /\ reply'.rows = RowsFromTo(pos + 1, pos')
         /\ reply'.attributes.last => pos' = N
         /\ reply'.attributes.closed => cursor' # "open"
         /\ reply'.rows = <<>> => reply'.attributes.last
         /\ cursor' \in {"open", "closed"}
<1>1. PICK end \in pos..N, attrs \in [last : BOOLEAN, closed : BOOLEAN] :
        /\ end = pos => attrs.last
        /\ attrs \in PacketAttributes(end) \/ attrs = Attr(FALSE, TRUE)
        /\ reply' = [kind |-> "rows", rows |-> RowsFromTo(pos + 1, end), attributes |-> attrs]
        /\ pos' = end /\ cursor' = (IF attrs.closed THEN "closed" ELSE cursor)
  BY DEF SrvSendPacket
<1>2. pos \in Nat /\ end \in Nat /\ pos + 1 \in Nat /\ pos + 1 <= end + 1
  BY Bounds DEF TypeOK, ServerTypes
<1>3. Len(RowsFromTo(pos + 1, end)) = end - pos
  <2>1. Len(RowsFromTo(pos + 1, end)) = end - (pos + 1) + 1
    BY <1>2, PacketOfRows
  <2> QED
    BY <1>2, <2>1
<1>4. RowsFromTo(pos + 1, end) = <<>> => end = pos
  BY <1>2, <1>3, EmptySeq
<1>5. attrs.last => end = N
  BY <1>1, PacketAttributesTyped DEF Attr
<1>6. reply.rows = <<>> /\ cursor = "open" /\ phase = "await" /\ reply = NoReply
  BY DEF SrvSendPacket, NoReply
<1> QED
  BY <1>1, <1>2, <1>4, <1>5, <1>6

\* The end of the rows and of the cursor are what the packets say.
LEMMA AttributesStep ==
  ASSUME TypeOK, CallInv, AttributesInv, [Next]_vars
  PROVE  AttributesInv'
<1> USE DEF AttributesInv, CallInv, NoReply, handles, rsState, opVars, server, wire, history
<1>1. CASE SendFetch
  BY <1>1 DEF SendFetch, TypeOK, StateTypes
<1>2. CASE SendFetchFails
  BY <1>2 DEF SendFetchFails, Return, Result, TypeOK, StateTypes
<1>3. CASE SrvSendError
  BY <1>3 DEF SrvSendError, NoReply, TypeOK, StateTypes
<1>4. CASE SrvSendPacket
  <2>1. UNCHANGED <<handles, rsState>>
    BY <1>4 DEF SrvSendPacket
  <2>2. /\ cursor = "open" /\ pos \in Nat /\ pos' \in pos..N /\ reply'.kind = "rows"
        /\ reply'.attributes.last => pos' = N
        /\ reply'.attributes.closed => cursor' # "open"
        /\ reply'.rows = <<>> => reply'.attributes.last
    BY <1>4, PacketSent
  <2>3. attributes.last => pos' = N
    BY <2>2, Bounds
  <2> QED
    BY <2>1, <2>2, <2>3
<1>5. CASE ReadPacket
  BY <1>5 DEF ReadPacket, NextRowsWith, AttributesOf, TypeOK, StateTypes
<1>6. CASE ReadError
  BY <1>6 DEF ReadError, Return, Result, TypeOK, StateTypes
<1>7. CASE Reconnect
  BY <1>7 DEF Reconnect, TypeOK, StateTypes
<1>8. CASE NextRowFetched
  BY <1>8 DEF NextRowFetched, SwapAndReturn, RowsAfterSwap, ReturnRow, Return, Result,
     TypeOK, StateTypes
<1>9. CASE TotalFetch
  BY <1>9 DEF TotalFetch, IsComplete, IsInconsistent, TypeOK, StateTypes
<1>10. CASE TotalReturn
  BY <1>10 DEF TotalReturn, Return, Result, IsComplete, RowCount, TypeOK, StateTypes
<1>11. CASE ReturnInconsistent
  BY <1>11 DEF ReturnInconsistent, IsInconsistent, Return, Result, TypeOK, StateTypes
<1>12. CASE SendDropRequest
  BY <1>12 DEF SendDropRequest, TypeOK, StateTypes
<1>13. CASE NextRowBuffered
  BY <1>13 DEF NextRowBuffered, Free, ReturnRow, Return, Result, TypeOK, StateTypes
<1>14. CASE NextRowSwap
  BY <1>14 DEF NextRowSwap, Free, IsComplete, SwapAndReturn, RowsAfterSwap, ReturnRow,
     Return, Result, TypeOK, StateTypes
<1>15. CASE NextRowFetch
  BY <1>15 DEF NextRowFetch, Free, IsComplete, IsInconsistent, TypeOK, StateTypes
<1>16. CASE TotalStart
  BY <1>16 DEF TotalStart, Free, TypeOK, StateTypes
<1>17. CASE IntoSingleRow
  BY <1>17 DEF IntoSingleRow, Free, ReturnRow, Return, Result, TypeOK, StateTypes
<1>18. CASE DropResultSet
  BY <1>18 DEF DropResultSet, Free, TypeOK, StateTypes
<1>19. CASE DropPreparedStatement
  BY <1>19 DEF DropPreparedStatement, Free, TypeOK, StateTypes
<1>20. ASSUME NEW r \in userRows, DropRow(r) PROVE AttributesInv'
  BY <1>20 DEF DropRow, Free, TypeOK, StateTypes
<1>21. ASSUME NEW fault \in Faults, ReadBreaks(fault) PROVE AttributesInv'
  BY <1>21 DEF ReadBreaks, Breaks, Return, Result, NextRowsWith, AttributesOf, TypeOK,
     StateTypes
<1>22. ASSUME NEW fault \in Faults, FetchBreaks(fault) PROVE AttributesInv'
  BY <1>22 DEF FetchBreaks, Breaks, Return, Result, TypeOK, StateTypes
<1>23. CASE UNCHANGED vars
  BY <1>23 DEF vars, TypeOK, StateTypes
<1> QED
  BY <1>1, <1>2, <1>3, <1>4, <1>5, <1>6, <1>7, <1>8, <1>9, <1>10, <1>11, <1>12, <1>13,
     <1>14, <1>15, <1>16, <1>17, <1>18, <1>19, <1>20, <1>21, <1>22, <1>23 DEF Next,
     CallStep, UserStep, FaultStep
-----------------------------------------------------------------------------
(* The order of the rows.                                                  *)

\* The rows p are the first ones of q.
Begins(p, q) == Len(p) <= Len(q) /\ \A i \in DOMAIN p : p[i] = q[i]

\* All rows that are buffered or were handed out, and those of a reply.
LEMMA FourParts ==
  ASSUME NEW a \in Seq(Nat), NEW b \in Seq(Nat), NEW c \in Seq(Nat), NEW d \in Seq(Nat)
  PROVE  /\ (a \o b \o c) \o d \in Seq(Nat) /\ a \o b \o c \in Seq(Nat) /\ a \o b \in Seq(Nat)
         /\ Len(a \o b \o c) = Len(a) + Len(b) + Len(c)
         /\ Len((a \o b \o c) \o d) = Len(a) + Len(b) + Len(c) + Len(d)
<1>1. a \o b \in Seq(Nat) /\ Len(a \o b) = Len(a) + Len(b)
  BY ConcatProperties
<1>2. a \o b \o c \in Seq(Nat) /\ Len(a \o b \o c) = Len(a) + Len(b) + Len(c)
  BY <1>1, ConcatProperties
<1> QED
  BY <1>1, <1>2, ConcatProperties

\* A longer sequence begins with the shorter one.
LEMMA ConcatBegins ==
  ASSUME NEW a \in Seq(Nat), NEW b \in Seq(Nat)
  PROVE  Begins(a, a \o b)
<1>1. Len(a) \in Nat /\ Len(b) \in Nat /\ DOMAIN a = 1..Len(a)
  BY LenProperties
<1> QED
  BY <1>1, ConcatProperties DEF Begins

\* The beginning of a beginning.
LEMMA BeginsTransitive ==
  ASSUME NEW p \in Seq(Nat), NEW q \in Seq(Nat), NEW r \in Seq(Nat), Begins(p, q), Begins(q, r)
  PROVE  Begins(p, r)
<1>1. DOMAIN p = 1..Len(p) /\ DOMAIN q = 1..Len(q) /\ Len(p) \in Nat /\ Len(q) \in Nat
      /\ Len(r) \in Nat
  BY LenProperties
<1> QED
  BY <1>1, SMTT(60) DEF Begins

\* A reply that is read in part adds a beginning of its rows.
LEMMA PartOfPacket ==
  ASSUME NEW a \in Seq(Nat), NEW d \in Seq(Nat), NEW i \in 0..Len(d)
  PROVE  Begins(a \o SubSeq(d, 1, i), a \o d) /\ SubSeq(d, 1, i) \in Seq(Nat)
<1>1. Len(a) \in Nat /\ Len(d) \in Nat
  BY LenProperties
<1>2. SubSeq(d, 1, i) \in Seq(Nat) /\ Len(SubSeq(d, 1, i)) = i
      /\ \A j \in 1..i : SubSeq(d, 1, i)[j] = d[j]
  BY <1>1, SubSeqProperties, ElementOfSeq
<1>3. /\ a \o SubSeq(d, 1, i) \in Seq(Nat) /\ Len(a \o SubSeq(d, 1, i)) = Len(a) + i
      /\ \A j \in 1..(Len(a) + i) : (a \o SubSeq(d, 1, i))[j] =
            IF j <= Len(a) THEN a[j] ELSE SubSeq(d, 1, i)[j - Len(a)]
  <2>1. ASSUME NEW s \in Seq(Nat)
        PROVE  /\ a \o s \in Seq(Nat) /\ Len(a \o s) = Len(a) + Len(s)
               /\ \A j \in 1..(Len(a) + Len(s)) : (a \o s)[j] =
                     IF j <= Len(a) THEN a[j] ELSE s[j - Len(a)]
    BY ConcatProperties
  <2>2. \A s \in Seq(Nat) : Len(s) = i =>
           /\ a \o s \in Seq(Nat) /\ Len(a \o s) = Len(a) + i
           /\ \A j \in 1..(Len(a) + i) : (a \o s)[j] =
                 IF j <= Len(a) THEN a[j] ELSE s[j - Len(a)]
    BY <2>1
  <2> QED
    BY <1>2, <2>2, Zenon
<1>4. /\ Len(a \o d) = Len(a) + Len(d)
      /\ \A j \in 1..(Len(a) + Len(d)) : (a \o d)[j] =
            IF j <= Len(a) THEN a[j] ELSE d[j - Len(a)]
  BY ConcatProperties
<1>5. ASSUME NEW j \in 1..(Len(a) + i) PROVE (a \o SubSeq(d, 1, i))[j] = (a \o d)[j]
  <2>1. CASE j <= Len(a)
    BY <1>1, <1>3, <1>4, <2>1
  <2>2. CASE j > Len(a)
    <3>1. j - Len(a) \in 1..i
      BY <1>1, <2>2
    <3> QED
      BY <1>1, <1>2, <1>3, <1>4, <2>2, <3>1
  <2> QED
    BY <1>1, <2>1, <2>2
<1>6. DOMAIN (a \o SubSeq(d, 1, i)) = 1..(Len(a) + i)
  BY <1>3, LenProperties
<1>7. Len(a \o SubSeq(d, 1, i)) <= Len(a \o d)
  BY <1>1, <1>3, <1>4
<1>8. \A j \in DOMAIN (a \o SubSeq(d, 1, i)) : (a \o SubSeq(d, 1, i))[j] = (a \o d)[j]
  BY <1>5, <1>6
<1> QED
  BY <1>2, <1>7, <1>8 DEF Begins

\* A packet that was read completely.
LEMMA WholePacket ==
  ASSUME NEW a \in Seq(Nat), NEW c \in Seq(Nat), NEW d \in Seq(Nat)
  PROVE  (a \o (c \o d)) \o <<>> = (a \o c) \o d
<1>1. c \o d \in Seq(Nat) /\ a \o (c \o d) \in Seq(Nat)
  BY ConcatProperties
<1>2. (a \o (c \o d)) \o <<>> = a \o (c \o d)
  BY <1>1, ConcatEmptySeq
<1>3. (a \o c) \o d = a \o (c \o d)
  BY ConcatAssociative, SMTT(90)
<1> QED
  BY <1>2, <1>3

\* A packet that was read in part.
LEMMA PartParsed ==
  ASSUME NEW a \in Seq(Nat), NEW c \in Seq(Nat), NEW d \in Seq(Nat), NEW i \in 0..Len(d)
  PROVE  (a \o (c \o SubSeq(d, 1, i))) \o <<>> = (a \o c) \o SubSeq(d, 1, i)
<1>1. SubSeq(d, 1, i) \in Seq(Nat)
  BY PartOfPacket
<1> QED
  BY <1>1, WholePacket, ZenonT(60)

\* The only row of a ResultSet.
LEMMA OnlyRow ==
  ASSUME NEW a \in Seq(Nat), NEW q \in Seq(Nat), Len(q) = 1
  PROVE  Append(a, q[1]) = a \o q /\ a \o q \in Seq(Nat)
<1>1. q # <<>> /\ Head(q) = q[1] /\ Tail(q) = <<>>
  <2>1. q # <<>>
    BY EmptySeq
  <2>2. Head(q) = q[1] /\ Tail(q) \in Seq(Nat) /\ Len(Tail(q)) = 0
    BY <2>1, HeadTailProperties
  <2> QED
    BY <2>1, <2>2, EmptySeq
<1>2. Append(a, q[1]) \o <<>> = a \o q /\ Append(a, q[1]) \in Seq(Nat)
  BY <1>1, HandOver
<1> QED
  BY <1>2, ConcatEmptySeq, ConcatProperties

\* The position of the server before and after a packet.
LEMMA Positions ==
  ASSUME NEW p \in Nat, NEW m \in Nat, NEW q \in p..m
  PROVE  /\ q \in Nat /\ p + 1 \in Nat /\ p + 1 <= q + 1 /\ p <= q
         /\ q - (p + 1) + 1 = q - p /\ q - p \in Nat /\ p + (q - p) = q
OBVIOUS

\* Types of the sequences of rows.
LEMMA RowsTyped ==
  ASSUME TypeOK
  PROVE  /\ delivered \in Seq(Nat) /\ rowIter \in Seq(Nat) /\ nextRows \in Seq(Nat)
         /\ reply.rows \in Seq(Nat) /\ AllRows \in Seq(Nat) /\ Coming \in Seq(Nat)
         /\ delivered \o rowIter \in Seq(Nat)
         /\ Len(Coming) = Len(AllRows) + Len(reply.rows)
         /\ Len(AllRows) = Len(delivered) + Len(rowIter) + Len(nextRows)
<1>1. /\ delivered \in Seq(Nat) /\ rowIter \in Seq(Nat) /\ nextRows \in Seq(Nat)
      /\ reply.rows \in Seq(Nat)
  BY DEF TypeOK, StateTypes, HistoryTypes, WireTypes, ReplyType
<1>2. AllRows \in Seq(Nat) /\ delivered \o rowIter \in Seq(Nat)
      /\ Len(AllRows) = Len(delivered) + Len(rowIter) + Len(nextRows)
  BY <1>1, FourParts DEF AllRows
<1>3. Coming \in Seq(Nat) /\ Len(Coming) = Len(AllRows) + Len(reply.rows)
  BY <1>1, <1>2, ConcatProperties DEF Coming
<1> QED
  BY <1>1, <1>2, <1>3

\* The end of next_row hands over the first row.
LEMMA SwapKeepsRows ==
  ASSUME TypeOK, SwapAndReturn, rowIter = <<>>, reply = NoReply
  PROVE  Coming' = Coming /\ pos' = pos
<1>1. UNCHANGED reply /\ UNCHANGED pos /\ nextRows' = <<>>
  BY DEF SwapAndReturn, RowsAfterSwap, wire, server
<1>2. CASE /\ nextRows # <<>> /\ delivered' = Append(delivered, Head(nextRows))
           /\ rowIter' = Tail(nextRows)
  <2>1. /\ delivered' \o rowIter' = delivered \o nextRows
        /\ delivered' \in Seq(Nat) /\ rowIter' \in Seq(Nat)
    BY <1>2, RowsTyped, HandOver
  <2>2. AllRows' = delivered \o nextRows
    BY <1>1, <2>1, RowsTyped, ConcatProperties, ConcatEmptySeq DEF AllRows
  <2>3. AllRows = delivered \o nextRows
    BY RowsTyped, ConcatEmptySeq DEF AllRows
  <2> QED
    BY <1>1, <2>2, <2>3 DEF Coming
<1>3. CASE nextRows = <<>> /\ UNCHANGED <<delivered, rowIter>>
  BY <1>1, <1>3 DEF Coming, AllRows
<1> QED
  BY <1>2, <1>3 DEF SwapAndReturn, ReturnRow

\* What a step other than the server's packet does to the rows: none gets lost,
\* but for a fetch that fails or is repeated, or a ResultSet that is dropped.
RowsStay ==
  /\ UNCHANGED pos
  /\ \/ Coming' = Coming
     \/ /\ Begins(Coming', Coming)
        /\ phase' = "reconnect" \/ failed' = TRUE \/ ~rsAlive'

\* Every other step only moves rows.
LEMMA RowsMove ==
  ASSUME TypeOK, CallInv, AttributesInv, [Next]_vars
  PROVE  SrvSendPacket \/ RowsStay
<1> USE DEF RowsStay, handles, rsState, opVars, server, wire, history
<1>1. CASE SendFetch
  BY <1>1 DEF SendFetch, Coming, AllRows
<1>2. CASE SendFetchFails
  BY <1>2 DEF SendFetchFails, Coming, AllRows
<1>3. CASE SrvSendError
  <2>1. reply.rows = <<>> /\ reply'.rows = <<>>
    BY <1>3 DEF SrvSendError, NoReply
  <2> QED
    BY <1>3, <2>1 DEF SrvSendError, Coming, AllRows
<1>4. CASE SrvSendPacket
  BY <1>4
<1>5. CASE ReadPacket
  <2>1. /\ reply'.rows = <<>> /\ nextRows' = nextRows \o reply.rows
        /\ UNCHANGED <<delivered, rowIter, pos>>
    BY <1>5 DEF ReadPacket, NoReply, NextRowsWith
  <2>2. Coming' = ((delivered \o rowIter) \o (nextRows \o reply.rows)) \o <<>>
    BY <2>1 DEF Coming, AllRows
  <2>3. Coming' = Coming
    <3>1. Coming' = ((delivered \o rowIter) \o nextRows) \o reply.rows
      <4>1. /\ delivered \o rowIter \in Seq(Nat)
            /\ nextRows \in Seq(Nat) /\ reply.rows \in Seq(Nat)
        BY RowsTyped
      <4> QED
        BY <2>2, <4>1, WholePacket
    <3> QED
      BY <3>1 DEF Coming, AllRows
  <2> QED
    BY <2>1, <2>3
<1>6. CASE ReadError
  <2>1. reply.rows = <<>> /\ reply'.rows = <<>>
    BY <1>6 DEF ReadError, NoReply, AttributesInv
  <2> QED
    BY <1>6, <2>1 DEF ReadError, Coming, AllRows
<1>7. CASE Reconnect
  BY <1>7 DEF Reconnect, Coming, AllRows
<1>8. CASE NextRowFetched
  BY <1>8, SwapKeepsRows DEF NextRowFetched, CallInv
<1>9. CASE TotalFetch
  BY <1>9 DEF TotalFetch, Coming, AllRows
<1>10. CASE TotalReturn
  BY <1>10 DEF TotalReturn, Coming, AllRows
<1>11. CASE ReturnInconsistent
  BY <1>11 DEF ReturnInconsistent, Coming, AllRows
<1>12. CASE SendDropRequest
  BY <1>12 DEF SendDropRequest, Coming, AllRows
<1>13. CASE NextRowBuffered
  <2>1. delivered' = Append(delivered, Head(rowIter)) /\ rowIter' = Tail(rowIter) /\ rowIter # <<>>
        /\ UNCHANGED <<nextRows, reply, pos>>
    BY <1>13 DEF NextRowBuffered, ReturnRow
  <2>2. delivered' \o rowIter' = delivered \o rowIter
    BY <2>1, RowsTyped, HandOver
  <2> QED
    BY <2>1, <2>2 DEF Coming, AllRows
<1>14. CASE NextRowSwap
  BY <1>14, SwapKeepsRows DEF NextRowSwap, CallInv, Free
<1>15. CASE NextRowFetch
  BY <1>15 DEF NextRowFetch, Coming, AllRows
<1>16. CASE TotalStart
  BY <1>16 DEF TotalStart, Coming, AllRows
<1>17. CASE IntoSingleRow
  <2>1. /\ rowIter' = <<>> /\ nextRows' = <<>> /\ ~rsAlive' /\ UNCHANGED <<reply, pos>>
        /\ reply.rows = <<>>
    BY <1>17 DEF IntoSingleRow, Free, CallInv, NoReply
  <2>2. Coming = delivered \o (rowIter \o nextRows)
    BY <2>1, RowsTyped, ConcatEmptySeq, ConcatAssociative, SMTT(30) DEF Coming, AllRows
  <2>3. delivered' \in Seq(Nat) /\ Begins(delivered', Coming)
    <3>1. CASE delivered' = delivered
      BY <2>2, <3>1, RowsTyped, ConcatBegins, ConcatProperties
    <3>2. CASE RowCount = 1 /\ delivered' = Append(delivered, (rowIter \o nextRows)[1])
      <4>1. /\ delivered \in Seq(Nat) /\ rowIter \o nextRows \in Seq(Nat)
            /\ Len(rowIter \o nextRows) = 1
        BY <3>2, RowsTyped, ConcatProperties, LenProperties DEF RowCount
      <4>2. delivered' = delivered \o (rowIter \o nextRows) /\ delivered' \in Seq(Nat)
        BY <3>2, <4>1, OnlyRow
      <4>3. delivered' = Coming
        BY <2>2, <4>2
      <4> QED
        BY <4>2, <4>3 DEF Begins
    <3> QED
      BY <1>17, <3>1, <3>2 DEF IntoSingleRow, ReturnRow
  <2>4. Coming' = delivered'
    BY <2>1, <2>3, ConcatEmptySeq DEF Coming, AllRows
  <2> QED
    BY <2>1, <2>3, <2>4
<1>18. CASE DropResultSet
  <2>1. /\ rowIter' = <<>> /\ nextRows' = <<>> /\ ~rsAlive' /\ UNCHANGED <<reply, pos, delivered>>
        /\ reply.rows = <<>>
    BY <1>18 DEF DropResultSet, Free, CallInv, NoReply
  <2>2. Coming' = delivered
    BY <2>1, RowsTyped, ConcatEmptySeq DEF Coming, AllRows
  <2>3. Begins(delivered, delivered \o rowIter) /\ Begins(delivered \o rowIter, AllRows)
    BY RowsTyped, ConcatBegins DEF AllRows
  <2>4. Begins(delivered, AllRows) /\ Begins(AllRows, Coming)
    BY <2>3, RowsTyped, BeginsTransitive, ConcatBegins DEF Coming
  <2>5. Begins(delivered, Coming)
    BY <2>4, RowsTyped, BeginsTransitive
  <2> QED
    BY <2>1, <2>2, <2>5
<1>19. CASE DropPreparedStatement
  BY <1>19 DEF DropPreparedStatement, Coming, AllRows
<1>20. ASSUME NEW r \in userRows, DropRow(r) PROVE SrvSendPacket \/ RowsStay
  BY <1>20 DEF DropRow, Coming, AllRows
<1>21. ASSUME NEW fault \in Faults, ReadBreaks(fault) PROVE SrvSendPacket \/ RowsStay
  <2>1. reply'.rows = <<>> /\ (phase' = "reconnect" \/ failed' = TRUE)
    BY <1>21 DEF ReadBreaks, Breaks, Return, Result, NoReply
  <2>2. PICK i \in 0..Len(reply.rows) : nextRows' = nextRows \o SubSeq(reply.rows, 1, i)
    BY <1>21 DEF ReadBreaks, NextRowsWith
  <2>3. UNCHANGED <<delivered, rowIter, pos>>
    BY <1>21 DEF ReadBreaks
  <2>4. Coming' = ((delivered \o rowIter) \o (nextRows \o SubSeq(reply.rows, 1, i))) \o <<>>
    BY <2>1, <2>2, <2>3 DEF Coming, AllRows
  <2>5. Coming' = AllRows \o SubSeq(reply.rows, 1, i)
    <3>1. /\ delivered \o rowIter \in Seq(Nat) /\ nextRows \in Seq(Nat)
          /\ reply.rows \in Seq(Nat)
      BY RowsTyped
    <3>2. Coming' = ((delivered \o rowIter) \o nextRows) \o SubSeq(reply.rows, 1, i)
      BY <2>4, <3>1, PartParsed, ZenonT(60)
    <3> QED
      BY <3>2 DEF AllRows
  <2>6. Begins(Coming', Coming)
    BY <2>5, RowsTyped, PartOfPacket DEF Coming
  <2> QED
    BY <2>1, <2>3, <2>6
<1>22. ASSUME NEW fault \in Faults, FetchBreaks(fault) PROVE SrvSendPacket \/ RowsStay
  <2>1. reply'.rows = <<>> /\ (phase' = "reconnect" \/ failed' = TRUE)
    BY <1>22 DEF FetchBreaks, Breaks, Return, Result, NoReply
  <2>2. UNCHANGED <<delivered, rowIter, nextRows, pos>>
    BY <1>22 DEF FetchBreaks
  <2>3. Coming' = AllRows
    BY <2>1, <2>2, RowsTyped, ConcatEmptySeq DEF Coming, AllRows
  <2>4. Begins(AllRows, Coming)
    BY RowsTyped, ConcatBegins DEF Coming
  <2> QED
    BY <2>1, <2>2, <2>3, <2>4
<1>23. CASE UNCHANGED vars
  BY <1>23 DEF vars, Coming, AllRows
<1> QED
  BY <1>1, <1>2, <1>3, <1>4, <1>5, <1>6, <1>7, <1>8, <1>9, <1>10, <1>11, <1>12, <1>13,
     <1>14, <1>15, <1>16, <1>17, <1>18, <1>19, <1>20, <1>21, <1>22, <1>23 DEF Next,
     CallStep, UserStep, FaultStep

\* The rows of a packet follow those before.
LEMMA PacketFollows ==
  ASSUME TypeOK, CallInv, AttributesInv, SrvSendPacket
  PROVE  /\ Len(Coming') = Len(Coming) + (pos' - pos)
         /\ \A i \in DOMAIN Coming : Coming'[i] = Coming[i]
         /\ DOMAIN Coming = 1..Len(Coming) /\ Len(Coming) \in Nat
         /\ DOMAIN Coming' = 1..(Len(Coming) + (pos' - pos))
         /\ \A i \in DOMAIN Coming' : i > Len(Coming) => Coming'[i] = pos + (i - Len(Coming))
<1> DEFINE new == RowsFromTo(pos + 1, pos')
<1>1. pos \in Nat /\ pos' \in pos..N /\ reply.rows = <<>> /\ reply'.rows = new
  BY PacketSent
<1>2. UNCHANGED <<delivered, rowIter, nextRows>>
  BY DEF SrvSendPacket, history, rsState
<1>3. Coming = AllRows /\ Coming' = AllRows \o new
  BY <1>1, <1>2, RowsTyped, ConcatEmptySeq DEF Coming, AllRows
<1>4. pos' \in Nat /\ pos + 1 \in Nat /\ pos + 1 <= pos' + 1 /\ pos' - (pos + 1) + 1 = pos' - pos
      /\ pos' - pos \in Nat
  BY <1>1, Positions, ConstantsAssumption
<1>5. /\ new \in Seq(Nat) /\ Len(new) = pos' - pos
      /\ \A i \in 1..(pos' - pos) : new[i] = pos + 1 + i - 1
  <2>1. \A to \in Nat : pos + 1 <= to + 1 =>
           /\ RowsFromTo(pos + 1, to) \in Seq(Nat)
           /\ Len(RowsFromTo(pos + 1, to)) = to - (pos + 1) + 1
           /\ \A i \in 1..(to - (pos + 1) + 1) : RowsFromTo(pos + 1, to)[i] = pos + 1 + i - 1
    BY <1>4, PacketOfRows
  <2> QED
    BY <1>4, <2>1
<1>6. AllRows \in Seq(Nat) /\ Len(AllRows) \in Nat /\ DOMAIN AllRows = 1..Len(AllRows)
  BY RowsTyped, LenProperties
<1> HIDE DEF new
<1>7. /\ AllRows \o new \in Seq(Nat) /\ Len(AllRows \o new) = Len(AllRows) + (pos' - pos)
      /\ \A i \in 1..(Len(AllRows) + (pos' - pos)) : (AllRows \o new)[i] =
            IF i <= Len(AllRows) THEN AllRows[i] ELSE new[i - Len(AllRows)]
  BY <1>5, <1>6, ConcatProperties
<1>8. DOMAIN (AllRows \o new) = 1..(Len(AllRows) + (pos' - pos))
  BY <1>7, LenProperties
<1>9. \A i \in DOMAIN Coming : Coming'[i] = Coming[i]
  BY <1>3, <1>4, <1>6, <1>7
<1>10. ASSUME NEW i \in DOMAIN Coming', i > Len(Coming)
       PROVE  Coming'[i] = pos + (i - Len(Coming))
  <2>1. i - Len(AllRows) \in 1..(pos' - pos) /\ ~(i <= Len(AllRows)) /\ i \in Int
    BY <1>3, <1>4, <1>6, <1>8, <1>10, SMTT(30)
  <2>2. Coming'[i] = new[i - Len(AllRows)]
    BY <1>3, <1>7, <1>8, <2>1
  <2>3. new[i - Len(AllRows)] = pos + 1 + (i - Len(AllRows)) - 1
    BY <1>5, <2>1
  <2>4. pos \in Nat /\ Len(AllRows) \in Nat /\ Len(Coming) = Len(AllRows)
    BY <1>1, <1>3, <1>6
  <2> QED
    BY <2>1, <2>2, <2>3, <2>4
<1> QED
  BY <1>3, <1>6, <1>7, <1>8, <1>9, <1>10

\* A beginning of rows in their order is in order.
LEMMA OrderOfBeginning ==
  ASSUME NEW p \in Seq(Nat), NEW q \in Seq(Nat), NEW last, Begins(p, q), Increasing(q),
         \A i \in DOMAIN q : q[i] \in 1..last
  PROVE  Increasing(p) /\ \A i \in DOMAIN p : p[i] \in 1..last
<1>1. DOMAIN p = 1..Len(p) /\ DOMAIN q = 1..Len(q) /\ Len(p) \in Nat /\ Len(q) \in Nat
  BY LenProperties
<1>2. \A i \in DOMAIN p : i \in DOMAIN q /\ p[i] = q[i]
  BY <1>1 DEF Begins
<1> QED
  BY <1>2 DEF Increasing

\* Rows that follow those up to a position are in order.
LEMMA OrderOfPacket ==
  ASSUME NEW p \in Seq(Nat), NEW q \in Seq(Nat), NEW from \in Nat, NEW to \in Nat, from <= to,
         Increasing(p), \A i \in DOMAIN p : p[i] \in 1..from,
         DOMAIN p = 1..Len(p), Len(p) \in Nat, DOMAIN q = 1..(Len(p) + (to - from)),
         \A i \in DOMAIN p : q[i] = p[i],
         \A i \in DOMAIN q : i > Len(p) => q[i] = from + (i - Len(p))
  PROVE  Increasing(q) /\ \A i \in DOMAIN q : q[i] \in 1..to
<1>1. ASSUME NEW i \in DOMAIN q, ~(i > Len(p)) PROVE i \in DOMAIN p /\ q[i] \in 1..from
  BY <1>1
<1>2. ASSUME NEW i \in DOMAIN q, i > Len(p)
      PROVE  q[i] = from + (i - Len(p)) /\ q[i] \in (from + 1)..to
  BY <1>2
<1>3. ASSUME NEW i \in DOMAIN q, NEW j \in DOMAIN q, i < j PROVE q[i] < q[j]
  <2>1. CASE ~(j > Len(p))
    <3>1. i \in DOMAIN p /\ j \in DOMAIN p
      BY <1>3, <2>1, SMTT(30)
    <3> QED
      BY <1>3, <3>1 DEF Increasing
  <2>2. CASE j > Len(p) /\ ~(i > Len(p))
    BY <1>1, <1>2, <2>2
  <2>3. CASE j > Len(p) /\ i > Len(p)
    BY <1>2, <1>3, <2>3
  <2> QED
    BY <2>1, <2>2, <2>3
<1> QED
  BY <1>1, <1>2, <1>3, SMTT(60) DEF Increasing

\* The first packet.
LEMMA FirstRows ==
  ASSUME Init
  PROVE  /\ Coming \in Seq(Nat) /\ Len(Coming) = pos /\ pos \in Nat /\ DOMAIN Coming = 1..pos
         /\ \A i \in DOMAIN Coming : Coming[i] = i
<1>1. PICK first \in 0..(IF N < FetchSize THEN N ELSE FetchSize) :
        nextRows = RowsFromTo(1, first) /\ pos = first
  BY DEF Init
<1>2. first \in Nat /\ 1 \in Nat /\ 1 <= first + 1 /\ first - 1 + 1 = first
  BY <1>1, Bounds
<1>3. /\ nextRows \in Seq(Nat) /\ Len(nextRows) = first - 1 + 1
      /\ \A i \in 1..(first - 1 + 1) : nextRows[i] = 1 + i - 1
  BY <1>1, <1>2, PacketOfRows
<1>4. delivered = <<>> /\ rowIter = <<>> /\ reply.rows = <<>>
  BY DEF Init, NoReply
<1>5. /\ (<<>> \o <<>>) \o nextRows = nextRows
      /\ ((<<>> \o <<>>) \o nextRows) \o <<>> = nextRows
  <2>1. <<>> \in Seq(Nat) /\ <<>> \o <<>> = <<>>
    BY EmptySeq, ConcatEmptySeq
  <2> QED
    BY <1>3, <2>1, ConcatEmptySeq
<1>6. Coming = nextRows
  BY <1>4, <1>5 DEF Coming, AllRows
<1>7. DOMAIN nextRows = 1..first
  BY <1>2, <1>3, LenProperties
<1> QED
  BY <1>1, <1>2, <1>3, <1>6, <1>7

\* It is in order.
LEMMA OrderInit == Init => OrderInv
BY FirstRows DEF OrderInv, Increasing

\* Types of the rows after a step.
LEMMA ComingAfter ==
  ASSUME TypeOK'
  PROVE  Coming' \in Seq(Nat) /\ Len(Coming)' \in Nat /\ DOMAIN Coming' = 1..Len(Coming')
<1>1. /\ delivered' \in Seq(Nat) /\ rowIter' \in Seq(Nat) /\ nextRows' \in Seq(Nat)
      /\ reply'.rows \in Seq(Nat)
  BY DEF TypeOK, StateTypes, HistoryTypes, WireTypes, ReplyType
<1>2. Coming' = (delivered' \o rowIter' \o nextRows') \o reply'.rows
  BY DEF Coming, AllRows
<1>3. Coming' \in Seq(Nat)
  BY <1>1, <1>2, FourParts
<1> QED
  BY <1>3, LenProperties

\* parse_rows appends only rows that were not there: a fetch that failed or was
\* repeated never brings a row again.
LEMMA OrderStep ==
  ASSUME TypeOK, TypeOK', CallInv, AttributesInv, OrderInv, [Next]_vars
  PROVE  OrderInv'
<1>1. Coming \in Seq(Nat) /\ Coming' \in Seq(Nat)
  BY RowsTyped, ComingAfter
<1>2. CASE SrvSendPacket
  <2>1. pos \in Nat /\ pos' \in Nat /\ pos <= pos'
    BY <1>2, PacketSent, Positions, Bounds
  <2>2. Increasing(Coming) /\ \A i \in DOMAIN Coming : Coming[i] \in 1..pos
    BY DEF OrderInv
  <2>3. Increasing(Coming') /\ \A i \in DOMAIN Coming' : Coming'[i] \in 1..pos'
    BY <1>1, <1>2, <2>1, <2>2, PacketFollows, OrderOfPacket
  <2> QED
    BY <2>3 DEF OrderInv, Increasing
<1>3. CASE RowsStay
  <2>1. CASE Coming' = Coming
    BY <1>3, <2>1 DEF OrderInv, RowsStay, Increasing
  <2>2. CASE Begins(Coming', Coming)
    <3>1. Increasing(Coming') /\ \A i \in DOMAIN Coming' : Coming'[i] \in 1..pos
      BY <1>1, <2>2, OrderOfBeginning DEF OrderInv
    <3> QED
      BY <1>3, <3>1 DEF OrderInv, RowsStay, Increasing
  <2> QED
    BY <1>3, <2>1, <2>2 DEF RowsStay
<1> QED
  BY <1>2, <1>3, RowsMove

-----------------------------------------------------------------------------
(* No row is missing.                                                      *)

\* Failures and skipped rows are never forgotten.
LEMMA TroubleStays ==
  ASSUME TypeOK, [Next]_vars, NoTrouble'
  PROVE  NoTrouble
<1> USE DEF NoTrouble, handles, rsState, opVars, server, wire, history
<1>0. failed \in BOOLEAN /\ skipped \in BOOLEAN
  BY DEF TypeOK, HistoryTypes, ServerTypes
<1>1. CASE SendFetch
  BY <1>1, <1>0 DEF SendFetch
<1>2. CASE SendFetchFails
  BY <1>2, <1>0 DEF SendFetchFails, Return, Result
<1>3. CASE SrvSendError
  BY <1>3, <1>0 DEF SrvSendError, NoReply
<1>4. CASE SrvSendPacket
  BY <1>4, <1>0 DEF SrvSendPacket
<1>5. CASE ReadPacket
  BY <1>5, <1>0 DEF ReadPacket, NextRowsWith, AttributesOf
<1>6. CASE ReadError
  BY <1>6, <1>0 DEF ReadError, Return, Result
<1>7. CASE Reconnect
  BY <1>7, <1>0 DEF Reconnect
<1>8. CASE NextRowFetched
  BY <1>8, <1>0 DEF NextRowFetched, SwapAndReturn, RowsAfterSwap, ReturnRow, Return, Result
<1>9. CASE TotalFetch
  BY <1>9, <1>0 DEF TotalFetch, IsComplete, IsInconsistent
<1>10. CASE TotalReturn
  BY <1>10, <1>0 DEF TotalReturn, Return, Result, IsComplete, RowCount
<1>11. CASE ReturnInconsistent
  BY <1>11, <1>0 DEF ReturnInconsistent, IsInconsistent, Return, Result
<1>12. CASE SendDropRequest
  BY <1>12, <1>0 DEF SendDropRequest
<1>13. CASE NextRowBuffered
  BY <1>13, <1>0 DEF NextRowBuffered, Free, ReturnRow, Return, Result
<1>14. CASE NextRowSwap
  BY <1>14, <1>0 DEF NextRowSwap, Free, IsComplete, SwapAndReturn, RowsAfterSwap, ReturnRow,
     Return, Result
<1>15. CASE NextRowFetch
  BY <1>15, <1>0 DEF NextRowFetch, Free, IsComplete, IsInconsistent
<1>16. CASE TotalStart
  BY <1>16, <1>0 DEF TotalStart, Free
<1>17. CASE IntoSingleRow
  BY <1>17, <1>0 DEF IntoSingleRow, Free, ReturnRow, Return, Result
<1>18. CASE DropResultSet
  BY <1>18, <1>0 DEF DropResultSet, Free
<1>19. CASE DropPreparedStatement
  BY <1>19, <1>0 DEF DropPreparedStatement, Free
<1>20. ASSUME NEW r \in userRows, DropRow(r) PROVE NoTrouble
  BY <1>20, <1>0 DEF DropRow, Free
<1>21. ASSUME NEW fault \in Faults, ReadBreaks(fault) PROVE NoTrouble
  BY <1>21, <1>0 DEF ReadBreaks, Breaks, Return, Result, NextRowsWith, AttributesOf
<1>22. ASSUME NEW fault \in Faults, FetchBreaks(fault) PROVE NoTrouble
  BY <1>22, <1>0 DEF FetchBreaks, Breaks, Return, Result
<1>23. CASE UNCHANGED vars
  BY <1>23, <1>0 DEF vars
<1> QED
  BY <1>1, <1>2, <1>3, <1>4, <1>5, <1>6, <1>7, <1>8, <1>9, <1>10, <1>11, <1>12, <1>13,
     <1>14, <1>15, <1>16, <1>17, <1>18, <1>19, <1>20, <1>21, <1>22, <1>23 DEF Next,
     CallStep, UserStep, FaultStep

\* When a fetch can succeed after a step, it could before; but for a repeated
\* request, which must not meet a cursor that is ahead.
LEMMA SynchronousBefore ==
  ASSUME TypeOK, CallInv, [Next]_vars, NoTrouble', rsAlive', Synchronous'
  PROVE  /\ rsAlive /\ phase' # "reconnect"
         /\ Synchronous \/ (Len(AllRows) >= pos /\ reply = NoReply)
<1> DEFINE Goal == /\ rsAlive /\ phase' # "reconnect"
                   /\ Synchronous \/ (Len(AllRows) >= pos /\ reply = NoReply)
<1> USE DEF NoTrouble, Synchronous, CallInv, handles, rsState, opVars, server, wire, history
<1>0. /\ failed \in BOOLEAN /\ skipped \in BOOLEAN /\ rsAlive \in BOOLEAN
      /\ NoReply.kind = "none" /\ Len(AllRows) \in Nat /\ pos \in Nat
  <2>1. AllRows \in Seq(Nat)
    BY RowsTyped
  <2> QED
    BY <2>1, LenProperties, Bounds DEF TypeOK, HistoryTypes, ServerTypes, HandleTypes, NoReply
<1>1. CASE SendFetch
  BY <1>1, <1>0 DEF SendFetch
<1>2. CASE SendFetchFails
  BY <1>2, <1>0 DEF SendFetchFails, Return, Result
<1>3. CASE SrvSendError
  BY <1>3, <1>0 DEF SrvSendError, NoReply
<1>4. CASE SrvSendPacket
  BY <1>4, <1>0 DEF SrvSendPacket
<1>5. CASE ReadPacket
  BY <1>5, <1>0 DEF ReadPacket, NextRowsWith, AttributesOf
<1>6. CASE ReadError
  BY <1>6, <1>0 DEF ReadError, Return, Result
<1>7. CASE Reconnect
  <2>1. rsAlive /\ reply = NoReply /\ phase' = "send" /\ cursor' = "open"
    BY <1>7 DEF Reconnect, TypeOK, OpTypes
  <2>2. ~(Len(AllRows) < pos)
    BY <1>7, <2>1 DEF Reconnect
  <2> QED
    BY <1>0, <2>1, <2>2
<1>8. CASE NextRowFetched
  BY <1>8, <1>0 DEF NextRowFetched, SwapAndReturn, RowsAfterSwap, ReturnRow, Return, Result
<1>9. CASE TotalFetch
  BY <1>9, <1>0 DEF TotalFetch, IsComplete, IsInconsistent
<1>10. CASE TotalReturn
  BY <1>10, <1>0 DEF TotalReturn, Return, Result, IsComplete, RowCount
<1>11. CASE ReturnInconsistent
  BY <1>11, <1>0 DEF ReturnInconsistent, IsInconsistent, Return, Result
<1>12. CASE SendDropRequest
  BY <1>12, <1>0 DEF SendDropRequest
<1>13. CASE NextRowBuffered
  BY <1>13, <1>0 DEF NextRowBuffered, Free, ReturnRow, Return, Result
<1>14. CASE NextRowSwap
  BY <1>14, <1>0 DEF NextRowSwap, Free, IsComplete, SwapAndReturn, RowsAfterSwap, ReturnRow,
     Return, Result
<1>15. CASE NextRowFetch
  BY <1>15, <1>0 DEF NextRowFetch, Free, IsComplete, IsInconsistent
<1>16. CASE TotalStart
  BY <1>16, <1>0 DEF TotalStart, Free
<1>17. CASE IntoSingleRow
  BY <1>17, <1>0 DEF IntoSingleRow, Free, ReturnRow, Return, Result
<1>18. CASE DropResultSet
  BY <1>18, <1>0 DEF DropResultSet, Free
<1>19. CASE DropPreparedStatement
  BY <1>19, <1>0 DEF DropPreparedStatement, Free
<1>20. ASSUME NEW r \in userRows, DropRow(r) PROVE Goal
  BY <1>20, <1>0 DEF DropRow, Free
<1>21. ASSUME NEW fault \in Faults, ReadBreaks(fault) PROVE Goal
  BY <1>21, <1>0 DEF ReadBreaks, Breaks, Return, Result, NextRowsWith, AttributesOf
<1>22. ASSUME NEW fault \in Faults, FetchBreaks(fault) PROVE Goal
  BY <1>22, <1>0 DEF FetchBreaks, Breaks, Return, Result
<1>23. CASE UNCHANGED vars
  BY <1>23, <1>0 DEF vars
<1> QED
  BY <1>1, <1>2, <1>3, <1>4, <1>5, <1>6, <1>7, <1>8, <1>9, <1>10, <1>11, <1>12, <1>13,
     <1>14, <1>15, <1>16, <1>17, <1>18, <1>19, <1>20, <1>21, <1>22, <1>23 DEF Next,
     CallStep, UserStep, FaultStep

\* None is returned when nothing is left, after the last packet.
LEMMA EndReturned ==
  ASSUME TypeOK, CallInv, AttributesInv, [Next]_vars, result'.kind = "end"
  PROVE  \/ result' = result /\ delivered' = delivered
         \/ /\ rowIter = <<>> /\ nextRows = <<>> /\ attributes.last /\ delivered' = delivered
            /\ rsAlive /\ phase \in {"idle", "fetched"} /\ reply = NoReply
<1> DEFINE Goal == \/ result' = result /\ delivered' = delivered
                   \/ /\ rowIter = <<>> /\ nextRows = <<>> /\ attributes.last
                      /\ delivered' = delivered
                      /\ rsAlive /\ phase \in {"idle", "fetched"} /\ reply = NoReply
<1> USE DEF CallInv, AttributesInv, handles, rsState, opVars, server, wire, history
<1>1. CASE SendFetch
  BY <1>1 DEF SendFetch
<1>2. CASE SendFetchFails
  BY <1>2 DEF SendFetchFails, Return, Result
<1>3. CASE SrvSendError
  BY <1>3 DEF SrvSendError, NoReply
<1>4. CASE SrvSendPacket
  BY <1>4 DEF SrvSendPacket
<1>5. CASE ReadPacket
  BY <1>5 DEF ReadPacket, NextRowsWith, AttributesOf
<1>6. CASE ReadError
  BY <1>6 DEF ReadError, Return, Result
<1>7. CASE Reconnect
  BY <1>7 DEF Reconnect
<1>8. CASE NextRowFetched
  BY <1>8 DEF NextRowFetched, SwapAndReturn, RowsAfterSwap, ReturnRow, Return, Result
<1>9. CASE TotalFetch
  BY <1>9 DEF TotalFetch, IsComplete, IsInconsistent
<1>10. CASE TotalReturn
  BY <1>10 DEF TotalReturn, Return, Result, IsComplete, RowCount
<1>11. CASE ReturnInconsistent
  BY <1>11 DEF ReturnInconsistent, IsInconsistent, Return, Result
<1>12. CASE SendDropRequest
  BY <1>12 DEF SendDropRequest
<1>13. CASE NextRowBuffered
  BY <1>13 DEF NextRowBuffered, Free, ReturnRow, Return, Result
<1>14. CASE NextRowSwap
  BY <1>14 DEF NextRowSwap, Free, IsComplete, SwapAndReturn, RowsAfterSwap, ReturnRow,
     Return, Result
<1>15. CASE NextRowFetch
  BY <1>15 DEF NextRowFetch, Free, IsComplete, IsInconsistent
<1>16. CASE TotalStart
  BY <1>16 DEF TotalStart, Free
<1>17. CASE IntoSingleRow
  BY <1>17 DEF IntoSingleRow, Free, ReturnRow, Return, Result
<1>18. CASE DropResultSet
  BY <1>18 DEF DropResultSet, Free
<1>19. CASE DropPreparedStatement
  BY <1>19 DEF DropPreparedStatement, Free
<1>20. ASSUME NEW r \in userRows, DropRow(r) PROVE Goal
  BY <1>20 DEF DropRow, Free
<1>21. ASSUME NEW fault \in Faults, ReadBreaks(fault) PROVE Goal
  BY <1>21 DEF ReadBreaks, Breaks, Return, Result, NextRowsWith, AttributesOf
<1>22. ASSUME NEW fault \in Faults, FetchBreaks(fault) PROVE Goal
  BY <1>22 DEF FetchBreaks, Breaks, Return, Result
<1>23. CASE UNCHANGED vars
  BY <1>23 DEF vars
<1> QED
  BY <1>1, <1>2, <1>3, <1>4, <1>5, <1>6, <1>7, <1>8, <1>9, <1>10, <1>11, <1>12, <1>13,
     <1>14, <1>15, <1>16, <1>17, <1>18, <1>19, <1>20, <1>21, <1>22, <1>23 DEF Next,
     CallStep, UserStep, FaultStep

\* The rows of the first packet are all there.
LEMMA CompleteInit == Init => CompleteInv
<1> SUFFICES ASSUME Init PROVE CompleteInv
  OBVIOUS
<1>1. result.kind # "end"
  BY DEF Init, Result
<1> QED
  BY <1>1, FirstRows DEF CompleteInv

\* Rows that are numbered up to a position are at most as many.
LEMMA NumberedRows ==
  ASSUME NEW q \in Seq(Nat), NEW last \in Nat,
         \A i \in DOMAIN q : q[i] = i, \A i \in DOMAIN q : q[i] \in 1..last
  PROVE  Len(q) <= last
<1>1. Len(q) \in Nat /\ DOMAIN q = 1..Len(q)
  BY LenProperties
<1>2. CASE Len(q) = 0
  BY <1>2
<1>3. CASE Len(q) # 0
  <2>1. Len(q) \in DOMAIN q
    BY <1>1, <1>3
  <2> QED
    BY <1>1, <2>1
<1> QED
  BY <1>2, <1>3

\* A beginning of numbered rows.
LEMMA NumberedBeginning ==
  ASSUME NEW p \in Seq(Nat), NEW q \in Seq(Nat), Begins(p, q), \A i \in DOMAIN q : q[i] = i
  PROVE  \A i \in DOMAIN p : p[i] = i
<1>1. DOMAIN p = 1..Len(p) /\ DOMAIN q = 1..Len(q) /\ Len(p) \in Nat /\ Len(q) \in Nat
  BY LenProperties
<1> QED
  BY <1>1 DEF Begins

\* Every fetch goes on where the rows end that have arrived.
LEMMA CompleteStep ==
  ASSUME TypeOK, TypeOK', CallInv, AttributesInv, OrderInv, CompleteInv, [Next]_vars
  PROVE  CompleteInv'
<1> SUFFICES ASSUME NoTrouble'
             PROVE  /\ \A i \in DOMAIN Coming' : Coming'[i] = i
                    /\ rsAlive' /\ Synchronous' => Len(Coming') = pos'
                    /\ result'.kind = "end" => Len(delivered') = N
  BY DEF CompleteInv
<1>1. NoTrouble
  BY TroubleStays
<1>2. /\ \A i \in DOMAIN Coming : Coming[i] = i
      /\ rsAlive /\ Synchronous => Len(Coming) = pos
      /\ result.kind = "end" => Len(delivered) = N
  BY <1>1 DEF CompleteInv
<1>3. /\ Coming \in Seq(Nat) /\ Coming' \in Seq(Nat) /\ pos \in Nat
      /\ Len(Coming) \in Nat /\ Len(Coming') \in Nat
      /\ DOMAIN Coming = 1..Len(Coming) /\ DOMAIN Coming' = 1..Len(Coming')
  BY RowsTyped, ComingAfter, LenProperties, Bounds, SMTT(60) DEF TypeOK, ServerTypes
<1>4. Len(Coming) <= pos
  BY <1>2, <1>3, NumberedRows DEF OrderInv
<1>5. rsAlive' /\ Synchronous' => /\ rsAlive /\ phase' # "reconnect"
                                  /\ Len(Coming) = pos
  <2> SUFFICES ASSUME rsAlive', Synchronous'
               PROVE  rsAlive /\ phase' # "reconnect" /\ Len(Coming) = pos
    OBVIOUS
  <2>1. /\ rsAlive /\ phase' # "reconnect"
        /\ Synchronous \/ (Len(AllRows) >= pos /\ reply = NoReply)
    BY SynchronousBefore
  <2>2. CASE Synchronous
    BY <1>2, <2>1, <2>2
  <2>3. CASE Len(AllRows) >= pos /\ reply = NoReply
    <3>1. Coming = AllRows
      BY <2>3, RowsTyped, ConcatEmptySeq DEF Coming, NoReply
    <3>2. Len(Coming) = pos
      <4>1. Len(Coming) >= pos
        BY <2>3, <3>1
      <4>2. Len(Coming) \in Nat /\ pos \in Nat
        BY <1>3
      <4> QED
        BY <1>4, <4>1, <4>2
    <3> QED
      BY <2>1, <3>2
  <2> QED
    BY <2>1, <2>2, <2>3
<1>6. CASE SrvSendPacket
  <2>1. Len(Coming) = pos
    <3>1. rsAlive /\ Synchronous
      BY <1>6, PacketSent DEF CallInv, Synchronous
    <3> QED
      BY <1>2, <3>1
  <2>2. pos' \in Nat /\ Len(Coming') = pos'
    <3>1. pos \in Nat /\ pos' \in pos..N /\ Len(Coming') = Len(Coming) + (pos' - pos)
      BY <1>6, PacketSent, PacketFollows
    <3>2. pos' \in Nat /\ pos + (pos' - pos) = pos'
      BY <3>1, Positions, Bounds
    <3> QED
      BY <2>1, <3>1, <3>2
  <2>3. ASSUME NEW i \in DOMAIN Coming' PROVE Coming'[i] = i
    <3>1. CASE i \in DOMAIN Coming
      BY <1>2, <1>6, <3>1, PacketFollows
    <3>2. CASE i > Len(Coming)
      <4>1. Coming'[i] = pos + (i - Len(Coming)) /\ i \in Nat
        BY <1>3, <1>6, <2>3, <3>2, PacketFollows
      <4> QED
        BY <1>3, <2>1, <4>1
    <3> QED
      BY <1>3, <2>3, <3>1, <3>2
  <2> QED
    <3>1. result' = result /\ delivered' = delivered
      BY <1>6 DEF SrvSendPacket, history
    <3> QED
      BY <1>2, <2>2, <2>3, <3>1
<1>7. CASE RowsStay
  <2>1. /\ pos' = pos
        /\ Coming' = Coming \/ (Begins(Coming', Coming)
                                /\ (phase' = "reconnect" \/ failed' = TRUE \/ ~rsAlive'))
    BY <1>7 DEF RowsStay
  <2>2. \A i \in DOMAIN Coming' : Coming'[i] = i
    <3>1. CASE Coming' = Coming
      BY <1>2, <3>1, SMTT(60)
    <3>2. CASE Begins(Coming', Coming)
      BY <1>2, <1>3, <3>2, NumberedBeginning
    <3> QED
      BY <2>1, <3>1, <3>2
  <2>3. rsAlive' /\ Synchronous' => Len(Coming') = pos'
    BY <1>5, <2>1 DEF NoTrouble
  <2>4. result'.kind = "end" => Len(delivered') = N
    <3> SUFFICES ASSUME result'.kind = "end" PROVE Len(delivered') = N
      OBVIOUS
    <3>1. CASE result' = result /\ delivered' = delivered
      BY <1>2, <3>1
    <3>2. CASE /\ rowIter = <<>> /\ nextRows = <<>> /\ attributes.last /\ delivered' = delivered
               /\ rsAlive /\ phase \in {"idle", "fetched"} /\ reply = NoReply
      <4>1. Coming = delivered
        BY <3>2, RowsTyped, ConcatEmptySeq DEF Coming, AllRows, NoReply
      <4>2. Len(Coming) = pos /\ pos = N
        BY <1>2, <3>2 DEF Synchronous, AttributesInv
      <4> QED
        BY <3>2, <4>1, <4>2
    <3> QED
      BY <3>1, <3>2, EndReturned
  <2> QED
    BY <2>2, <2>3, <2>4
<1> QED
  BY <1>6, <1>7, RowsMove

-----------------------------------------------------------------------------
(* Cursor and statement.                                                   *)

\* Init has a ResultSet, and a cursor if the rows have not ended.
LEMMA ReleaseInit == Init => ReleaseInv
<1> SUFFICES ASSUME Init PROVE ReleaseInv
  OBVIOUS
<1>1. CoreIsAlive
  BY DEF Init, CoreIsAlive, CoreAlive
<1>2. dropping = <<>> /\ cursor \in {"open", "closed"} /\ stmt \in {"open", "none"}
  BY DEF Init
<1>3. ~Due("CloseResultSet") /\ ~Due("DropStatementId")
  BY <1>2, DueIs
<1> QED
  BY <1>1, <1>2, <1>3 DEF ReleaseInv

\* Nothing is released as long as the same is referred to.
LEMMA ReleaseKept ==
  ASSUME ReleaseInv, UNCHANGED <<psAlive, dropping, stmt>>, CoreIsAlive' <=> CoreIsAlive,
         cursor' # cursor => cursor' \in {"lost", "closed"}, broken => broken'
  PROVE  ReleaseInv'
<1>1. /\ Due("CloseResultSet")' <=> Due("CloseResultSet")
      /\ Due("DropStatementId")' <=> Due("DropStatementId")
  BY DEF Due
<1> QED
  BY <1>1 DEF ReleaseInv

\* References to the core are given up.
LEMMA ReleaseAfterDrop ==
  ASSUME TypeOK, ReleaseInv, NEW inState \in BOOLEAN, NEW rows, NEW attrs \in AttributesType,
         AfterDrop(inState, rows, attrs), CoreIsAlive' <=> CoreAlive(inState, rows),
         CoreIsAlive' => CoreIsAlive, attrs.closed => cursor # "open",
         UNCHANGED <<psAlive, cursor, stmt, broken>>
  PROVE  ReleaseInv'
<1>1. CASE CoreIsAlive /\ ~CoreAlive(inState, rows)
  <2>1. /\ Due("CloseResultSet")' <=> ~attrs.closed
        /\ Due("DropStatementId")' <=> stmt # "none" /\ ~psAlive
    BY <1>1, CoreDropped
  <2>2. ~CoreIsAlive' /\ psAlive' = psAlive /\ cursor # "released"
    BY <1>1 DEF ReleaseInv
  <2> QED
    BY <1>1, <2>1, <2>2 DEF ReleaseInv
<1>2. CASE ~CoreIsAlive \/ CoreAlive(inState, rows)
  <2>1. dropping' = dropping
    BY <1>2, CoreNotDropped
  <2>2. CoreIsAlive' <=> CoreIsAlive
    BY <1>2
  <2> QED
    BY <2>1, <2>2, ReleaseKept
<1> QED
  BY <1>1, <1>2

\* The next row is handed out: the user holds it now.
LEMMA RowsInUse ==
  ASSUME NEW q \in Seq(Nat), q # <<>>, NEW u, NEW v
  PROVE  (u \cup {Head(q)}) \cup (RowsOf(Tail(q)) \cup v) = u \cup (RowsOf(q) \cup v)
BY RowsOfHead

\* So a core stays in use that was in use.
LEMMA SwapInUse ==
  ASSUME TypeOK, SwapAndReturn, rowIter = <<>>
  PROVE  CoreIsAlive' <=> CoreIsAlive
<1>1. UNCHANGED <<rscore, hasLobs>> /\ nextRows' = <<>>
  BY DEF SwapAndReturn, RowsAfterSwap, server
<1>2. CASE /\ nextRows # <<>> /\ userRows' = userRows \cup {Head(nextRows)}
           /\ rowIter' = Tail(nextRows)
  <2>1. RowsOf(nextRows) = {Head(nextRows)} \cup RowsOf(Tail(nextRows))
    BY <1>2, RowsTyped, RowsOfHead
  <2>2. userRows' \cup BufferedRows' = userRows \cup BufferedRows
    BY <1>1, <1>2, <2>1, NoRows DEF BufferedRows
  <2> QED
    BY <1>1, <2>2 DEF CoreIsAlive, CoreAlive
<1>3. CASE nextRows = <<>> /\ UNCHANGED <<userRows, rowIter>>
  BY <1>1, <1>3 DEF CoreIsAlive, CoreAlive, BufferedRows
<1> QED
  BY <1>2, <1>3 DEF SwapAndReturn, ReturnRow

\* A request of a drop reaches the server: the cursor goes before its statement.
LEMMA ReleaseSent ==
  ASSUME TypeOK, ReleaseInv, SendDropRequest
  PROVE  ReleaseInv'
<1> USE DEF handles, rsState, server, wire
<1>1. CoreIsAlive' <=> CoreIsAlive
  BY DEF SendDropRequest, CoreIsAlive, CoreAlive, BufferedRows
<1>2. UNCHANGED <<psAlive, broken>>
  BY DEF SendDropRequest
<1>3. CASE dropping = <<"CloseResultSet">>
  <2>1. dropping' = <<>> /\ stmt' = stmt
        /\ cursor' = IF cursor = "open" /\ ~broken THEN "released" ELSE cursor
    BY <1>3 DEF SendDropRequest
  <2>2. Due("CloseResultSet") /\ ~Due("DropStatementId")
        /\ ~Due("CloseResultSet")' /\ ~Due("DropStatementId")'
    BY <1>3, <2>1, DueIs, DueWillBe
  <2> QED
    BY <1>1, <1>2, <2>1, <2>2 DEF ReleaseInv
<1>4. CASE dropping = <<"DropStatementId">>
  <2>1. dropping' = <<>> /\ cursor' = cursor
        /\ stmt' = IF ~broken THEN "dropped" ELSE stmt
    BY <1>4 DEF SendDropRequest
  <2>2. ~Due("CloseResultSet") /\ Due("DropStatementId")
        /\ ~Due("CloseResultSet")' /\ ~Due("DropStatementId")'
    BY <1>4, <2>1, DueIs, DueWillBe
  <2> QED
    BY <1>1, <1>2, <2>1, <2>2 DEF ReleaseInv
<1>5. CASE dropping = <<"CloseResultSet", "DropStatementId">>
  <2>1. dropping' = <<"DropStatementId">> /\ stmt' = stmt
        /\ cursor' = IF cursor = "open" /\ ~broken THEN "released" ELSE cursor
    BY <1>5 DEF SendDropRequest
  <2>2. Due("CloseResultSet") /\ Due("DropStatementId")
        /\ ~Due("CloseResultSet")' /\ Due("DropStatementId")'
    BY <1>5, <2>1, DueIs, DueWillBe
  <2> QED
    BY <1>1, <1>2, <2>1, <2>2 DEF ReleaseInv
<1> QED
  BY <1>3, <1>4, <1>5 DEF TypeOK, Drops, SendDropRequest

\* No step lets go of a cursor or a statement that nobody will release, or
\* releases one that is in use.
LEMMA ReleaseStep ==
  ASSUME TypeOK, CallInv, AttributesInv, ReleaseInv, [Next]_vars
  PROVE  ReleaseInv'
<1> USE DEF handles, rsState, opVars, server, wire, history
<1>0. rscore \in BOOLEAN /\ attributes \in AttributesType /\ FALSE \in BOOLEAN
      /\ (attributes.closed => cursor # "open")
  BY DEF TypeOK, StateTypes, AttributesInv
<1>1. CASE SendFetch
  <2>1. CoreIsAlive' <=> CoreIsAlive
    BY <1>1 DEF SendFetch, CoreIsAlive, CoreAlive, BufferedRows
  <2> QED
    BY <1>1, <2>1, ReleaseKept DEF SendFetch
<1>2. CASE SendFetchFails
  <2>1. CoreIsAlive' <=> CoreIsAlive
    BY <1>2 DEF SendFetchFails, CoreIsAlive, CoreAlive, BufferedRows
  <2> QED
    BY <1>2, <2>1, ReleaseKept DEF SendFetchFails
<1>3. CASE SrvSendError
  <2>1. CoreIsAlive' <=> CoreIsAlive
    BY <1>3 DEF SrvSendError, CoreIsAlive, CoreAlive, BufferedRows
  <2> QED
    BY <1>3, <2>1, ReleaseKept DEF SrvSendError
<1>4. CASE SrvSendPacket
  <2>1. CoreIsAlive' <=> CoreIsAlive
    BY <1>4 DEF SrvSendPacket, CoreIsAlive, CoreAlive, BufferedRows
  <2>2. cursor' # cursor => cursor' \in {"lost", "closed"}
    BY <1>4, PacketSent
  <2> QED
    BY <1>4, <2>1, <2>2, ReleaseKept DEF SrvSendPacket
<1>5. CASE ReadPacket
  <2>1. rscore /\ CoreIsAlive
    BY <1>5 DEF ReadPacket, CallInv, CoreIsAlive, CoreAlive
  <2>2. /\ attributes' = reply.attributes /\ reply.attributes \in AttributesType
        /\ attributes'.closed => cursor # "open"
    BY <1>5 DEF ReadPacket, AttributesOf, TypeOK, WireTypes, ReplyType, AttributesInv
  <2> DEFINE rows == userRows \cup BufferedRows \cup RowsOf(reply.rows)
  <2>3. AfterDrop(rscore', rows, attributes') /\ rscore' \in BOOLEAN
    <3>1. AfterDrop(rscore', rows, attributes') /\ rscore' = ~attributes'.last
      BY <1>5 DEF ReadPacket
    <3>2. attributes'.last \in BOOLEAN
      BY <2>2 DEF AttributesType
    <3> QED
      BY <3>1, <3>2
  <2>4. CoreIsAlive' <=> CoreAlive(rscore', rows)
    <3>1. RowsOf(nextRows \o reply.rows) = RowsOf(nextRows) \cup RowsOf(reply.rows)
      BY RowsTyped, RowsOfBoth
    <3>2. UNCHANGED <<userRows, rowIter, hasLobs>> /\ nextRows' = nextRows \o reply.rows
      BY <1>5 DEF ReadPacket, NextRowsWith
    <3>3. userRows' \cup BufferedRows' = rows
      BY <3>1, <3>2 DEF BufferedRows
    <3>4. CoreIsAlive' <=> rscore' \/ (hasLobs /\ rows # {})
      BY <3>2, <3>3 DEF CoreIsAlive, CoreAlive
    <3> QED
      BY <3>4 DEF CoreAlive
  <2>5. attributes' \in AttributesType
    BY <2>2
  <2>6. UNCHANGED <<psAlive, cursor, stmt, broken>>
    BY <1>5 DEF ReadPacket
  <2> HIDE DEF rows
  <2> QED
    <3>1. ASSUME NEW core \in BOOLEAN, NEW attrs \in AttributesType, core = rscore',
                 attrs = attributes'
          PROVE  ReleaseInv'
      BY <2>1, <2>2, <2>3, <2>4, <2>6, <3>1, ReleaseAfterDrop
    <3> QED
      BY <2>3, <2>5, <3>1
<1>6. CASE ReadError
  <2>1. CoreIsAlive' <=> CoreIsAlive
    BY <1>6 DEF ReadError, CoreIsAlive, CoreAlive, BufferedRows
  <2> QED
    BY <1>6, <2>1, ReleaseKept DEF ReadError
<1>7. CASE Reconnect
  <2>1. CoreIsAlive' <=> CoreIsAlive
    BY <1>7 DEF Reconnect, CoreIsAlive, CoreAlive, BufferedRows
  <2> QED
    BY <1>7, <2>1, ReleaseKept DEF Reconnect
<1>8. CASE NextRowFetched
  <2>1. SwapAndReturn /\ rowIter = <<>>
    BY <1>8 DEF NextRowFetched, CallInv
  <2>2. CoreIsAlive' <=> CoreIsAlive
    BY <2>1, SwapInUse
  <2> QED
    BY <2>1, <2>2, ReleaseKept DEF SwapAndReturn
<1>9. CASE TotalFetch
  <2>1. CoreIsAlive' <=> CoreIsAlive
    BY <1>9 DEF TotalFetch, CoreIsAlive, CoreAlive, BufferedRows
  <2> QED
    BY <1>9, <2>1, ReleaseKept DEF TotalFetch
<1>10. CASE TotalReturn
  <2>1. CoreIsAlive' <=> CoreIsAlive
    BY <1>10 DEF TotalReturn, CoreIsAlive, CoreAlive, BufferedRows
  <2> QED
    BY <1>10, <2>1, ReleaseKept DEF TotalReturn
<1>11. CASE ReturnInconsistent
  <2>1. CoreIsAlive' <=> CoreIsAlive
    BY <1>11 DEF ReturnInconsistent, CoreIsAlive, CoreAlive, BufferedRows
  <2> QED
    BY <1>11, <2>1, ReleaseKept DEF ReturnInconsistent
<1>12. CASE SendDropRequest
  BY <1>12, ReleaseSent
<1>13. CASE NextRowBuffered
  <2>1. /\ rowIter # <<>> /\ userRows' = userRows \cup {Head(rowIter)} /\ rowIter' = Tail(rowIter)
        /\ UNCHANGED <<nextRows, rscore, hasLobs>>
    BY <1>13 DEF NextRowBuffered, ReturnRow
  <2>2. (userRows \cup {Head(rowIter)}) \cup (RowsOf(Tail(rowIter)) \cup RowsOf(nextRows)) =
           userRows \cup (RowsOf(rowIter) \cup RowsOf(nextRows))
    BY <2>1, RowsTyped, RowsInUse
  <2>3. userRows' \cup BufferedRows' = userRows \cup BufferedRows
    BY <2>1, <2>2 DEF BufferedRows
  <2>4. CoreIsAlive' <=> CoreIsAlive
    BY <2>1, <2>3 DEF CoreIsAlive, CoreAlive
  <2> QED
    BY <1>13, <2>4, ReleaseKept DEF NextRowBuffered
<1>14. CASE NextRowSwap
  <2>1. SwapAndReturn /\ rowIter = <<>>
    BY <1>14 DEF NextRowSwap, CallInv
  <2>2. CoreIsAlive' <=> CoreIsAlive
    BY <2>1, SwapInUse
  <2> QED
    BY <2>1, <2>2, ReleaseKept DEF SwapAndReturn
<1>15. CASE NextRowFetch
  <2>1. CoreIsAlive' <=> CoreIsAlive
    BY <1>15 DEF NextRowFetch, CoreIsAlive, CoreAlive, BufferedRows
  <2> QED
    BY <1>15, <2>1, ReleaseKept DEF NextRowFetch
<1>16. CASE TotalStart
  <2>1. CoreIsAlive' <=> CoreIsAlive
    BY <1>16 DEF TotalStart, CoreIsAlive, CoreAlive, BufferedRows
  <2> QED
    BY <1>16, <2>1, ReleaseKept DEF TotalStart
<1>17. CASE IntoSingleRow
  <2>1. UNCHANGED <<psAlive, cursor, stmt, broken, hasLobs, attributes>>
    BY <1>17 DEF IntoSingleRow
  <2>2. AfterDrop(FALSE, userRows', attributes)
    BY <1>17 DEF IntoSingleRow
  <2>3. rowIter' = <<>> /\ nextRows' = <<>> /\ rscore' = FALSE
    BY <1>17 DEF IntoSingleRow
  <2>4. CoreIsAlive' <=> CoreAlive(FALSE, userRows')
    <3>1. userRows' \cup BufferedRows' = userRows'
      BY <2>3, NoRows DEF BufferedRows
    <3> QED
      BY <2>1, <2>3, <3>1 DEF CoreIsAlive, CoreAlive
  <2>5. userRows' \subseteq userRows \cup BufferedRows
    <3>1. CASE userRows' = userRows
      BY <3>1
    <3>2. CASE RowCount = 1 /\ userRows' = userRows \cup {(rowIter \o nextRows)[1]}
      <4>1. rowIter \o nextRows \in Seq(Nat) /\ Len(rowIter \o nextRows) = 1
        BY <3>2, RowsTyped, ConcatProperties, LenProperties DEF RowCount
      <4>2. 1 \in DOMAIN (rowIter \o nextRows)
        BY <4>1, LenProperties
      <4>3. (rowIter \o nextRows)[1] \in RowsOf(rowIter \o nextRows)
        BY <4>2 DEF RowsOf
      <4>4. RowsOf(rowIter \o nextRows) = BufferedRows
        BY RowsTyped, RowsOfBoth DEF BufferedRows
      <4> QED
        BY <3>2, <4>3, <4>4
    <3> QED
      BY <1>17, <3>1, <3>2 DEF IntoSingleRow, ReturnRow
  <2>6. CoreIsAlive' => CoreIsAlive
    BY <2>4, <2>5 DEF CoreIsAlive, CoreAlive
  <2> QED
    BY <1>0, <2>1, <2>2, <2>4, <2>6, ReleaseAfterDrop
<1>18. CASE DropResultSet
  <2>1. UNCHANGED <<psAlive, cursor, stmt, broken, hasLobs, attributes>>
    BY <1>18 DEF DropResultSet
  <2>2. AfterDrop(FALSE, userRows, attributes)
    BY <1>18 DEF DropResultSet
  <2>3. userRows' = userRows /\ rowIter' = <<>> /\ nextRows' = <<>> /\ rscore' = FALSE
    BY <1>18 DEF DropResultSet
  <2>4. CoreIsAlive' <=> CoreAlive(FALSE, userRows)
    <3>1. userRows' \cup BufferedRows' = userRows
      BY <2>3, NoRows DEF BufferedRows
    <3> QED
      BY <2>1, <2>3, <3>1 DEF CoreIsAlive, CoreAlive
  <2>5. CoreIsAlive' => CoreIsAlive
    BY <2>4 DEF CoreIsAlive, CoreAlive
  <2> QED
    BY <1>0, <2>1, <2>2, <2>4, <2>5, ReleaseAfterDrop
<1>19. CASE DropPreparedStatement
  <2>1. CoreIsAlive' <=> CoreIsAlive
    BY <1>19 DEF DropPreparedStatement, CoreIsAlive, CoreAlive, BufferedRows
  <2>2. UNCHANGED <<cursor, stmt, broken>> /\ psAlive' = FALSE /\ dropping = <<>> /\ psAlive
    BY <1>19 DEF DropPreparedStatement, Free
  <2>3. ~Due("CloseResultSet") /\ ~Due("DropStatementId")
    BY <2>2, DueIs
  <2>4. CASE CoreIsAlive
    <3>1. dropping' = <<>>
      BY <1>19, <2>2, <2>4 DEF DropPreparedStatement
    <3>2. ~Due("CloseResultSet")' /\ ~Due("DropStatementId")'
      BY <3>1, DueWillBe
    <3> QED
      BY <2>1, <2>2, <2>4, <3>2 DEF ReleaseInv
  <2>5. CASE ~CoreIsAlive
    <3>1. dropping' = <<>> \o <<"DropStatementId">>
      BY <1>19, <2>2, <2>5 DEF DropPreparedStatement
    <3>2. dropping' = <<"DropStatementId">>
      BY <3>1, EmptyBefore
    <3>3. ~Due("CloseResultSet")' /\ Due("DropStatementId")'
      BY <3>2, DueWillBe
    <3> QED
      BY <2>1, <2>2, <2>3, <2>5, <3>3 DEF ReleaseInv
  <2> QED
    BY <2>4, <2>5
<1>20. ASSUME NEW r \in userRows, DropRow(r) PROVE ReleaseInv'
  <2>1. UNCHANGED <<psAlive, cursor, stmt, broken, hasLobs, attributes>>
    BY <1>20 DEF DropRow
  <2>2. AfterDrop(rscore, userRows' \cup BufferedRows, attributes)
    BY <1>20 DEF DropRow
  <2>3. userRows' = userRows \ {r} /\ UNCHANGED <<rowIter, nextRows, rscore>>
    BY <1>20 DEF DropRow
  <2>4. CoreIsAlive' <=> CoreAlive(rscore, userRows' \cup BufferedRows)
    BY <2>1, <2>3 DEF CoreIsAlive, CoreAlive, BufferedRows
  <2>5. CoreIsAlive' => CoreIsAlive
    BY <2>3, <2>4 DEF CoreIsAlive, CoreAlive
  <2> QED
    BY <1>0, <2>1, <2>2, <2>4, <2>5, ReleaseAfterDrop
<1>21. ASSUME NEW fault \in Faults, ReadBreaks(fault) PROVE ReleaseInv'
  <2>1. rscore /\ UNCHANGED <<psAlive, dropping, stmt, cursor, rscore>>
    BY <1>21 DEF ReadBreaks, CallInv
  <2>2. CoreIsAlive /\ CoreIsAlive'
    BY <2>1 DEF CoreIsAlive, CoreAlive
  <2>3. broken => broken'
    BY <1>21 DEF ReadBreaks, Breaks
  <2> QED
    BY <2>1, <2>2, <2>3, ReleaseKept
<1>22. ASSUME NEW fault \in Faults, FetchBreaks(fault) PROVE ReleaseInv'
  <2>1. CoreIsAlive' <=> CoreIsAlive
    BY <1>22 DEF FetchBreaks, CoreIsAlive, CoreAlive, BufferedRows
  <2> QED
    BY <1>22, <2>1, ReleaseKept DEF FetchBreaks, Breaks
<1>23. CASE UNCHANGED vars
  <2>1. CoreIsAlive' <=> CoreIsAlive
    BY <1>23 DEF vars, CoreIsAlive, CoreAlive, BufferedRows
  <2> QED
    BY <1>23, <2>1, ReleaseKept DEF vars
<1> QED
  BY <1>1, <1>2, <1>3, <1>4, <1>5, <1>6, <1>7, <1>8, <1>9, <1>10, <1>11, <1>12, <1>13,
     <1>14, <1>15, <1>16, <1>17, <1>18, <1>19, <1>20, <1>21, <1>22, <1>23 DEF Next,
     CallStep, UserStep, FaultStep

-----------------------------------------------------------------------------
(* The theorems.                                                           *)

\* The reply to the query builds a ResultSet in which all parts of the invariant hold.
LEMMA IInvInit == Init => IInv
BY TypeInit, CallInvInit, AttributesInit, OrderInit, CompleteInit, ReleaseInit DEF IInv

\* Every step of a call, of the user, of the server and every fault keeps them.
LEMMA IInvStep == IInv /\ [Next]_vars => IInv'
<1> SUFFICES ASSUME IInv, [Next]_vars PROVE IInv'
  OBVIOUS
<1>1. TypeOK /\ CallInv /\ AttributesInv /\ OrderInv /\ CompleteInv /\ ReleaseInv
  BY DEF IInv
<1>2. TypeOK'
  BY <1>1, TypeStep
<1>3. CallInv' /\ AttributesInv'
  BY <1>1, CallInvStep, AttributesStep
<1>4. OrderInv' /\ CompleteInv'
  BY <1>1, <1>2, OrderStep, CompleteStep
<1>5. ReleaseInv'
  BY <1>1, ReleaseStep
<1> QED
  BY <1>2, <1>3, <1>4, <1>5 DEF IInv

\* In every reachable state the packets that arrived, the position of the server
\* and the requests of drops agree, whatever connection resets, errors and
\* replies that were parsed in part there were.
THEOREM ResultSetInvariant == Spec => []IInv
<1>1. Init => IInv
  BY IInvInit
<1>2. IInv /\ [Next]_vars => IInv'
  BY IInvStep
<1> QED
  BY <1>1, <1>2, PTL DEF Spec

\* The fields of RsState and of the handles have their types.
THEOREM ResultSetTypes == Spec => []TypeOK
<1>1. IInv => TypeOK
  BY DEF IInv
<1> QED
  BY <1>1, ResultSetInvariant, PTL

\* Without a reply, all rows are those buffered or handed out.
LEMMA NothingComing ==
  ASSUME TypeOK, reply = NoReply
  PROVE  Coming = AllRows
BY RowsTyped, ConcatEmptySeq DEF Coming, NoReply

\* Rows are handed out and buffered once and in their order, for every number of
\* rows and every packet size: parse_rows appends to next_rows row by row and
\* keeps what it has appended when a fetch fails, but full_send_sync never
\* brings those rows again.
THEOREM RowsOnce == Spec => []NoRowTwice
<1>1. IInv => NoRowTwice
  <2> SUFFICES ASSUME IInv PROVE Increasing(AllRows)
    BY DEF NoRowTwice
  <2>1. TypeOK /\ Increasing(Coming) /\ \A i \in DOMAIN Coming : Coming[i] \in 1..pos
    BY DEF IInv, OrderInv
  <2>2. AllRows \in Seq(Nat) /\ reply.rows \in Seq(Nat) /\ Coming \in Seq(Nat)
    BY <2>1, RowsTyped
  <2>3. Begins(AllRows, Coming)
    BY <2>2, ConcatBegins DEF Coming
  <2> QED
    BY <2>1, <2>2, <2>3, OrderOfBeginning
<1> QED
  BY <1>1, ResultSetInvariant, PTL

\* Numbered rows are those of a query.
LEMMA NumberedAre ==
  ASSUME NEW q \in Seq(Nat), NEW last \in Nat, Len(q) = last, \A i \in DOMAIN q : q[i] = i
  PROVE  q = RowsFromTo(1, last)
<1>1. 1 \in Nat /\ 1 <= last + 1 /\ last - 1 + 1 = last
  OBVIOUS
<1>2. /\ RowsFromTo(1, last) \in Seq(Nat) /\ Len(RowsFromTo(1, last)) = last - 1 + 1
      /\ \A i \in 1..(last - 1 + 1) : RowsFromTo(1, last)[i] = 1 + i - 1
  BY <1>1, PacketOfRows
<1>3. Len(RowsFromTo(1, last)) = last /\ DOMAIN q = 1..last
  BY <1>1, <1>2, LenProperties
<1>4. ASSUME NEW i \in 1..last PROVE RowsFromTo(1, last)[i] = q[i]
  BY <1>1, <1>2, <1>3
<1> QED
  BY <1>2, <1>3, <1>4, SeqEqual

\* No row is missing, and next_row returns None only after the last row, when no
\* fetch failed and no cursor survived the loss of its reply.
THEOREM RowsComplete == Spec => []NoRowMissing
<1>1. IInv => NoRowMissing
  <2> SUFFICES ASSUME IInv, NoTrouble
               PROVE  /\ op = "none" /\ rsAlive => AllRows = RowsFromTo(1, pos)
                      /\ result.kind = "end" => Len(delivered) = N
    BY DEF NoRowMissing
  <2>1. TypeOK /\ CallInv /\ CompleteInv
    BY DEF IInv
  <2>2. ASSUME op = "none", rsAlive PROVE AllRows = RowsFromTo(1, pos)
    <3>1. phase = "idle" /\ reply = NoReply
      BY <2>1, <2>2 DEF CallInv
    <3>2. Len(Coming) = pos /\ \A i \in DOMAIN Coming : Coming[i] = i
      BY <2>1, <2>2, <3>1 DEF CompleteInv, Synchronous
    <3>3. Coming \in Seq(Nat) /\ pos \in Nat /\ Coming = AllRows
      BY <2>1, <3>1, RowsTyped, NothingComing, Bounds DEF TypeOK, ServerTypes
    <3> QED
      BY <3>2, <3>3, NumberedAre
  <2> QED
    BY <2>1, <2>2 DEF CompleteInv
<1> QED
  BY <1>1, ResultSetInvariant, PTL

\* In whatever order the statement, the result set and the rows are dropped, the
\* statement goes after its cursor, the cursor not while a row with a LOB is in
\* use, and both when nothing refers to them any more.
THEOREM ReleasesInOrder == Spec => []ReleasedInOrder
<1>1. IInv => ReleasedInOrder
  <2> SUFFICES ASSUME IInv PROVE ReleasedInOrder
    OBVIOUS
  <2>1. ReleaseInv
    BY DEF IInv
  <2>2. hasLobs /\ (userRows \cup BufferedRows) # {} => CoreIsAlive
    BY DEF CoreIsAlive, CoreAlive
  <2>3. HandlesGone => cursor # "open" /\ (~psAlive => stmt # "open")
    <3> SUFFICES ASSUME HandlesGone PROVE cursor # "open" /\ (~psAlive => stmt # "open")
      OBVIOUS
    <3>1. ~CoreIsAlive /\ dropping = <<>> /\ ~broken
      BY DEF HandlesGone
    <3>2. ~Due("CloseResultSet") /\ ~Due("DropStatementId")
      BY <3>1, DueIs
    <3> QED
      BY <2>1, <3>1, <3>2 DEF ReleaseInv
  <2> QED
    BY <2>1, <2>2, <2>3 DEF ReleasedInOrder, ReleaseInv
<1> QED
  BY <1>1, ResultSetInvariant, PTL

\* Only total_number_of_rows returns a total, when everything was fetched.
LEMMA TotalReturned ==
  ASSUME TypeOK, CallInv, [Next]_vars, op = "total", op' = "none", result'.kind = "total"
  PROVE  phase = "fetched" /\ rsAlive /\ IsComplete /\ result'.value = RowCount
<1> DEFINE Goal == phase = "fetched" /\ rsAlive /\ IsComplete /\ result'.value = RowCount
<1> USE DEF CallInv, handles, rsState, opVars, server, wire, history
<1>1. CASE SendFetch
  BY <1>1 DEF SendFetch
<1>2. CASE SendFetchFails
  BY <1>2 DEF SendFetchFails, Return, Result
<1>3. CASE SrvSendError
  BY <1>3 DEF SrvSendError, NoReply
<1>4. CASE SrvSendPacket
  BY <1>4 DEF SrvSendPacket
<1>5. CASE ReadPacket
  BY <1>5 DEF ReadPacket
<1>6. CASE ReadError
  BY <1>6 DEF ReadError, Return, Result
<1>7. CASE Reconnect
  BY <1>7 DEF Reconnect
<1>8. CASE NextRowFetched
  BY <1>8 DEF NextRowFetched, SwapAndReturn, RowsAfterSwap, ReturnRow, Return, Result
<1>9. CASE TotalFetch
  BY <1>9 DEF TotalFetch, IsComplete, IsInconsistent
<1>10. CASE TotalReturn
  BY <1>10 DEF TotalReturn, Return, Result, IsComplete, RowCount
<1>11. CASE ReturnInconsistent
  BY <1>11 DEF ReturnInconsistent, IsInconsistent, Return, Result
<1>12. CASE SendDropRequest
  BY <1>12 DEF SendDropRequest
<1>13. CASE NextRowBuffered
  BY <1>13 DEF NextRowBuffered, Free, ReturnRow, Return, Result
<1>14. CASE NextRowSwap
  BY <1>14 DEF NextRowSwap, Free, IsComplete, SwapAndReturn, RowsAfterSwap, ReturnRow,
     Return, Result
<1>15. CASE NextRowFetch
  BY <1>15 DEF NextRowFetch, Free, IsComplete, IsInconsistent
<1>16. CASE TotalStart
  BY <1>16 DEF TotalStart, Free
<1>17. CASE IntoSingleRow
  BY <1>17 DEF IntoSingleRow, Free, ReturnRow, Return, Result
<1>18. CASE DropResultSet
  BY <1>18 DEF DropResultSet, Free
<1>19. CASE DropPreparedStatement
  BY <1>19 DEF DropPreparedStatement, Free
<1>20. ASSUME NEW r \in userRows, DropRow(r) PROVE Goal
  BY <1>20 DEF DropRow, Free
<1>21. ASSUME NEW fault \in Faults, ReadBreaks(fault) PROVE Goal
  BY <1>21 DEF ReadBreaks, Breaks, Return, Result, NextRowsWith, AttributesOf
<1>22. ASSUME NEW fault \in Faults, FetchBreaks(fault) PROVE Goal
  BY <1>22 DEF FetchBreaks, Breaks, Return, Result
<1>23. CASE UNCHANGED vars
  BY <1>23 DEF vars
<1> QED
  BY <1>1, <1>2, <1>3, <1>4, <1>5, <1>6, <1>7, <1>8, <1>9, <1>10, <1>11, <1>12, <1>13,
     <1>14, <1>15, <1>16, <1>17, <1>18, <1>19, <1>20, <1>21, <1>22, <1>23 DEF Next,
     CallStep, UserStep, FaultStep

\* total_number_of_rows counts the rows of the query without those handed out.
THEOREM TotalCounts == Spec => TotalIsRight
<1>1. IInv /\ [Next]_vars =>
        (NoTrouble /\ op = "total" /\ op' = "none" /\ result'.kind = "total"
           => result'.value = N - Len(delivered))
  <2> SUFFICES ASSUME IInv, [Next]_vars, NoTrouble, op = "total", op' = "none",
                      result'.kind = "total"
               PROVE  result'.value = N - Len(delivered)
    OBVIOUS
  <2>1. TypeOK /\ CallInv /\ AttributesInv /\ CompleteInv
    BY DEF IInv
  <2>2. phase = "fetched" /\ rsAlive /\ IsComplete /\ result'.value = RowCount
    BY <2>1, TotalReturned
  <2>3. reply = NoReply /\ pos = N
    BY <2>1, <2>2 DEF CallInv, AttributesInv, IsComplete
  <2>4. Len(Coming) = pos
    BY <2>1, <2>2 DEF CompleteInv, Synchronous
  <2>5. Len(AllRows) = N
    BY <2>1, <2>3, <2>4, NothingComing
  <2>6. /\ Len(AllRows) = Len(delivered) + Len(rowIter) + Len(nextRows)
        /\ Len(delivered) \in Nat /\ Len(rowIter) \in Nat /\ Len(nextRows) \in Nat
    BY <2>1, RowsTyped, LenProperties
  <2>7. result'.value = Len(nextRows) + Len(rowIter) /\ N \in Nat
    BY <2>2, Bounds DEF RowCount
  <2> QED
    BY <2>5, <2>6, <2>7
<1> QED
  BY <1>1, ResultSetInvariant, PTL DEF Spec, TotalIsRight

=============================================================================
