----------------------- MODULE PreparedStatementProofs -----------------------
(***************************************************************************)
(* Proofs about PreparedStatement, for every set of statements, of values, *)
(* of faults and of write lengths.  StatementInv: rows keep the numbers    *)
(* under which they were accepted, each LOB that is still to be written    *)
(* has a locator of its own, and the row that waits for its LOBs was not   *)
(* executed yet; so no row is executed twice, whatever fails.  LobsInv:    *)
(* what was sent, what is buffered and what the reader still has are       *)
(* together what was given; so LOBs arrive whole, and text is cut between  *)
(* characters only.  ReplyInv: the batch is what was asked for, and the    *)
(* results are those that the server has sent; so the program is told what *)
(* became of each row, and gets its results in their order.  And no        *)
(* statement is left behind on the server.                                 *)
(***************************************************************************)
EXTENDS PreparedStatement, TextProofs

-----------------------------------------------------------------------------
(* Sequences of any elements.                                              *)

\* A sequence over some set is one over its own elements.
LEMMA IsSequenceOf ==
  ASSUME NEW T, NEW q \in Seq(T)
  PROVE  IsSequence(q) /\ DOMAIN q = 1..Len(q) /\ Len(q) \in Nat
<1>1. DOMAIN q = 1..Len(q) /\ Len(q) \in Nat /\ q \in [1..Len(q) -> T]
  BY LenProperties
<1>2. q \in [1..Len(q) -> {q[k] : k \in DOMAIN q}]
  BY <1>1
<1>3. q \in Seq({q[k] : k \in DOMAIN q})
  BY <1>1, <1>2, SeqDef
<1> QED
  BY <1>1, <1>3 DEF IsSequence

\* The domain of a sequence.
LEMMA SequenceDomain ==
  ASSUME NEW q, IsSequence(q)
  PROVE  DOMAIN q = 1..Len(q) /\ Len(q) \in Nat
BY LenProperties DEF IsSequence

\* No elements.
LEMMA IsSequenceEmpty == IsSequence(<<>>) /\ Len(<<>>) = 0 /\ DOMAIN <<>> = {}
<1>1. <<>> \in Seq({}) /\ Len(<<>>) = 0
  BY EmptySeq
<1>2. IsSequence(<<>>)
  BY <1>1, IsSequenceOf
<1> QED
  BY <1>1, <1>2

\* A sequence over a larger set.
LEMMA SequenceOver ==
  ASSUME NEW q, IsSequence(q), NEW T, \A k \in DOMAIN q : q[k] \in T
  PROVE  q \in Seq(T)
<1>1. DOMAIN q = 1..Len(q) /\ Len(q) \in Nat /\ q \in [1..Len(q) -> {q[k] : k \in DOMAIN q}]
  BY LenProperties DEF IsSequence
<1>2. q \in [1..Len(q) -> T]
  BY <1>1
<1> QED
  BY <1>1, <1>2, SeqDef

\* One more element.
LEMMA SequenceAppended ==
  ASSUME NEW q, IsSequence(q), NEW x
  PROVE  /\ IsSequence(Append(q, x)) /\ Len(Append(q, x)) = Len(q) + 1 /\ Len(q) \in Nat
         /\ DOMAIN q = 1..Len(q) /\ DOMAIN Append(q, x) = 1..(Len(q) + 1)
         /\ \A k \in DOMAIN q : Append(q, x)[k] = q[k]
         /\ Append(q, x)[Len(q) + 1] = x
<1> DEFINE T == {q[k] : k \in DOMAIN q} \cup {x}
<1>1. q \in Seq(T) /\ x \in T
  BY SequenceOver
<1> HIDE DEF T
<1>2. /\ Append(q, x) \in Seq(T) /\ Len(Append(q, x)) = Len(q) + 1
      /\ \A k \in 1..Len(q) : Append(q, x)[k] = q[k]
      /\ Append(q, x)[Len(q) + 1] = x
  BY <1>1, AppendProperties
<1>3. DOMAIN q = 1..Len(q) /\ Len(q) \in Nat
  BY SequenceDomain
<1>4. IsSequence(Append(q, x)) /\ DOMAIN Append(q, x) = 1..Len(Append(q, x))
  BY <1>2, IsSequenceOf
<1> QED
  BY <1>2, <1>3, <1>4

\* More elements.
LEMMA SequenceExtended ==
  ASSUME NEW q, IsSequence(q), NEW r, IsSequence(r)
  PROVE  /\ IsSequence(q \o r) /\ DOMAIN (q \o r) = 1..(Len(q) + Len(r))
         /\ \A k \in 1..(Len(q) + Len(r)) : (q \o r)[k] =
               IF k <= Len(q) THEN q[k] ELSE r[k - Len(q)]
<1> DEFINE T == {q[k] : k \in DOMAIN q} \cup {r[k] : k \in DOMAIN r}
<1>1. q \in Seq(T) /\ r \in Seq(T)
  BY SequenceOver
<1> HIDE DEF T
<1>2. /\ q \o r \in Seq(T) /\ Len(q \o r) = Len(q) + Len(r)
      /\ \A k \in 1..(Len(q) + Len(r)) : (q \o r)[k] =
            IF k <= Len(q) THEN q[k] ELSE r[k - Len(q)]
  BY <1>1, ConcatProperties
<1>3. IsSequence(q \o r) /\ DOMAIN (q \o r) = 1..Len(q \o r)
  BY <1>2, IsSequenceOf
<1> QED
  BY <1>2, <1>3

\* One element less.
LEMMA SequenceTail ==
  ASSUME NEW q, IsSequence(q), q # <<>>
  PROVE  /\ IsSequence(Tail(q)) /\ 1 \in DOMAIN q
         /\ \A k \in DOMAIN Tail(q) : /\ k \in Nat \ {0} /\ k + 1 \in DOMAIN q
                                      /\ Tail(q)[k] = q[k + 1]
         /\ \A k \in DOMAIN q : k # 1 => k - 1 \in DOMAIN Tail(q) /\ Tail(q)[k - 1] = q[k]
<1> DEFINE T == {q[k] : k \in DOMAIN q}
<1>1. q \in Seq(T)
  BY DEF IsSequence
<1> HIDE DEF T
<1>2. /\ Tail(q) \in Seq(T) /\ Len(Tail(q)) = Len(q) - 1
      /\ \A k \in 1..Len(Tail(q)) : Tail(q)[k] = q[k + 1]
  BY <1>1, HeadTailProperties
<1>3. IsSequence(Tail(q)) /\ DOMAIN Tail(q) = 1..Len(Tail(q)) /\ Len(Tail(q)) \in Nat
  BY <1>2, IsSequenceOf
<1>4. DOMAIN q = 1..Len(q) /\ Len(q) \in Nat
  BY SequenceDomain
<1>5. Len(q) # 0
  BY <1>1, EmptySeq
<1>6. ASSUME NEW k \in DOMAIN q, k # 1 PROVE k - 1 \in DOMAIN Tail(q) /\ Tail(q)[k - 1] = q[k]
  <2>1. k - 1 \in 1..Len(Tail(q)) /\ (k - 1) + 1 = k
    BY <1>2, <1>3, <1>4, <1>6
  <2> QED
    BY <1>2, <1>3, <2>1
<1> QED
  BY <1>2, <1>3, <1>4, <1>5, <1>6

\* A function on the first numbers.
LEMMA SequenceOfFunction ==
  ASSUME NEW n \in Nat, NEW q, DOMAIN q = 1..n, q = [k \in 1..n |-> q[k]]
  PROVE  IsSequence(q) /\ Len(q) = n
<1>1. q \in [1..n -> {q[k] : k \in DOMAIN q}]
  OBVIOUS
<1>2. q \in Seq({q[k] : k \in DOMAIN q})
  BY <1>1, SeqDef
<1> QED
  BY <1>2, LenProperties DEF IsSequence

-----------------------------------------------------------------------------
(* Rows and their numbers.                                                 *)

\* The rows have numbers up to n.
UpTo(rows, n) == \A k \in DOMAIN rows : rows[k].id \in 1..n

\* A row has the number that it was given.
LEMMA RowId == \A id, values : Row(id, values).id = id
BY DEF Row

\* The numbers of rows, one by one.
LEMMA IdsOf ==
  ASSUME NEW rows, NEW k \in DOMAIN rows
  PROVE  rows[k].id \in Ids(rows)
BY DEF Ids

\* One more row, with a new number.
LEMMA RowAppended ==
  ASSUME NEW rows, IsSequence(rows), NEW row, NEW n \in Nat, UpTo(rows, n), Different(rows),
         row.id \in 1..n, row.id \notin Ids(rows)
  PROVE  /\ IsSequence(Append(rows, row)) /\ UpTo(Append(rows, row), n)
         /\ Different(Append(rows, row)) /\ Ids(Append(rows, row)) = Ids(rows) \cup {row.id}
<1> DEFINE q == Append(rows, row)
<1>1. /\ IsSequence(q) /\ Len(rows) \in Nat /\ DOMAIN rows = 1..Len(rows)
      /\ DOMAIN q = 1..(Len(rows) + 1) /\ \A k \in DOMAIN rows : q[k] = rows[k]
      /\ q[Len(rows) + 1] = row
  BY SequenceAppended
<1> HIDE DEF q
<1>2. ASSUME NEW k \in DOMAIN q
      PROVE  (k \in DOMAIN rows /\ q[k] = rows[k]) \/ (k = Len(rows) + 1 /\ q[k] = row)
  BY <1>1
<1>3. UpTo(q, n)
  BY <1>2 DEF UpTo
<1>4. Different(q)
  <2> SUFFICES ASSUME NEW j \in DOMAIN q, NEW k \in DOMAIN q, j # k PROVE q[j].id # q[k].id
    BY DEF Different
  <2>1. CASE j \in DOMAIN rows /\ k \in DOMAIN rows
    BY <1>1, <2>1 DEF Different
  <2>2. CASE j \in DOMAIN rows /\ k = Len(rows) + 1
    BY <1>1, <2>2, IdsOf
  <2>3. CASE k \in DOMAIN rows /\ j = Len(rows) + 1
    BY <1>1, <2>3, IdsOf
  <2> QED
    BY <1>2, <2>1, <2>2, <2>3
<1>5. Ids(q) = Ids(rows) \cup {row.id}
  <2>1. Len(rows) + 1 \in DOMAIN q
    BY <1>1
  <2>2. \A k \in DOMAIN rows : k \in DOMAIN q
    BY <1>1
  <2> QED
    BY <1>1, <1>2, <2>1, <2>2 DEF Ids
<1> QED
  BY <1>1, <1>3, <1>4, <1>5 DEF q

\* An order of some of the numbers up to n has no number twice.
LEMMA OrdersAre ==
  ASSUME NEW n \in Nat, NEW set \in SUBSET (1..n), NEW q \in Orders(set)
  PROVE  /\ Cardinality(set) \in Nat /\ DOMAIN q = 1..Cardinality(set)
         /\ \A j \in DOMAIN q : q[j] \in set
         /\ \A j, k \in DOMAIN q : j # k => q[j] # q[k]
<1>1. IsFiniteSet(set)
  <2>1. IsFiniteSet(1..n)
    BY FS_Interval
  <2> QED
    BY <2>1, FS_Subset
<1>2. Cardinality(set) \in Nat
  BY <1>1, FS_CardinalityType
<1>3. /\ DOMAIN q = 1..Cardinality(set) /\ \A j \in DOMAIN q : q[j] \in set
      /\ \A i, j \in DOMAIN q : i < j => q[i] < q[j]
  BY DEF Orders
<1>4. ASSUME NEW j \in DOMAIN q, NEW k \in DOMAIN q, j # k PROVE q[j] # q[k]
  <2>1. j \in Int /\ k \in Int /\ q[j] \in Int /\ q[k] \in Int
    <3>1. j \in 1..Cardinality(set) /\ k \in 1..Cardinality(set)
      BY <1>3
    <3>2. q[j] \in 1..n /\ q[k] \in 1..n
      BY <1>3
    <3> QED
      BY <3>1, <3>2
  <2>2. j < k \/ k < j
    BY <1>4, <2>1
  <2>3. q[j] < q[k] \/ q[k] < q[j]
    BY <1>3, <2>2
  <2> QED
    BY <2>1, <2>3
<1> QED
  BY <1>2, <1>3, <1>4

\* The server executes some of the rows that were sent.
LEMMA RowsExecuted ==
  ASSUME NEW e, IsSequence(e), NEW rows, IsSequence(rows), NEW n \in Nat,
         UpTo(e, n), UpTo(rows, n), Different(e), Different(rows), Ids(e) \cap Ids(rows) = {},
         NEW set \in SUBSET (DOMAIN rows), NEW q \in Orders(set)
  PROVE  LET done == e \o [k \in DOMAIN q |-> rows[q[k]]]
         IN /\ IsSequence(done) /\ UpTo(done, n) /\ Different(done)
            /\ Ids(done) \subseteq Ids(e) \cup Ids(rows)
<1> DEFINE r == [k \in DOMAIN q |-> rows[q[k]]]
           done == e \o r
           c == Cardinality(set)
<1>1. DOMAIN rows = 1..Len(rows) /\ Len(rows) \in Nat
  BY SequenceDomain
<1>2. /\ c \in Nat /\ DOMAIN q = 1..c /\ \A j \in DOMAIN q : q[j] \in set
      /\ \A j, k \in DOMAIN q : j # k => q[j] # q[k]
  BY <1>1, OrdersAre
<1>3. DOMAIN r = 1..c /\ r = [k \in 1..c |-> r[k]]
      /\ \A k \in 1..c : q[k] \in DOMAIN rows /\ r[k] = rows[q[k]]
  BY <1>2
<1> HIDE DEF r, c
<1>4. IsSequence(r) /\ Len(r) = c
  BY <1>2, <1>3, SequenceOfFunction
<1>5. /\ IsSequence(done) /\ DOMAIN done = 1..(Len(e) + c)
      /\ \A k \in 1..(Len(e) + c) : done[k] = IF k <= Len(e) THEN e[k] ELSE r[k - Len(e)]
  BY <1>4, SequenceExtended
<1>6. DOMAIN e = 1..Len(e) /\ Len(e) \in Nat
  BY SequenceDomain
<1> HIDE DEF done
<1>7. ASSUME NEW k \in DOMAIN done
      PROVE  \/ k \in DOMAIN e /\ done[k] = e[k]
             \/ /\ k - Len(e) \in 1..c /\ k \notin DOMAIN e
                /\ q[k - Len(e)] \in DOMAIN rows /\ done[k] = rows[q[k - Len(e)]]
  <2>1. CASE k <= Len(e)
    BY <1>2, <1>5, <1>6, <2>1
  <2>2. CASE ~(k <= Len(e))
    <3>1. k - Len(e) \in 1..c /\ k \notin DOMAIN e
      BY <1>2, <1>5, <1>6, <2>2
    <3> QED
      BY <1>3, <1>5, <2>2, <3>1
  <2> QED
    BY <2>1, <2>2
<1>8. UpTo(done, n)
  BY <1>7 DEF UpTo
<1>9. Ids(done) \subseteq Ids(e) \cup Ids(rows)
  BY <1>7 DEF Ids
<1>10. Different(done)
  <2> SUFFICES ASSUME NEW j \in DOMAIN done, NEW k \in DOMAIN done, j # k
               PROVE  done[j].id # done[k].id
    BY DEF Different
  <2>1. CASE j \in DOMAIN e /\ k \in DOMAIN e
    BY <1>7, <2>1 DEF Different
  <2>2. CASE j \in DOMAIN e /\ k \notin DOMAIN e
    <3>1. done[j].id \in Ids(e) /\ done[k].id \in Ids(rows)
      BY <1>7, <2>2 DEF Ids
    <3> QED
      BY <3>1
  <2>3. CASE j \notin DOMAIN e /\ k \in DOMAIN e
    <3>1. done[k].id \in Ids(e) /\ done[j].id \in Ids(rows)
      BY <1>7, <2>3 DEF Ids
    <3> QED
      BY <3>1
  <2>4. CASE j \notin DOMAIN e /\ k \notin DOMAIN e
    <3>1. /\ j - Len(e) \in 1..c /\ done[j] = rows[q[j - Len(e)]] /\ q[j - Len(e)] \in DOMAIN rows
          /\ k - Len(e) \in 1..c /\ done[k] = rows[q[k - Len(e)]] /\ q[k - Len(e)] \in DOMAIN rows
      BY <1>7, <2>4
    <3>2. j - Len(e) # k - Len(e)
      BY <1>5, <1>6, <1>2
    <3>3. q[j - Len(e)] # q[k - Len(e)]
      BY <1>2, <3>1, <3>2
    <3> QED
      BY <3>1, <3>3 DEF Different
  <2> QED
    BY <2>1, <2>2, <2>3, <2>4
<1> QED
  BY <1>5, <1>8, <1>9, <1>10 DEF done, r

-----------------------------------------------------------------------------
(* The parts of the steps.                                                 *)

\* What StatementInv speaks of.
rowVars == <<given, batch, executed, st>>
streamVars == <<streaming, todo, writer, pending, lobs>>

\* A call that is over writes no LOBs.
LEMMA CallIsOver ==
  ASSUME NotStreaming
  PROVE  StreamInv' /\ IsSequence(todo')
<1>1. streaming' = FALSE /\ todo' = <<>> /\ writer' = NoWriter
  BY DEF NotStreaming
<1>2. writer'.open = FALSE
  BY <1>1 DEF NoWriter
<1>3. StreamInv'
  BY <1>1, <1>2 DEF StreamInv
<1> QED
  BY <1>1, <1>3, IsSequenceEmpty

\* A statement and a call that ends with an error, or with a response.
LEMMA FailIsOver ==
  ASSUME NEW reason, Fail(reason)
  PROVE  NotStreaming
BY DEF Fail

LEMMA RespondIsOver ==
  ASSUME NEW values, NEW type, Respond(values, type)
  PROVE  NotStreaming
BY DEF Respond

\* Rows that nobody touches.
LEMMA RowsKept ==
  ASSUME StatementInv, UNCHANGED rowVars
  PROVE  /\ RowsInv' /\ st' \in Statements
         /\ IsSequence(given') /\ IsSequence(batch') /\ IsSequence(executed')
<1>1. given' = given /\ batch' = batch /\ executed' = executed /\ st' = st
  BY DEF rowVars
<1>2. RowsInv'
  BY <1>1, SMTT(30) DEF StatementInv, RowsInv, Numbered, Different, Ids
<1> QED
  BY <1>1, <1>2 DEF StatementInv, SequenceTypes

\* A step that touches none of it.
LEMMA StatementStutters ==
  ASSUME StatementInv, UNCHANGED rowVars, UNCHANGED streamVars
  PROVE  StatementInv'
<1>1. /\ RowsInv' /\ st' \in Statements
      /\ IsSequence(given') /\ IsSequence(batch') /\ IsSequence(executed')
  BY RowsKept
<1>2. /\ streaming' = streaming /\ todo' = todo /\ writer' = writer
      /\ pending' = pending /\ lobs' = lobs
  BY DEF streamVars
<1>3. given' = given /\ batch' = batch /\ executed' = executed
  BY DEF rowVars
<1>4. StreamInv'
  BY <1>2, <1>3 DEF StatementInv, StreamInv, Ids
<1>5. IsSequence(todo')
  BY <1>2 DEF StatementInv, SequenceTypes
<1> QED
  BY <1>1, <1>4, <1>5 DEF StatementInv, SequenceTypes

\* A call that ends and leaves the rows alone.
LEMMA CallEnds ==
  ASSUME StatementInv, UNCHANGED rowVars, NotStreaming
  PROVE  StatementInv'
<1>1. /\ RowsInv' /\ st' \in Statements
      /\ IsSequence(given') /\ IsSequence(batch') /\ IsSequence(executed')
  BY RowsKept
<1>2. StreamInv' /\ IsSequence(todo')
  BY CallIsOver
<1> QED
  BY <1>1, <1>2 DEF StatementInv, SequenceTypes

\* A row that is accepted gets a new number.
LEMMA RowAccepted ==
  ASSUME StatementInv, NEW values, Accept(values)
  PROVE  /\ IsSequence(given') /\ Len(given) \in Nat /\ Len(given') = Len(given) + 1
         /\ UpTo(executed, Len(given)) /\ UpTo(batch, Len(given))
         /\ UpTo(executed, Len(given')) /\ UpTo(batch, Len(given'))
         /\ Len(given) + 1 \notin Ids(executed) /\ Len(given) + 1 \notin Ids(batch)
<1>1. IsSequence(given) /\ Numbered(executed) /\ Numbered(batch)
  BY DEF StatementInv, SequenceTypes, RowsInv
<1>2. given' = Append(given, values)
  BY DEF Accept
<1>3. IsSequence(given') /\ Len(given) \in Nat /\ Len(given') = Len(given) + 1
  BY <1>1, <1>2, SequenceAppended
<1>4. UpTo(executed, Len(given)) /\ UpTo(batch, Len(given))
  BY <1>1 DEF Numbered, UpTo
<1>5. \A k \in 1..Len(given) : k \in 1..Len(given') /\ k # Len(given) + 1
  BY <1>3
<1>6. UpTo(executed, Len(given')) /\ UpTo(batch, Len(given'))
  BY <1>4, <1>5 DEF UpTo
<1>7. Len(given) + 1 \notin Ids(executed) /\ Len(given) + 1 \notin Ids(batch)
  BY <1>4, <1>5 DEF UpTo, Ids
<1> QED
  BY <1>3, <1>4, <1>6, <1>7

\* What is to be shown of the rows after a step.
LEMMA RowsAfter ==
  ASSUME UpTo(executed', Len(given')), Different(executed'), UpTo(batch', Len(given')),
         Different(batch'), Ids(executed') \cap Ids(batch') = {}
  PROVE  RowsInv'
<1>1. Numbered(executed)' /\ Numbered(batch)'
  BY DEF UpTo, Numbered
<1> QED
  BY <1>1 DEF RowsInv, Different, Ids

\* The rows that are sent with a request: some of them are executed.
LEMMA RowsAreSent ==
  ASSUME StatementInv, NEW rows, IsSequence(rows), NEW n \in Nat, UpTo(executed, n),
         UpTo(rows, n), Different(rows), Ids(executed) \cap Ids(rows) = {},
         ExecuteParameterRows(rows)
  PROVE  /\ IsSequence(executed') /\ UpTo(executed', n) /\ Different(executed')
         /\ Ids(executed') \subseteq Ids(executed) \cup Ids(rows)
         /\ NotStreaming /\ st' = st
<1>1. IsSequence(executed) /\ Different(executed)
  BY DEF StatementInv, SequenceTypes, RowsInv
<1>2. PICK outcome \in (IF \A i \in DOMAIN rows : Fits(rows[i]) THEN Outcomes ELSE {"error"}),
           results \in [DOMAIN rows -> {1, ExecFailure}] :
        LET failures == HasFailure(results)
            wantsLobs == \E i \in DOMAIN rows : LobPositions(rows[i]) # {}
            parts == IF wantsLobs THEN <<Value("wlr", 0)>> ELSE st.parts
            values == IntoInternalReturnValues(parts)
        IN /\ IF Arrives(outcome) /\ ~wantsLobs THEN SrvExecuteRows(rows, results)
              ELSE UNCHANGED executed
           /\ CASE outcome # "ok" -> Fail("roundtrip")
                [] outcome = "ok" /\ failures ->
                     /\ result' = Result("results", MixErrors(results, ErrorsOf(rows, results)))
                     /\ response' = <<>> /\ NotStreaming
                [] outcome = "ok" /\ ~failures /\ ~values.ok -> Fail("parts")
                [] OTHER -> Respond(values.values, st.type)
           /\ st' = st
  BY Zenon DEF ExecuteParameterRows
<1>3. st' = st
  BY <1>2
<1>4. NotStreaming
  BY <1>2, FailIsOver, RespondIsOver
<1>5. CASE executed' = executed
  BY <1>1, <1>3, <1>4, <1>5
<1>6. CASE SrvExecuteRows(rows, results)
  <2> DEFINE set == {i \in DOMAIN rows : results[i] # ExecFailure}
  <2>1. PICK done \in Orders(set) :
          executed' = executed \o [k \in DOMAIN done |-> rows[done[k]]]
    BY <1>6 DEF SrvExecuteRows
  <2>2. set \in SUBSET (DOMAIN rows)
    OBVIOUS
  <2> HIDE DEF set
  <2>3. LET q == executed \o [k \in DOMAIN done |-> rows[done[k]]]
        IN /\ IsSequence(q) /\ UpTo(q, n) /\ Different(q)
           /\ Ids(q) \subseteq Ids(executed) \cup Ids(rows)
    BY <1>1, <2>2, RowsExecuted
  <2> QED
    BY <1>3, <1>4, <2>1, <2>3
<1>7. executed' = executed \/ SrvExecuteRows(rows, results)
  BY <1>2
<1> QED
  BY <1>3, <1>4, <1>5, <1>6, <1>7

\* The number of a single row.
LEMMA SingleRow ==
  ASSUME NEW row, NEW n \in Nat, row.id \in 1..n
  PROVE  /\ IsSequence(<<row>>) /\ UpTo(<<row>>, n) /\ Different(<<row>>)
         /\ Ids(<<row>>) = {row.id}
<1>1. <<row>> \in Seq({row}) /\ DOMAIN <<row>> = {1} /\ <<row>>[1] = row
  OBVIOUS
<1>2. IsSequence(<<row>>)
  BY <1>1, IsSequenceOf
<1> QED
  BY <1>1, <1>2 DEF UpTo, Different, Ids

\* The parameters of the statement have positions up to a number.
LEMMA ParamsAre ==
  ASSUME st \in Statements
  PROVE  DOMAIN st.params = 1..Len(st.params) /\ Len(st.params) \in Nat
<1>1. st.params \in Seq(Types)
  BY ConstantsAssumption
<1> QED
  BY <1>1, IsSequenceOf

\* The main request of execute_row: each reader gets a locator of its own.
LEMMA MainIsSent ==
  ASSUME StatementInv, NEW row, DOMAIN row.values \subseteq DOMAIN st.params,
         NEW values, NEW readers, ExecuteMain(row, values, readers)
  PROVE  /\ executed' = executed
         /\ \/ NotStreaming
            \/ /\ pending' = row /\ writer' = NoWriter /\ IsSequence(todo')
               /\ \A k \in DOMAIN todo' : todo'[k].locator \in DOMAIN lobs' /\ ~lobs'[todo'[k].locator].done
               /\ \A j, k \in DOMAIN todo' : j # k => todo'[j].locator # todo'[k].locator
<1>1. PICK outcome \in (IF Fits(row) THEN Outcomes ELSE {"error"}) :
        LET parts == IF IsProcedure THEN <<Value("wlr", 0)>> ELSE <<Value("wlr", 0)>> \o st.parts
            main == IntoInternalReturnValues(RemoveFirstOfKind(parts, "wlr"))
        IN /\ IF Arrives(outcome)
              THEN /\ pending' = row
                   /\ lobs' = [k \in 1..Cardinality(LobPositions(row)) |-> [data |-> <<>>, done |-> FALSE]]
              ELSE UNCHANGED <<pending, lobs>>
           /\ IF outcome # "ok" \/ ~main.ok \/ readers # LobPositions(row)
              THEN Fail("main")
              ELSE /\ streaming' = TRUE
                   /\ \E order \in Orders(readers) : todo' = LobsToWrite(values, order)
                   /\ irvs' = main.values /\ writer' = NoWriter
                   /\ result' = Result("none", 0) /\ response' = <<>>
           /\ UNCHANGED executed
  BY Zenon DEF ExecuteMain
<1>2. executed' = executed
  BY <1>1
<1>3. CASE Fail("main")
  BY <1>2, <1>3, FailIsOver
<1>4. CASE ~Fail("main")
  <2>1. /\ outcome = "ok" /\ readers = LobPositions(row) /\ writer' = NoWriter
        /\ \E order \in Orders(readers) : todo' = LobsToWrite(values, order)
    BY <1>1, <1>4
  <2>2. Arrives(outcome)
    BY <2>1 DEF Arrives
  <2> DEFINE c == Cardinality(readers)
  <2>3. pending' = row /\ lobs' = [k \in 1..c |-> [data |-> <<>>, done |-> FALSE]]
    BY <1>1, <2>1, <2>2
  <2>4. PICK order \in Orders(readers) : todo' = LobsToWrite(values, order)
    BY <2>1
  <2>5. DOMAIN st.params = 1..Len(st.params) /\ Len(st.params) \in Nat
    BY ParamsAre DEF StatementInv, SequenceTypes
  <2>6. readers \in SUBSET (1..Len(st.params))
    BY <2>1, <2>5 DEF LobPositions
  <2>7. c \in Nat /\ DOMAIN order = 1..c
    BY <2>5, <2>6, OrdersAre
  <2>8. /\ DOMAIN todo' = 1..c /\ todo' = [k \in 1..c |-> todo'[k]]
        /\ \A k \in 1..c : todo'[k].locator = k
    BY <2>4, <2>7 DEF LobsToWrite
  <2> HIDE DEF c
  <2>9. IsSequence(todo')
    BY <2>7, <2>8, SequenceOfFunction
  <2>10. \A k \in 1..c : k \in DOMAIN lobs' /\ ~lobs'[k].done
    BY <2>3
  <2>11. \A k \in DOMAIN todo' : todo'[k].locator \in DOMAIN lobs' /\ ~lobs'[todo'[k].locator].done
    BY <2>8, <2>10
  <2>12. \A j, k \in DOMAIN todo' : j # k => todo'[j].locator # todo'[k].locator
    BY <2>8
  <2> QED
    BY <1>2, <2>1, <2>3, <2>9, <2>11, <2>12
<1> QED
  BY <1>3, <1>4

\* A chunk of a LOB: with the last one of the last LOB the row is executed,
\* and then there is nothing more to write.
LEMMA ChunkIsSent ==
  ASSUME StatementInv, writer.open, NEW data, NEW last \in BOOLEAN, NEW outcome, NEW writerAfter,
         SendChunk(data, last, outcome, writerAfter),
         UNCHANGED <<st, batch, given, pending>>,
         last => ~writerAfter.open
  PROVE  StatementInv'
<1> DEFINE l == todo[1].locator
           n == Len(given)
           after == [lobs EXCEPT ![l] = [data |-> @.data \o data, done |-> last]]
           all == \A k \in DOMAIN after : after[k].done
<1>1. /\ streaming /\ todo # <<>> /\ IsSequence(todo) /\ IsSequence(given)
      /\ IsSequence(executed) /\ IsSequence(batch) /\ st \in Statements
      /\ pending.id \in 1..n /\ pending.id \notin Ids(batch) /\ pending.id \notin Ids(executed)
      /\ \A k \in DOMAIN todo : todo[k].locator \in DOMAIN lobs /\ ~lobs[todo[k].locator].done
      /\ \A j, k \in DOMAIN todo : j # k => todo[j].locator # todo[k].locator
  BY DEF StatementInv, StreamInv, SequenceTypes
<1>2. /\ Numbered(executed) /\ Different(executed) /\ Numbered(batch) /\ Different(batch)
      /\ Ids(executed) \cap Ids(batch) = {}
  BY DEF StatementInv, RowsInv
<1>3. n \in Nat
  BY <1>1, SequenceDomain
<1>4. /\ IsSequence(Tail(todo)) /\ 1 \in DOMAIN todo
      /\ \A k \in DOMAIN Tail(todo) : k \in Nat \ {0} /\ k + 1 \in DOMAIN todo /\ Tail(todo)[k] = todo[k + 1]
  BY <1>1, SequenceTail
<1>5. /\ l \in DOMAIN lobs /\ DOMAIN after = DOMAIN lobs
      /\ \A k \in DOMAIN lobs : k # l => after[k] = lobs[k]
      /\ after[l].done = last
  BY <1>1, <1>4, SMTT(60)
<1>6. /\ \/ lobs' = lobs /\ executed' = executed
         \/ /\ lobs' = after
            /\ \/ ~all /\ executed' = executed
               \/ all /\ \E v : executed' = Append(executed, Row(pending.id, v))
      /\ \/ NotStreaming
         \/ /\ lobs' = after /\ writer' = writerAfter
            /\ todo' = (IF last THEN Tail(todo) ELSE todo) /\ streaming' = streaming
  <2> QED
    BY FailIsOver DEF SendChunk, SrvWriteLob, Arrives
<1>7. st' = st /\ batch' = batch /\ given' = given /\ pending' = pending
  OBVIOUS
<1> HIDE DEF l, after, n
\* the other LOBs that are to be written
<1>8. ASSUME NEW k \in DOMAIN Tail(todo)
      PROVE  /\ Tail(todo)[k].locator \in DOMAIN lobs /\ Tail(todo)[k].locator # l
             /\ ~after[Tail(todo)[k].locator].done
  <2>1. k + 1 \in DOMAIN todo /\ Tail(todo)[k] = todo[k + 1] /\ k + 1 # 1
    BY <1>4
  <2>2. todo[k + 1].locator # l
    BY <1>1, <1>4, <2>1 DEF l
  <2> QED
    BY <1>1, <1>5, <2>1, <2>2
<1>9. all => last /\ DOMAIN Tail(todo) = {}
  <2>1. all => after[l].done
    BY <1>5
  <2>2. ASSUME NEW k \in DOMAIN Tail(todo) PROVE ~all
    BY <1>5, <1>8
  <2> QED
    BY <1>5, <2>1, <2>2
<1> HIDE DEF all
<1>10. ~all \/ (\E v : executed' = Append(executed, Row(pending.id, v))) \/ executed' = executed
  BY <1>6
<1>11. /\ IsSequence(executed') /\ UpTo(executed', n) /\ Different(executed')
       /\ Ids(executed') \subseteq Ids(executed) \cup {pending.id}
       /\ executed' = executed \/ (all /\ lobs' = after)
  <2>1. UpTo(executed, n)
    BY <1>2 DEF Numbered, UpTo, n
  <2>2. CASE executed' = executed
    BY <1>1, <1>2, <2>1, <2>2
  <2>3. CASE executed' # executed
    <3>1. all /\ lobs' = after
      BY <1>6, <2>3
    <3>2. PICK v : executed' = Append(executed, Row(pending.id, v))
      BY <1>6, <2>3
    <3>3. Row(pending.id, v).id = pending.id
      BY RowId
    <3> QED
      BY <1>1, <1>2, <1>3, <2>1, <3>1, <3>2, <3>3, RowAppended
  <2> QED
    BY <2>2, <2>3
<1>12. RowsInv'
  <2>1. Numbered(executed)' /\ Numbered(batch)'
    BY <1>2, <1>7, <1>11 DEF Numbered, UpTo, n
  <2>2. Different(executed') /\ Different(batch')
    BY <1>2, <1>7, <1>11
  <2>3. Ids(executed') \cap Ids(batch') = {}
    <3>1. Ids(batch') = Ids(batch)
      BY <1>7
    <3> QED
      BY <1>1, <1>2, <1>11, <3>1
  <2> QED
    BY <2>1, <2>2, <2>3 DEF RowsInv, Different, Ids
<1>13. CASE NotStreaming
  <2>1. StreamInv' /\ IsSequence(todo')
    BY <1>13, CallIsOver
  <2> QED
    BY <1>1, <1>7, <1>11, <1>12, <2>1 DEF StatementInv, SequenceTypes
<1>14. CASE ~NotStreaming
  <2>1. /\ lobs' = after /\ writer' = writerAfter /\ streaming' = streaming
        /\ todo' = (IF last THEN Tail(todo) ELSE todo)
    BY <1>6, <1>14
  <2>2. pending'.id \in 1..Len(given') /\ pending'.id \notin Ids(batch')
    BY <1>1, <1>7 DEF n
  <2>3. /\ IsSequence(todo')
        /\ \A k \in DOMAIN todo' : todo'[k].locator \in DOMAIN after /\ ~after[todo'[k].locator].done
        /\ \A j, k \in DOMAIN todo' : j # k => todo'[j].locator # todo'[k].locator
        /\ todo' # <<>> => ~all
        /\ writerAfter.open => todo' # <<>>
    <3>1. CASE last
      <4>1. todo' = Tail(todo)
        BY <2>1, <3>1
      <4>2. todo' # <<>> => ~all
        BY <1>4, <1>9, <4>1, SequenceTail
      <4>3. ASSUME NEW j \in DOMAIN Tail(todo), NEW k \in DOMAIN Tail(todo), j # k
            PROVE  Tail(todo)[j].locator # Tail(todo)[k].locator
        <5>1. j + 1 \in DOMAIN todo /\ k + 1 \in DOMAIN todo /\ j + 1 # k + 1
          BY <1>4, <4>3
        <5> QED
          BY <1>1, <1>4, <5>1
      <4>4. \A k \in DOMAIN Tail(todo) : /\ Tail(todo)[k].locator \in DOMAIN after
                                         /\ ~after[Tail(todo)[k].locator].done
        BY <1>5, <1>8
      <4>5. ~writerAfter.open
        BY <3>1
      <4> QED
        BY <1>4, <4>1, <4>2, <4>3, <4>4, <4>5
    <3>2. CASE ~last
      <4>1. todo' = todo
        BY <2>1, <3>2
      <4>2. ~all
        BY <1>9, <3>2
      <4>3. ASSUME NEW k \in DOMAIN todo
            PROVE  todo[k].locator \in DOMAIN after /\ ~after[todo[k].locator].done
        <5>1. todo[k].locator \in DOMAIN lobs /\ ~lobs[todo[k].locator].done
          BY <1>1
        <5>2. CASE todo[k].locator = l
          BY <1>5, <3>2, <5>2
        <5>3. CASE todo[k].locator # l
          BY <1>5, <5>1, <5>3
        <5> QED
          BY <5>2, <5>3
      <4> QED
        BY <1>1, <4>1, <4>2, <4>3
    <3> QED
      BY <3>1, <3>2
  <2>4. todo' # <<>> => pending'.id \notin Ids(executed')
    BY <1>1, <1>7, <1>11, <2>3
  <2>5. streaming'
    BY <1>1, <2>1
  <2>6. writer'.open => streaming' /\ todo' # <<>>
    BY <2>1, <2>3, <2>5
  <2>7. StreamInv'
    <3>1. lobs' = after
      BY <2>1
    <3> QED
      BY <2>2, <2>3, <2>4, <2>6, <3>1 DEF StreamInv, Ids
  <2> QED
    BY <1>1, <1>7, <1>11, <1>12, <2>3, <2>7 DEF StatementInv, SequenceTypes
<1> QED
  BY <1>13, <1>14

-----------------------------------------------------------------------------
(* The actions.                                                            *)

\* Initially nothing was accepted and nothing is written.
LEMMA StatementInit == Init => StatementInv
<1> SUFFICES ASSUME Init PROVE StatementInv
  OBVIOUS
<1>1. /\ given = <<>> /\ batch = <<>> /\ executed = <<>> /\ todo = <<>> /\ st \in Statements
      /\ streaming = FALSE /\ writer = NoWriter
  BY DEF Init
<1>2. SequenceTypes
  BY <1>1, IsSequenceEmpty DEF SequenceTypes
<1>3. RowsInv
  BY <1>1, IsSequenceEmpty DEF RowsInv, Numbered, Different, Ids
<1>4. writer.open = FALSE
  BY <1>1 DEF NoWriter
<1>5. StreamInv
  BY <1>1, <1>4 DEF StreamInv
<1> QED
  BY <1>2, <1>3, <1>5 DEF StatementInv

\* Outside of a call no LOB is written, whatever becomes of the rows.
LEMMA NothingIsWritten ==
  ASSUME StatementInv, ~streaming, UNCHANGED <<streaming, todo, writer>>
  PROVE  StreamInv' /\ IsSequence(todo')
<1>1. ~writer.open /\ IsSequence(todo)
  BY DEF StatementInv, StreamInv, SequenceTypes
<1>2. ~streaming' /\ ~writer'.open
  BY <1>1
<1> QED
  BY <1>1, <1>2 DEF StreamInv

\* The statement is prepared, or not.
LEMMA PrepareStep ==
  ASSUME StatementInv, NEW outcome, Prepare(outcome)
  PROVE  StatementInv'
BY StatementStutters DEF Prepare, stream, history, rowVars, streamVars

\* The drop takes the batch with it.
LEMMA DropStep ==
  ASSUME StatementInv, NEW outcome, Drop(outcome)
  PROVE  StatementInv'
<1>1. /\ ~streaming /\ batch' = <<>> /\ UNCHANGED <<given, executed, st>>
      /\ UNCHANGED <<streaming, todo, writer>>
  BY DEF Drop, Ready, stream, history
<1>2. StreamInv' /\ IsSequence(todo')
  BY <1>1, NothingIsWritten
<1>3. RowsInv'
  BY <1>1, IsSequenceEmpty DEF StatementInv, RowsInv, Numbered, Different, Ids
<1> QED
  BY <1>1, <1>2, <1>3, IsSequenceEmpty DEF StatementInv, SequenceTypes

\* A row of the batch gets a number that no other row has.
LEMMA AddRowStep ==
  ASSUME StatementInv, NEW values, AddRow(values)
  PROVE  StatementInv'
<1>1. /\ ~streaming /\ UNCHANGED <<executed, st>> /\ UNCHANGED <<streaming, todo, writer>>
      /\ IF HasIn /\ Accepts(values) THEN Accept(values) ELSE given' = given
      /\ batch' = IF HasIn THEN BatchAfter(Row(Len(given) + 1, values)) ELSE batch
  BY DEF AddRow, Ready, stream, history, server
<1>2. StreamInv' /\ IsSequence(todo')
  BY <1>1, NothingIsWritten
<1> DEFINE row == Row(Len(given) + 1, values)
<1>3. row.id = Len(given) + 1 /\ row.values = values
  BY DEF Row
<1>4. CASE HasIn /\ Accepts(values)
  <2>1. Accept(values) /\ batch' = Append(batch, row)
    BY <1>1, <1>3, <1>4 DEF BatchAfter
  <2> HIDE DEF row
  <2>2. /\ IsSequence(given') /\ Len(given) \in Nat /\ Len(given') = Len(given) + 1
        /\ UpTo(executed, Len(given')) /\ UpTo(batch, Len(given'))
        /\ Len(given) + 1 \notin Ids(executed) /\ Len(given) + 1 \notin Ids(batch)
    BY <2>1, RowAccepted
  <2>3. /\ IsSequence(batch) /\ Different(batch) /\ IsSequence(executed) /\ Different(executed)
        /\ Ids(executed) \cap Ids(batch) = {} /\ st \in Statements
    BY DEF StatementInv, SequenceTypes, RowsInv
  <2>4. row.id \in 1..Len(given') /\ Len(given') \in Nat /\ row.id \notin Ids(batch)
    BY <1>3, <2>2
  <2>5. /\ IsSequence(batch') /\ UpTo(batch', Len(given')) /\ Different(batch')
        /\ Ids(batch') = Ids(batch) \cup {row.id}
    BY <2>1, <2>2, <2>3, <2>4, RowAppended
  <2>6. Ids(executed) \cap Ids(batch') = {}
    BY <1>3, <2>2, <2>3, <2>5
  <2>7. executed' = executed /\ st' = st
    BY <1>1
  <2>8. RowsInv'
    <3>1. Numbered(executed)' /\ Numbered(batch)'
      BY <2>2, <2>5, <2>7 DEF Numbered, UpTo
    <3>2. Different(executed)' /\ Different(batch)'
      BY <2>3, <2>5, <2>7 DEF Different
    <3>3. (Ids(executed) \cap Ids(batch) = {})'
      BY <2>6, <2>7 DEF Ids
    <3> QED BY <3>1, <3>2, <3>3 DEF RowsInv
  <2> QED
    BY <1>2, <2>2, <2>3, <2>5, <2>7, <2>8 DEF StatementInv, SequenceTypes
<1>5. CASE ~(HasIn /\ Accepts(values))
  <2>1. given' = given /\ batch' = batch /\ executed' = executed /\ st' = st
    BY <1>1, <1>3, <1>5 DEF BatchAfter
  <2>2. /\ RowsInv' /\ st' \in Statements
        /\ IsSequence(given') /\ IsSequence(batch') /\ IsSequence(executed')
    BY <2>1, RowsKept DEF rowVars
  <2> QED
    BY <1>2, <2>2 DEF StatementInv, SequenceTypes
<1> QED
  BY <1>4, <1>5

\* The batch is taken, and some of its rows are executed.
LEMMA ExecuteBatchStep ==
  ASSUME StatementInv, ExecuteBatch
  PROVE  StatementInv'
<1>1. batch' = <<>> /\ given' = given
  BY DEF ExecuteBatch, BatchTaken
<1>2. /\ IsSequence(given) /\ IsSequence(batch) /\ IsSequence(executed) /\ st \in Statements
      /\ Numbered(executed) /\ Different(executed) /\ Numbered(batch) /\ Different(batch)
      /\ Ids(executed) \cap Ids(batch) = {}
  BY DEF StatementInv, SequenceTypes, RowsInv
<1>3. Len(given) \in Nat /\ UpTo(executed, Len(given)) /\ UpTo(batch, Len(given))
  BY <1>2, SequenceDomain DEF Numbered, UpTo
<1>4. /\ IsSequence(executed') /\ UpTo(executed', Len(given)) /\ Different(executed')
      /\ NotStreaming /\ st' = st
  <2>1. CASE Fail("size") /\ UNCHANGED <<st, executed>>
    BY <1>2, <1>3, <2>1, FailIsOver
  <2>2. CASE ExecuteParameterRows(batch)
    BY <1>2, <1>3, <2>2, RowsAreSent
  <2> QED
    BY <2>1, <2>2 DEF ExecuteBatch
<1>5. StreamInv' /\ IsSequence(todo')
  BY <1>4, CallIsOver
<1>6. RowsInv'
  BY <1>1, <1>4, IsSequenceEmpty DEF RowsInv, Numbered, UpTo, Different, Ids
<1> QED
  BY <1>1, <1>2, <1>4, <1>5, <1>6, IsSequenceEmpty DEF StatementInv, SequenceTypes

\* An empty batch is an error.
LEMMA ExecuteEmptyBatchStep ==
  ASSUME StatementInv, ExecuteEmptyBatch
  PROVE  StatementInv'
<1>1. Fail("empty") /\ UNCHANGED rowVars
  BY DEF ExecuteEmptyBatch, server, history, rowVars
<1> QED
  BY <1>1, FailIsOver, CallEnds

\* A single row is executed, and the batch stays as it is.
LEMMA SingleRowStep ==
  ASSUME StatementInv, NEW values, NEW row, row.id = Len(given) + 1,
         Accept(values), ExecuteParameterRows(<<row>>), batch' = batch
  PROVE  StatementInv'
<1>1. /\ IsSequence(given') /\ Len(given) \in Nat /\ Len(given') = Len(given) + 1
      /\ UpTo(executed, Len(given')) /\ UpTo(batch, Len(given'))
      /\ Len(given) + 1 \notin Ids(executed) /\ Len(given) + 1 \notin Ids(batch)
  BY RowAccepted
<1>2. row.id \in 1..Len(given') /\ Len(given') \in Nat
  BY <1>1
<1>3. /\ IsSequence(<<row>>) /\ UpTo(<<row>>, Len(given')) /\ Different(<<row>>)
      /\ Ids(<<row>>) = {row.id}
  BY <1>2, SingleRow
<1>4. Ids(executed) \cap Ids(<<row>>) = {}
  BY <1>1, <1>3
<1>5. /\ IsSequence(executed') /\ UpTo(executed', Len(given')) /\ Different(executed')
      /\ Ids(executed') \subseteq Ids(executed) \cup {row.id}
      /\ NotStreaming /\ st' = st
  BY <1>1, <1>2, <1>3, <1>4, RowsAreSent
<1>6. /\ IsSequence(batch) /\ Different(batch) /\ Ids(executed) \cap Ids(batch) = {}
      /\ st \in Statements
  BY DEF StatementInv, SequenceTypes, RowsInv
<1>7. UpTo(batch', Len(given')) /\ Different(batch') /\ Ids(executed') \cap Ids(batch') = {}
  BY <1>1, <1>5, <1>6
<1>8. RowsInv'
  BY <1>5, <1>7, RowsAfter
<1>9. StreamInv' /\ IsSequence(todo')
  BY <1>5, CallIsOver
<1> QED
  BY <1>1, <1>5, <1>6, <1>8, <1>9 DEF StatementInv, SequenceTypes

\* execute: with a row of parameters, or without any.
LEMMA ExecuteStep ==
  ASSUME StatementInv, NEW values, Execute(values)
  PROVE  StatementInv'
<1>1. CASE HasIn
  <2>1. Accept(values) /\ ExecuteParameterRows(<<Row(Len(given) + 1, values)>>) /\ batch' = batch
    BY <1>1 DEF Execute
  <2> QED
    BY <2>1, RowId, SingleRowStep
<1>2. CASE ~HasIn
  <2>1. ExecuteParameterRows(<<>>) /\ batch' = batch /\ given' = given
    BY <1>2 DEF Execute
  <2>2. /\ IsSequence(given) /\ IsSequence(batch) /\ IsSequence(executed) /\ st \in Statements
        /\ Numbered(executed) /\ Numbered(batch) /\ Different(batch)
        /\ Ids(executed) \cap Ids(batch) = {}
    BY DEF StatementInv, SequenceTypes, RowsInv
  <2>3. Len(given) \in Nat /\ UpTo(executed, Len(given))
    BY <2>2, SequenceDomain DEF Numbered, UpTo
  <2>4. UpTo(<<>>, Len(given)) /\ Different(<<>>) /\ Ids(<<>>) = {}
    BY IsSequenceEmpty DEF UpTo, Different, Ids
  <2>5. Ids(executed) \cap Ids(<<>>) = {}
    BY <2>4
  <2>6. /\ IsSequence(executed') /\ UpTo(executed', Len(given)) /\ Different(executed')
        /\ Ids(executed') \subseteq Ids(executed)
        /\ NotStreaming /\ st' = st
    BY <2>1, <2>3, <2>4, <2>5, IsSequenceEmpty, RowsAreSent
  <2>7. RowsInv'
    <3>1. Numbered(executed)' /\ Numbered(batch)'
      BY <2>1, <2>2, <2>6 DEF Numbered, UpTo
    <3>2. Different(executed)' /\ Different(batch)'
      BY <2>1, <2>2, <2>6 DEF Different
    <3>3. (Ids(executed) \cap Ids(batch) = {})'
      <4>1. Ids(executed') \cap Ids(batch) = {}
        BY <2>2, <2>6
      <4> QED BY <2>1, <4>1 DEF Ids
    <3> QED BY <3>1, <3>2, <3>3 DEF RowsInv
  <2>8. StreamInv' /\ IsSequence(todo')
    BY <2>6, CallIsOver
  <2> QED
    BY <2>1, <2>2, <2>6, <2>7, <2>8 DEF StatementInv, SequenceTypes
<1> QED
  BY <1>1, <1>2

\* The main request of execute_row was sent.
LEMMA MainStep ==
  ASSUME StatementInv, NEW values, NEW cut, NEW readers, NEW row, row.id = Len(given) + 1,
         DOMAIN row.values \subseteq DOMAIN st.params, Accept(values),
         ExecuteMain(row, cut, readers), UNCHANGED <<st, batch>>
  PROVE  StatementInv'
<1>1. /\ IsSequence(given') /\ Len(given) \in Nat /\ Len(given') = Len(given) + 1
      /\ UpTo(executed, Len(given')) /\ UpTo(batch, Len(given'))
      /\ Len(given) + 1 \notin Ids(executed) /\ Len(given) + 1 \notin Ids(batch)
  BY RowAccepted
<1>2. /\ IsSequence(batch) /\ IsSequence(executed) /\ Different(executed) /\ Different(batch)
      /\ Ids(executed) \cap Ids(batch) = {} /\ st \in Statements
  BY DEF StatementInv, SequenceTypes, RowsInv
<1>3. /\ executed' = executed
      /\ \/ NotStreaming
         \/ /\ pending' = row /\ writer' = NoWriter /\ IsSequence(todo')
            /\ \A k \in DOMAIN todo' : todo'[k].locator \in DOMAIN lobs' /\ ~lobs'[todo'[k].locator].done
            /\ \A j, k \in DOMAIN todo' : j # k => todo'[j].locator # todo'[k].locator
  BY MainIsSent
<1>4. st' = st /\ batch' = batch /\ executed' = executed
  BY <1>3
<1>5. RowsInv'
  <2>1. /\ UpTo(executed', Len(given')) /\ Different(executed')
        /\ UpTo(batch', Len(given')) /\ Different(batch')
        /\ Ids(executed') \cap Ids(batch') = {}
    BY <1>1, <1>2, <1>4
  <2> QED
    BY <2>1, RowsAfter
<1>6. StreamInv' /\ IsSequence(todo')
  <2>1. CASE NotStreaming
    BY <2>1, CallIsOver
  <2>2. CASE ~NotStreaming
    <3>1. pending' = row /\ writer' = NoWriter /\ IsSequence(todo')
      BY <1>3, <2>2
    <3>2. /\ \A k \in DOMAIN todo' : todo'[k].locator \in DOMAIN lobs' /\ ~lobs'[todo'[k].locator].done
          /\ \A j, k \in DOMAIN todo' : j # k => todo'[j].locator # todo'[k].locator
      BY <1>3, <2>2
    <3>3. /\ pending'.id \in 1..Len(given') /\ pending'.id \notin Ids(batch')
          /\ pending'.id \notin Ids(executed')
      BY <1>1, <1>4, <3>1
    <3>4. writer'.open = FALSE
      BY <3>1 DEF NoWriter
    <3> QED
      BY <3>1, <3>2, <3>3, <3>4 DEF StreamInv, Ids
  <2> QED
    BY <2>1, <2>2
<1> QED
  BY <1>1, <1>2, <1>4, <1>5, <1>6 DEF StatementInv, SequenceTypes

\* execute_row: the row is not accepted, or has no readers, or has some.
LEMMA ExecuteRowStep ==
  ASSUME StatementInv, NEW values, ExecuteRow(values)
  PROVE  StatementInv'
<1> DEFINE cut == [i \in {i \in DOMAIN st.params : i <= Len(values)} |-> values[i]]
           readers == {i \in DOMAIN cut : IsReader(cut[i])}
           row == Row(Len(given) + 1,
                      [i \in DOMAIN cut |-> IF i \in readers THEN Param("lobnull", <<>>) ELSE cut[i]])
<1>1. /\ \/ Fail("row") /\ UNCHANGED <<st, given, executed>>
         \/ Accept(values) /\ ExecuteParameterRows(<<row>>)
         \/ Accept(values) /\ ExecuteMain(row, cut, readers) /\ st' = st
      /\ batch' = batch
  BY DEF ExecuteRow, server
<1>2. row.id = Len(given) + 1 /\ DOMAIN row.values \subseteq DOMAIN st.params
  BY DEF Row
<1> HIDE DEF cut, readers, row
<1>3. CASE Fail("row") /\ UNCHANGED <<st, given, executed>>
  BY <1>1, <1>3, FailIsOver, CallEnds DEF rowVars
<1>4. CASE Accept(values) /\ ExecuteParameterRows(<<row>>)
  BY <1>1, <1>2, <1>4, SingleRowStep
<1>5. CASE Accept(values) /\ ExecuteMain(row, cut, readers) /\ st' = st
  BY <1>1, <1>2, <1>5, MainStep
<1> QED
  BY <1>1, <1>3, <1>4, <1>5

\* The next LOB is begun, or it is of no type that can be written.
LEMMA NewWriterStep ==
  ASSUME StatementInv, NewWriter
  PROVE  StatementInv'
<1>1. /\ streaming /\ todo # <<>> /\ UNCHANGED rowVars /\ UNCHANGED <<pending, lobs>>
      /\ \/ Fail("type")
         \/ UNCHANGED <<streaming, todo>>
  BY DEF NewWriter, server, history, rowVars
<1>2. CASE Fail("type")
  BY <1>1, <1>2, FailIsOver, CallEnds
<1>3. CASE UNCHANGED <<streaming, todo>>
  <2>1. /\ RowsInv' /\ st' \in Statements
        /\ IsSequence(given') /\ IsSequence(batch') /\ IsSequence(executed')
    BY <1>1, RowsKept
  <2>2. /\ streaming' = streaming /\ todo' = todo /\ pending' = pending /\ lobs' = lobs
        /\ given' = given /\ batch' = batch /\ executed' = executed
    BY <1>1, <1>3 DEF rowVars
  <2>3. StreamInv'
    BY <1>1, <2>2 DEF StatementInv, StreamInv, Ids
  <2> QED
    BY <2>1, <2>2, <2>3 DEF StatementInv, SequenceTypes
<1> QED
  BY <1>1, <1>2, <1>3

\* write() keeps its input, refuses it, or sends a chunk.
LEMMA CopyStep ==
  ASSUME StatementInv, NEW n, Copy(n)
  PROVE  StatementInv'
<1>1. writer.open /\ UNCHANGED <<st, batch, given>>
  BY DEF Copy, history
<1>2. \/ UNCHANGED <<streaming, todo, pending, lobs, executed>>
      \/ Fail("utf8") /\ executed' = executed
      \/ /\ \E data, outcome, after : SendChunk(data, FALSE, outcome, after)
         /\ pending' = pending
  BY DEF Copy, server
<1>3. CASE UNCHANGED <<streaming, todo, pending, lobs, executed>>
  <2>1. streaming /\ todo # <<>>
    BY <1>1 DEF StatementInv, StreamInv
  <2>2. /\ streaming' = streaming /\ todo' = todo /\ pending' = pending /\ lobs' = lobs
        /\ given' = given /\ batch' = batch /\ executed' = executed /\ st' = st
    BY <1>1, <1>3
  <2>3. /\ RowsInv' /\ st' \in Statements
        /\ IsSequence(given') /\ IsSequence(batch') /\ IsSequence(executed')
    BY <2>2, RowsKept DEF rowVars
  <2>4. StreamInv'
    BY <2>1, <2>2 DEF StatementInv, StreamInv, Ids
  <2> QED
    BY <2>2, <2>3, <2>4 DEF StatementInv, SequenceTypes
<1>4. CASE Fail("utf8") /\ executed' = executed
  BY <1>1, <1>4, FailIsOver, CallEnds DEF rowVars
<1>5. CASE (\E data, outcome, after : SendChunk(data, FALSE, outcome, after)) /\ pending' = pending
  <2>1. PICK data, outcome, after : SendChunk(data, FALSE, outcome, after)
    BY <1>5
  <2> QED
    BY <1>1, <1>5, <2>1, ChunkIsSent
<1> QED
  BY <1>2, <1>3, <1>4, <1>5

\* flush() refuses what is left, or sends the last chunk.
LEMMA FlushStep ==
  ASSUME StatementInv, Flush
  PROVE  StatementInv'
<1>1. writer.open /\ UNCHANGED <<st, batch, given>>
  BY DEF Flush, FlushDue, history
<1>2. \/ Fail("utf8") /\ executed' = executed
      \/ /\ \E data, outcome : SendChunk(data, TRUE, outcome, NoWriter)
         /\ pending' = pending
  BY DEF Flush, server
<1>3. CASE Fail("utf8") /\ executed' = executed
  BY <1>1, <1>3, FailIsOver, CallEnds DEF rowVars
<1>4. CASE (\E data, outcome : SendChunk(data, TRUE, outcome, NoWriter)) /\ pending' = pending
  <2>1. PICK data, outcome : SendChunk(data, TRUE, outcome, NoWriter)
    BY <1>4
  <2>2. ~NoWriter.open
    BY DEF NoWriter
  <2> QED
    BY <1>1, <1>4, <2>1, <2>2, ChunkIsSent
<1> QED
  BY <1>2, <1>3, <1>4

\* The reader fails, or all LOBs are written: the call is over.
LEMMA ReaderFailsStep ==
  ASSUME StatementInv, ReaderFails
  PROVE  StatementInv'
BY FailIsOver, CallEnds DEF ReaderFails, server, history, rowVars

LEMMA FinishStep ==
  ASSUME StatementInv, Finish
  PROVE  StatementInv'
BY RespondIsOver, CallEnds DEF Finish, server, history, rowVars

\* The program takes values out of the response.
LEMMA GetValueStep ==
  ASSUME StatementInv, NEW kind, GetValue(kind) \/ IntoValue(kind)
  PROVE  StatementInv'
BY StatementStutters DEF GetValue, IntoValue, stream, server, history, rowVars, streamVars

\* Every step preserves the invariant.
LEMMA StatementStep == StatementInv /\ [Next]_vars => StatementInv'
<1> SUFFICES ASSUME StatementInv, [Next]_vars PROVE StatementInv'
  OBVIOUS
<1>1. ASSUME NEW outcome \in Outcomes, Prepare(outcome) \/ Drop(outcome) PROVE StatementInv'
  BY <1>1, PrepareStep, DropStep
<1>2. ASSUME NEW values \in GivenRows, AddRow(values) \/ Execute(values) \/ ExecuteRow(values)
      PROVE  StatementInv'
  BY <1>2, AddRowStep, ExecuteStep, ExecuteRowStep
<1>3. CASE ExecuteBatch \/ ExecuteEmptyBatch
  BY <1>3, ExecuteBatchStep, ExecuteEmptyBatchStep
<1>4. CASE Step
  BY <1>4, NewWriterStep, ReaderFailsStep, FlushStep, FinishStep, CopyStep DEF Step
<1>5. ASSUME NEW kind \in Kinds, GetValue(kind) \/ IntoValue(kind) PROVE StatementInv'
  BY <1>5, GetValueStep
<1>6. CASE UNCHANGED vars
  BY <1>6, StatementStutters DEF vars, stream, server, history, rowVars, streamVars
<1> QED
  BY <1>1, <1>2, <1>3, <1>4, <1>5, <1>6 DEF Next

-----------------------------------------------------------------------------
(* The theorems.                                                           *)

\* sync_prepared_statement.rs: the numbers of the rows, and the locators of the
\* LOBs that are still to be written, are as the invariant says in every state.
THEOREM StatementInvariant == Spec => []StatementInv
<1>1. Init => StatementInv
  BY StatementInit
<1>2. StatementInv /\ [Next]_vars => StatementInv'
  BY StatementStep
<1> QED
  BY <1>1, <1>2, PTL DEF Spec

\* sync_prepared_statement.rs:350: no row is executed twice, and a row of the
\* batch was not executed, also if an execution fails and the program goes on.
THEOREM RowsExecutedOnce == Spec => []RowsOnce
<1>1. StatementInv => RowsOnce
  BY DEF StatementInv, RowsInv, Different, RowsOnce
<1> QED
  BY <1>1, StatementInvariant, PTL

-----------------------------------------------------------------------------
(* The drop.                                                               *)

\* A session that was lost does not come back.
LEMMA SessionStaysLost ==
  ASSUME NEW outcome, Connection(outcome), session' = "up"
  PROVE  session = "up" /\ outcome \notin {"lostRequest", "lostReply", "eof", "garbage", "closing"}
BY DEF Connection

\* Requests with rows, and with chunks, leave the statement alone.
LEMMA RowsKeepStatement ==
  ASSUME NEW rows, ExecuteParameterRows(rows)
  PROVE  handle' = handle /\ srvStmt' = srvStmt /\ (session' = "up" => session = "up")
BY SessionStaysLost DEF ExecuteParameterRows

LEMMA MainKeepsSession ==
  ASSUME NEW row, NEW values, NEW readers, ExecuteMain(row, values, readers)
  PROVE  session' = "up" => session = "up"
BY SessionStaysLost DEF ExecuteMain

LEMMA ChunkKeepsSession ==
  ASSUME NEW data, NEW last, NEW outcome, NEW writerAfter, SendChunk(data, last, outcome, writerAfter)
  PROVE  session' = "up" => session = "up"
BY SessionStaysLost DEF SendChunk

\* Every step of the program keeps the statement dropped.
LEMMA DroppedStep == StatementIsDropped /\ [Next]_vars => StatementIsDropped'
<1> SUFFICES ASSUME StatementIsDropped, [Next]_vars PROVE StatementIsDropped'
  OBVIOUS
<1>1. CASE handle' = handle /\ srvStmt' = srvStmt /\ (session' = "up" => session = "up")
  BY <1>1 DEF StatementIsDropped
<1>2. ASSUME NEW outcome \in Outcomes, Prepare(outcome) PROVE StatementIsDropped'
  <2>1. /\ Connection(outcome) /\ handle = "none"
        /\ handle' = IF outcome = "ok" THEN "alive" ELSE "none"
        /\ srvStmt' = IF Arrives(outcome) THEN "open" ELSE srvStmt
    BY <1>2 DEF Prepare
  <2> QED
    BY <2>1, SessionStaysLost DEF StatementIsDropped, Arrives
<1>3. ASSUME NEW outcome \in Outcomes, Drop(outcome) PROVE StatementIsDropped'
  <2>1. /\ Connection(outcome) /\ outcome # "error"
        /\ srvStmt' = IF Arrives(outcome) THEN "dropped" ELSE srvStmt
    BY <1>3 DEF Drop, DropRequest
  <2>2. session' = "up" => outcome = "ok"
    BY <2>1, SessionStaysLost, ConstantsAssumption DEF Outcomes, AllFaults
  <2> QED
    BY <2>1, <2>2 DEF StatementIsDropped, Arrives
<1>4. ASSUME NEW values \in GivenRows, AddRow(values) PROVE StatementIsDropped'
  BY <1>1, <1>4 DEF AddRow, server
<1>5. ASSUME NEW values \in GivenRows, Execute(values) PROVE StatementIsDropped'
  <2>1. \E rows : ExecuteParameterRows(rows)
    BY <1>5 DEF Execute
  <2> QED
    BY <1>1, <2>1, RowsKeepStatement
<1>6. ASSUME NEW values \in GivenRows, ExecuteRow(values) PROVE StatementIsDropped'
  <2>1. \/ UNCHANGED <<handle, server>>
        \/ \E row : ExecuteParameterRows(<<row>>)
        \/ /\ \E row, cut, readers : ExecuteMain(row, cut, readers)
           /\ UNCHANGED <<handle, srvStmt>>
    BY <1>6 DEF ExecuteRow
  <2> QED
    BY <1>1, <2>1, RowsKeepStatement, MainKeepsSession DEF server
<1>7. CASE ExecuteBatch
  <2>1. UNCHANGED <<handle, srvStmt, session>> \/ ExecuteParameterRows(batch)
    BY <1>7 DEF ExecuteBatch
  <2> QED
    BY <1>1, <2>1, RowsKeepStatement
<1>8. CASE ExecuteEmptyBatch
  BY <1>1, <1>8 DEF ExecuteEmptyBatch, server
<1>9. CASE NewWriter \/ ReaderFails \/ Finish
  BY <1>1, <1>9 DEF NewWriter, ReaderFails, Finish, server
<1>10. CASE Flush
  <2>1. /\ handle' = handle
        /\ \/ UNCHANGED server
           \/ /\ \E data, outcome : SendChunk(data, TRUE, outcome, NoWriter)
              /\ srvStmt' = srvStmt
    BY <1>10 DEF Flush
  <2> QED
    BY <1>1, <2>1, ChunkKeepsSession DEF server
<1>11. ASSUME NEW n \in 1..MaxRead, Copy(n) PROVE StatementIsDropped'
  <2>1. /\ handle' = handle
        /\ \/ UNCHANGED server
           \/ /\ \E data, outcome, after : SendChunk(data, FALSE, outcome, after)
              /\ srvStmt' = srvStmt
    BY <1>11 DEF Copy
  <2> QED
    BY <1>1, <2>1, ChunkKeepsSession DEF server
<1>12. ASSUME NEW kind \in Kinds, GetValue(kind) \/ IntoValue(kind) PROVE StatementIsDropped'
  BY <1>1, <1>12 DEF GetValue, IntoValue, server
<1>13. CASE UNCHANGED vars
  BY <1>1, <1>13 DEF vars, server
<1> QED
  BY <1>2, <1>3, <1>4, <1>5, <1>6, <1>7, <1>8, <1>9, <1>10, <1>11, <1>12, <1>13 DEF Next, Step

\* sync_prepared_statement.rs:460, :419: a statement that the program does not
\* have, or has no more, is not left on a server whose session goes on.
THEOREM StatementDropped == Spec => []StatementIsDropped
<1>1. Init => StatementIsDropped
  BY DEF Init, StatementIsDropped
<1> QED
  BY <1>1, DroppedStep, PTL DEF Spec

-----------------------------------------------------------------------------
(* The rows that are given.                                                *)

\* Rows whose values are bytes.
ByteRows(n) == {r \in [1..n -> UNION {ValuesAt(i) : i \in Nat}] :
                  \A i \in 1..n : r[i] \in ValuesAt(i)}

\* A value that is given for a parameter is bytes.
LEMMA ValuesAreBytes ==
  ASSUME st \in Statements, NEW i, NEW v \in ValuesAt(i)
  PROVE  v.content \in Bytes
<1>1. st.params \in Seq(Types)
  BY ConstantsAssumption
<1>2. CASE i \in DOMAIN st.params
  <2>1. st.params[i] \in Types
    BY <1>1, <1>2, LenProperties, ElementOfSeq
  <2>2. v \in Values[st.params[i]]
    BY <1>2 DEF ValuesAt
  <2> QED BY <2>1, <2>2, ConstantsAssumption DEF Bytes
<1>3. CASE i \notin DOMAIN st.params
  <2>1. v = Param("value", <<>>)
    BY <1>3 DEF ValuesAt
  <2>2. v.content = <<>>
    BY <2>1 DEF Param
  <2> QED BY <2>2, EmptySeq DEF Bytes
<1> QED BY <1>2, <1>3

LEMMA OneMoreIs ==
  ASSUME NEW A, NEW B, NEW x
  PROVE  x \in OneMore(A, B) <=> \E r \in A, v \in B : x = Append(r, v)
BY DEF OneMore

\* One value more.
LEMMA RowLonger ==
  ASSUME NEW n \in Nat
  PROVE  ByteRows(n + 1) = OneMore(ByteRows(n), ValuesAt(n + 1))
<1> DEFINE T == UNION {ValuesAt(i) : i \in Nat}
<1>0. n + 1 \in Nat /\ \A i \in Nat : ValuesAt(i) \subseteq T
  OBVIOUS
<1> HIDE DEF T
<1>1. ASSUME NEW r \in ByteRows(n), NEW v \in ValuesAt(n + 1) PROVE Append(r, v) \in ByteRows(n + 1)
  <2>1. r \in [1..n -> T] /\ \A i \in 1..n : r[i] \in ValuesAt(i)
    BY DEF ByteRows, T
  <2>2. r \in Seq(T) /\ Len(r) = n /\ v \in T
    BY <1>0, <2>1, SeqDef, LenProperties
  <2> DEFINE q == Append(r, v)
  <2>3. /\ q \in Seq(T) /\ Len(q) = n + 1 /\ \A i \in 1..n : q[i] = r[i]
        /\ q[n + 1] = v
    BY <2>2, AppendProperties
  <2> HIDE DEF q
  <2>4. q \in [1..(n + 1) -> T]
    BY <2>3, LenProperties
  <2>5. ASSUME NEW i \in 1..(n + 1) PROVE q[i] \in ValuesAt(i)
    <3>1. CASE i = n + 1
      BY <2>3, <3>1
    <3>2. CASE i # n + 1
      <4>1. i \in 1..n
        BY <3>2
      <4> QED BY <2>1, <2>3, <4>1
    <3> QED BY <3>1, <3>2
  <2> QED BY <2>4, <2>5 DEF ByteRows, T, q
<1>2. ASSUME NEW q \in ByteRows(n + 1)
      PROVE  \E r \in ByteRows(n), v \in ValuesAt(n + 1) : q = Append(r, v)
  <2>1. q \in [1..(n + 1) -> T] /\ \A i \in 1..(n + 1) : q[i] \in ValuesAt(i)
    BY DEF ByteRows, T
  <2>2. q \in Seq(T) /\ Len(q) = n + 1
    BY <1>0, <2>1, SeqDef, LenProperties
  <2>3. q # <<>>
    BY <2>2, EmptySeq
  <2>4. PICK r \in Seq(T), v \in T : q = Append(r, v)
    BY <2>2, <2>3, SequenceEmptyOrAppend
  <2>5. Len(r) = n /\ (\A i \in 1..n : q[i] = r[i]) /\ q[n + 1] = v
    BY <2>2, <2>4, AppendProperties, LenProperties
  <2>6. n + 1 \in 1..(n + 1) /\ \A i \in 1..n : i \in 1..(n + 1)
    OBVIOUS
  <2>7. v \in ValuesAt(n + 1) /\ \A i \in 1..n : r[i] \in ValuesAt(i)
    BY <2>1, <2>5, <2>6
  <2>8. r \in [1..n -> T]
    BY <2>4, <2>5, LenProperties
  <2>9. r \in ByteRows(n)
    BY <2>7, <2>8 DEF ByteRows, T
  <2> QED BY <2>4, <2>7, <2>9
<1>3. \A q : q \in OneMore(ByteRows(n), ValuesAt(n + 1)) => q \in ByteRows(n + 1)
  <2> SUFFICES ASSUME NEW q \in OneMore(ByteRows(n), ValuesAt(n + 1)) PROVE q \in ByteRows(n + 1)
    OBVIOUS
  <2>1. PICK r \in ByteRows(n), v \in ValuesAt(n + 1) : q = Append(r, v)
    BY OneMoreIs
  <2> QED BY <1>1, <2>1
<1>4. \A q : q \in ByteRows(n + 1) => q \in OneMore(ByteRows(n), ValuesAt(n + 1))
  BY <1>2, OneMoreIs
<1> QED BY <1>3, <1>4

\* No value.
LEMMA NoValue == ByteRows(0) = {<<>>}
<1>1. 1..0 = {}
  OBVIOUS
<1> DEFINE T == UNION {ValuesAt(i) : i \in Nat}
<1>2. <<>> \in [1..0 -> T]
  BY EmptySeq, LenProperties
<1>3. \A r \in [1..0 -> T] : r = <<>>
  BY <1>1, <1>2
<1> HIDE DEF T
<1>4. ByteRows(0) = {r \in [1..0 -> T] : \A i \in 1..0 : r[i] \in ValuesAt(i)}
  BY DEF ByteRows, T
<1> QED BY <1>1, <1>2, <1>3, <1>4

\* RowsOfLength is what it says.
LEMMA RowsOfLengthAre ==
  ASSUME NEW n \in Nat
  PROVE  RowsOfLength[n] = ByteRows(n)
<1> DEFINE P(f) == f = [i \in Nat |-> IF i = 0 THEN {<<>>} ELSE OneMore(f[i - 1], ValuesAt(i))]
           F == [i \in Nat |-> ByteRows(i)]
           R == RowsOfLength
<1>1. P(F)
  <2>1. ASSUME NEW i \in Nat
        PROVE  ByteRows(i) = IF i = 0 THEN {<<>>} ELSE OneMore(F[i - 1], ValuesAt(i))
    <3>1. CASE i = 0
      BY <3>1, NoValue
    <3>2. CASE i # 0
      <4>1. i - 1 \in Nat /\ (i - 1) + 1 = i
        BY <3>2
      <4>2. F[i - 1] = ByteRows(i - 1)
        BY <4>1
      <4> HIDE DEF F
      <4>3. ByteRows((i - 1) + 1) = OneMore(ByteRows(i - 1), ValuesAt((i - 1) + 1))
        BY <4>1, RowLonger
      <4> QED BY <3>2, <4>1, <4>2, <4>3
    <3> QED BY <3>1, <3>2
  <2> DEFINE G == [i \in Nat |-> IF i = 0 THEN {<<>>} ELSE OneMore(F[i - 1], ValuesAt(i))]
  <2>2. F = G
    BY <2>1
  <2> QED BY <2>2
<1>2. R = CHOOSE f : P(f)
  BY Zenon DEF RowsOfLength
<1>3. P(R)
  <2> HIDE DEF F, P, R
  <2> QED BY <1>1, <1>2, Zenon
<1>4. \A i \in Nat : R[i] = IF i = 0 THEN {<<>>} ELSE OneMore(R[i - 1], ValuesAt(i))
  <2> HIDE DEF R
  <2> QED BY <1>3
<1> HIDE DEF R, P, F
<1> DEFINE N == {i \in Nat : R[i] = ByteRows(i)}
<1>5. 0 \in N
  BY <1>4, NoValue
<1>6. ASSUME NEW i \in Nat, i \in N PROVE i + 1 \in N
  <2>1. R[i + 1] = OneMore(R[(i + 1) - 1], ValuesAt(i + 1))
    BY <1>4
  <2>2. (i + 1) - 1 = i /\ i + 1 \in Nat
    OBVIOUS
  <2>3. R[i] = ByteRows(i)
    BY <1>6
  <2>4. R[i + 1] = ByteRows(i + 1)
    BY <2>1, <2>2, <2>3, RowLonger
  <2> QED BY <2>2, <2>4
<1> HIDE DEF N
<1>7. Nat \subseteq N
  BY <1>5, <1>6, AllNumbers
<1> QED
  BY <1>7 DEF N, R

\* The rows that are given are sequences of values.
LEMMA GivenRowsAre ==
  ASSUME st \in Statements, NEW values \in GivenRows
  PROVE  /\ IsSequence(values)
         /\ \A i \in DOMAIN values : values[i].content \in Bytes
<1>1. DOMAIN st.params = 1..Len(st.params) /\ Len(st.params) \in Nat
  BY ParamsAre
<1>2. PICK n \in Greatest(0, Len(st.params) - 1)..(Len(st.params) + 1) : values \in RowsOfLength[n]
  BY DEF GivenRows
<1>3. n \in Nat
  BY <1>1, <1>2 DEF Greatest
<1>4. values \in ByteRows(n)
  BY <1>2, <1>3, RowsOfLengthAre
<1>5. /\ values \in [1..n -> UNION {ValuesAt(i) : i \in Nat}]
      /\ \A i \in 1..n : values[i] \in ValuesAt(i)
  BY <1>4 DEF ByteRows
<1>6. IsSequence(values)
  BY <1>3, <1>5, SequenceOfFunction
<1> QED BY <1>5, <1>6, ValuesAreBytes

-----------------------------------------------------------------------------
(* The order of the numbers of a set.                                      *)

\* All of them are in it.
LEMMA OrdersOnto ==
  ASSUME NEW n \in Nat, NEW set \in SUBSET (1..n), NEW q \in Orders(set), NEW i \in set
  PROVE  \E k \in DOMAIN q : q[k] = i
<1> DEFINE c == Cardinality(set)
<1>1. IsFiniteSet(set)
  <2>1. IsFiniteSet(1..n)
    BY FS_Interval
  <2> QED BY <2>1, FS_Subset
<1>2. c \in Nat /\ DOMAIN q = 1..c /\ \A j, k \in DOMAIN q : j # k => q[j] # q[k]
  BY OrdersAre
<1>3. q \in [1..c -> set]
  BY DEF Orders
<1> HIDE DEF c
<1>4. IsFiniteSet(1..c) /\ Cardinality(1..c) = c
  <2>1. 1 \in Int /\ c \in Int
    BY <1>2
  <2>2. IsFiniteSet(1..c) /\ Cardinality(1..c) = IF 1 > c THEN 0 ELSE c - 1 + 1
    BY <2>1, FS_Interval
  <2> QED BY <1>2, <2>2
<1>5. q \in Injection(1..c, set)
  BY <1>2, <1>3 DEF Injection, IsInjective
<1>6. Cardinality(1..c) = Cardinality(set) <=> q \in Surjection(1..c, set)
  BY <1>1, <1>5, FS_Injection
<1>7. q \in Surjection(1..c, set)
  BY <1>4, <1>6 DEF c
<1> QED BY <1>2, <1>7 DEF Surjection

\* The same, of positions of a sequence.
LEMMA OrdersOfRows ==
  ASSUME NEW rows, IsSequence(rows), NEW set \in SUBSET (DOMAIN rows), NEW q \in Orders(set)
  PROVE  \A i \in set : \E k \in DOMAIN q : q[k] = i
<1>1. DOMAIN rows = 1..Len(rows) /\ Len(rows) \in Nat
  BY SequenceDomain
<1> DEFINE n == Len(rows)
<1>2. n \in Nat /\ set \in SUBSET (1..n)
  BY <1>1
<1> HIDE DEF n
<1> QED BY <1>2, OrdersOnto

\* There is one only.
LEMMA OrdersSame ==
  ASSUME NEW n \in Nat, NEW set \in SUBSET (1..n), NEW q \in Orders(set), NEW r \in Orders(set)
  PROVE  q = r
<1> DEFINE c == Cardinality(set)
<1>1. /\ c \in Nat /\ DOMAIN q = 1..c /\ DOMAIN r = 1..c
      /\ \A j \in DOMAIN q : q[j] \in set
      /\ \A j \in DOMAIN r : r[j] \in set
  BY OrdersAre
<1>2. /\ q \in [1..c -> set] /\ r \in [1..c -> set]
      /\ \A i, j \in DOMAIN q : i < j => q[i] < q[j]
      /\ \A i, j \in DOMAIN r : i < j => r[i] < r[j]
  BY DEF Orders
<1>3. /\ \A i \in set : \E k \in DOMAIN q : q[k] = i
      /\ \A i \in set : \E k \in DOMAIN r : r[k] = i
  BY OrdersOnto
<1>4. set \subseteq Int
  OBVIOUS
<1> HIDE DEF c
<1> DEFINE D == {k \in 1..c : q[k] # r[k]}
<1>5. CASE D = {}
  <2>1. \A k \in 1..c : q[k] = r[k]
    BY <1>5
  <2> HIDE DEF D
  <2>2. q \in [1..c -> set] /\ r \in [1..c -> set]
    BY <1>2
  <2>3. q = [k \in 1..c |-> q[k]] /\ r = [k \in 1..c |-> r[k]]
    BY <2>2
  <2>4. [k \in 1..c |-> q[k]] = [k \in 1..c |-> r[k]]
    BY <2>1, Zenon
  <2> QED BY <2>3, <2>4
<1>6. CASE D # {}
  <2>1. D \subseteq Nat
    BY <1>1
  <2>2. PICK k \in D : \A j \in D : k <= j
    <3> HIDE DEF D
    <3> QED BY <1>6, <2>1, LeastOf
  <2>3. k \in 1..c /\ q[k] # r[k] /\ q[k] \in set /\ r[k] \in set /\ q[k] \in Int /\ r[k] \in Int
    BY <1>1, <1>4, <2>2
  <2>4. \A j \in 1..c : j < k => q[j] = r[j]
    <3> SUFFICES ASSUME NEW j \in 1..c, j < k, q[j] # r[j] PROVE FALSE
      OBVIOUS
    <3>1. k <= j
      BY <2>2
    <3> QED BY <1>1, <2>3, <3>1
  <2>5. CASE q[k] < r[k]
    <3>1. PICK j \in 1..c : r[j] = q[k]
      BY <1>1, <1>3, <2>3
    <3>2. j < k \/ j = k \/ k < j
      BY <1>1, <2>3, <3>1
    <3>3. CASE j < k
      <4>1. q[j] < q[k] /\ q[j] = q[k]
        BY <1>1, <1>2, <2>3, <2>4, <3>1, <3>3
      <4> QED BY <2>3, <4>1
    <3>4. CASE k < j
      <4>1. r[k] < r[j]
        BY <1>1, <1>2, <2>3, <3>1, <3>4
      <4> QED BY <2>3, <2>5, <3>1, <4>1
    <3> QED BY <2>3, <3>1, <3>2, <3>3, <3>4
  <2>6. CASE r[k] < q[k]
    <3>1. PICK j \in 1..c : q[j] = r[k]
      BY <1>1, <1>3, <2>3
    <3>2. j < k \/ j = k \/ k < j
      BY <1>1, <2>3, <3>1
    <3>3. CASE j < k
      <4>1. r[j] < r[k] /\ r[j] = r[k]
        BY <1>1, <1>2, <2>3, <2>4, <3>1, <3>3
      <4> QED BY <2>3, <4>1
    <3>4. CASE k < j
      <4>1. q[k] < q[j]
        BY <1>1, <1>2, <2>3, <3>1, <3>4
      <4> QED BY <2>3, <2>6, <3>1, <4>1
    <3> QED BY <2>3, <3>1, <3>2, <3>3, <3>4
  <2> QED BY <2>3, <2>5, <2>6
<1> QED BY <1>5, <1>6

-----------------------------------------------------------------------------
(* The rows that were given and executed.                                  *)

\* In a step the rows that were given stay what they are.
GivenStays ==
  /\ IsSequence(given') /\ Len(given) \in Nat /\ Len(given') \in Nat /\ Len(given) <= Len(given')
  /\ \A k \in 1..Len(given) : k \in 1..Len(given') /\ given'[k] = given[k]

LEMMA GivenIsKept ==
  ASSUME StatementInv, given' = given \/ \E values : given' = Append(given, values)
  PROVE  GivenStays
<1>1. IsSequence(given)
  BY DEF StatementInv, SequenceTypes
<1>2. DOMAIN given = 1..Len(given) /\ Len(given) \in Nat
  BY <1>1, SequenceDomain
<1>3. CASE given' = given
  BY <1>1, <1>2, <1>3 DEF GivenStays
<1>4. CASE \E values : given' = Append(given, values)
  <2>1. PICK values : given' = Append(given, values)
    BY <1>4
  <2>2. /\ IsSequence(given') /\ Len(given') = Len(given) + 1
        /\ \A k \in DOMAIN given : given'[k] = given[k]
    BY <1>1, <2>1, SequenceAppended
  <2> QED BY <1>2, <2>2 DEF GivenStays
<1> QED BY <1>3, <1>4

\* A row that was executed is as it was given, with its LOBs.
RowIsGiven(row, values) ==
  \A i \in DOMAIN st.params :
    row.values[i] =
      (IF IsReader(values[i]) THEN Param("lob", Stored(st.params[i], values[i].content))
       ELSE values[i])

LEMMA LobsArriveIs == LobsArrive <=> \A k \in DOMAIN executed : RowIsGiven(executed[k], given[executed[k].id])
BY DEF LobsArrive, RowIsGiven

\* What is to be shown of the rows after a step.
LEMMA RowsHaveArrived ==
  ASSUME st' = st, \A k \in DOMAIN executed' : RowIsGiven(executed'[k], given'[executed'[k].id])
  PROVE  LobsArrive'
BY DEF LobsArrive, RowIsGiven, Stored

\* The rows that were executed before.
LEMMA ArrivedBefore ==
  ASSUME StatementInv, LobsArrive, GivenStays, NEW k \in DOMAIN executed
  PROVE  RowIsGiven(executed[k], given'[executed[k].id])
<1>1. executed[k].id \in 1..Len(given)
  BY DEF StatementInv, RowsInv, Numbered
<1>2. given'[executed[k].id] = given[executed[k].id]
  BY <1>1 DEF GivenStays
<1> QED BY <1>2, LobsArriveIs

\* No row is executed.
LEMMA ArriveKept ==
  ASSUME StatementInv, LobsArrive, GivenStays, st' = st, executed' = executed
  PROVE  LobsArrive'
<1>1. \A k \in DOMAIN executed' : RowIsGiven(executed'[k], given'[executed'[k].id])
  BY ArrivedBefore
<1> QED BY <1>1, RowsHaveArrived

\* Some of the rows that are sent are executed.
LEMMA ArriveMore ==
  ASSUME StatementInv, LobsArrive, GivenStays, st' = st, NEW rows, IsSequence(rows), NEW results,
         SrvExecuteRows(rows, results),
         \A j \in DOMAIN rows : RowIsGiven(rows[j], given'[rows[j].id])
  PROVE  LobsArrive'
<1> DEFINE set == {i \in DOMAIN rows : results[i] # ExecFailure}
<1>1. PICK done \in Orders(set) :
        executed' = executed \o [k \in DOMAIN done |-> rows[done[k]]]
  BY DEF SrvExecuteRows
<1>2. DOMAIN rows = 1..Len(rows) /\ Len(rows) \in Nat
  BY SequenceDomain
<1>3. set \in SUBSET (1..Len(rows))
  BY <1>2
<1> DEFINE c == Cardinality(set)
           r == [k \in DOMAIN done |-> rows[done[k]]]
<1> HIDE DEF set
<1>4. c \in Nat /\ DOMAIN done = 1..c /\ \A j \in DOMAIN done : done[j] \in set
  BY <1>2, <1>3, OrdersAre
<1> HIDE DEF c
<1>5. DOMAIN r = 1..c /\ r = [k \in 1..c |-> r[k]] /\ \A k \in 1..c : done[k] \in DOMAIN rows /\ r[k] = rows[done[k]]
  BY <1>2, <1>3, <1>4
<1> HIDE DEF r
<1>6. IsSequence(r) /\ Len(r) = c
  BY <1>4, <1>5, SequenceOfFunction
<1>7. IsSequence(executed)
  BY DEF StatementInv, SequenceTypes
<1>8. DOMAIN executed = 1..Len(executed) /\ Len(executed) \in Nat
  BY <1>7, SequenceDomain
<1>9. /\ DOMAIN executed' = 1..(Len(executed) + c)
      /\ \A k \in 1..(Len(executed) + c) : executed'[k] =
            IF k <= Len(executed) THEN executed[k] ELSE r[k - Len(executed)]
  BY <1>1, <1>6, <1>7, SequenceExtended DEF r
<1>10. ASSUME NEW k \in DOMAIN executed' PROVE RowIsGiven(executed'[k], given'[executed'[k].id])
  <2>1. CASE k <= Len(executed)
    <3>1. k \in DOMAIN executed /\ executed'[k] = executed[k]
      BY <1>4, <1>8, <1>9, <2>1
    <3>2. RowIsGiven(executed[k], given'[executed[k].id])
      BY <3>1, ArrivedBefore
    <3> QED BY <3>1, <3>2
  <2>2. CASE ~(k <= Len(executed))
    <3>1. k - Len(executed) \in 1..c
      BY <1>4, <1>8, <1>9, <2>2
    <3>2. executed'[k] = rows[done[k - Len(executed)]] /\ done[k - Len(executed)] \in DOMAIN rows
      BY <1>5, <1>9, <2>2, <3>1
    <3> QED BY <3>2
  <2> QED BY <2>1, <2>2
<1> QED BY <1>10, RowsHaveArrived

-----------------------------------------------------------------------------
(* What a step leaves alone.                                               *)

\* Nothing waits for LOBs when the call is over.
LEMMA StreamIsOver ==
  ASSUME NotStreaming
  PROVE  WaitingInv' /\ TodoInv' /\ WriterInv'
<1>1. streaming' = FALSE /\ writer' = NoWriter
  BY DEF NotStreaming
<1>2. writer'.open = FALSE
  BY <1>1 DEF NoWriter
<1> QED
  BY <1>1, <1>2 DEF WaitingInv, TodoInv, WriterInv

\* Nor outside of a call.
LEMMA StreamIsNot ==
  ASSUME StatementInv, ~streaming, UNCHANGED <<streaming, todo, writer>>
  PROVE  WaitingInv' /\ TodoInv' /\ WriterInv'
<1>1. ~writer.open
  BY DEF StatementInv, StreamInv
<1>2. ~streaming' /\ ~writer'.open
  BY <1>1
<1> QED
  BY <1>2 DEF WaitingInv, TodoInv, WriterInv

\* A step that touches none of it.
LEMMA StreamStutters ==
  ASSUME WaitingInv, TodoInv, WriterInv, UNCHANGED streamVars, given' = given, st' = st
  PROVE  WaitingInv' /\ TodoInv' /\ WriterInv'
<1>1. /\ streaming' = streaming /\ todo' = todo /\ writer' = writer
      /\ pending' = pending /\ lobs' = lobs
  BY DEF streamVars
<1>2. WaitingInv'
  BY <1>1 DEF WaitingInv, LastGiven, LobPositions
<1>3. TodoInv'
  BY <1>1 DEF TodoInv, LobsInOrder, LastGiven, LobPositions, Stored
<1>4. WriterInv'
  BY <1>1 DEF WriterInv, Divided, Stored
<1> QED
  BY <1>2, <1>3, <1>4

\* The rows that were given are bytes, and those of the batch are among them.
LEMMA GivenInvKept ==
  ASSUME GivenInv, given' = given, batch' = batch \/ batch' = <<>>
  PROVE  GivenInv'
<1>1. CASE batch' = batch
  BY <1>1 DEF GivenInv
<1>2. CASE batch' = <<>>
  BY <1>2, IsSequenceEmpty DEF GivenInv
<1> QED
  BY <1>1, <1>2

LEMMA GivenInvMore ==
  ASSUME StatementInv, GivenInv, NEW values \in GivenRows, Accept(values),
         batch' = batch \/ batch' = Append(batch, Row(Len(given) + 1, values))
  PROVE  GivenInv'
<1>1. IsSequence(values) /\ \A i \in DOMAIN values : values[i].content \in Bytes
  BY GivenRowsAre DEF StatementInv, SequenceTypes
<1>2. IsSequence(given) /\ IsSequence(batch)
  BY DEF StatementInv, SequenceTypes
<1>3. given' = Append(given, values)
  BY DEF Accept
<1>4. /\ Len(given) \in Nat /\ DOMAIN given = 1..Len(given) /\ DOMAIN given' = 1..(Len(given) + 1)
      /\ \A k \in DOMAIN given : given'[k] = given[k]
      /\ given'[Len(given) + 1] = values
  BY <1>2, <1>3, SequenceAppended
<1>5. ASSUME NEW k \in DOMAIN given'
      PROVE  IsSequence(given'[k]) /\ \A i \in DOMAIN given'[k] : given'[k][i].content \in Bytes
  <2>1. CASE k \in DOMAIN given
    BY <1>4, <2>1 DEF GivenInv, Bytes
  <2>2. CASE k \notin DOMAIN given
    <3>1. k = Len(given) + 1
      BY <1>4, <2>2
    <3> QED BY <1>1, <1>4, <3>1
  <2> QED BY <2>1, <2>2
<1>6. \A k \in DOMAIN batch : batch[k].id \in DOMAIN given /\ batch[k].values = given'[batch[k].id]
  BY <1>4 DEF StatementInv, RowsInv, Numbered, GivenInv
<1>7. \A k \in DOMAIN batch' : batch'[k].values = given'[batch'[k].id]
  <2>1. CASE batch' = batch
    BY <1>6, <2>1
  <2>2. CASE batch' = Append(batch, Row(Len(given) + 1, values))
    <3> DEFINE row == Row(Len(given) + 1, values)
    <3>1. row.id = Len(given) + 1 /\ row.values = values
      BY DEF Row
    <3>2. batch' = Append(batch, row)
      BY <2>2
    <3> HIDE DEF row
    <3>3. /\ Len(batch) \in Nat /\ DOMAIN batch = 1..Len(batch) /\ DOMAIN batch' = 1..(Len(batch) + 1)
          /\ \A k \in DOMAIN batch : batch'[k] = batch[k]
          /\ batch'[Len(batch) + 1] = row
      BY <1>2, <3>2, SequenceAppended
    <3>4. ASSUME NEW k \in DOMAIN batch' PROVE batch'[k].values = given'[batch'[k].id]
      <4>1. CASE k \in DOMAIN batch
        BY <1>6, <3>3, <4>1
      <4>2. CASE k \notin DOMAIN batch
        <5>1. k = Len(batch) + 1
          BY <3>3, <4>2
        <5> QED BY <1>4, <3>1, <3>3, <5>1
      <4> QED BY <4>1, <4>2
    <3> QED BY <3>4
  <2> QED BY <2>1, <2>2
<1> QED
  BY <1>5, <1>7 DEF GivenInv, Bytes

\* Texts that are UTF-8 were UTF-8 before a row was added.
LEMMA TextsWere ==
  ASSUME StatementInv, GivenStays, st' = st, TextsAreUtf8'
  PROVE  TextsAreUtf8
<1>1. DOMAIN given = 1..Len(given)
  BY SequenceDomain DEF StatementInv, SequenceTypes
<1>2. DOMAIN given' = 1..Len(given')
  BY SequenceDomain DEF GivenStays
<1> QED
  BY <1>1, <1>2 DEF GivenStays, TextsAreUtf8

\* What is buffered and what was sent is less than a chunk.
BufferIsCut == Len(writer.buffer) <= Greatest(writer.length - 1, 3)
ChunkIsCut == chunk.type # "none" /\ ~chunk.last => Len(chunk.data) >= chunk.length - 3
ChunkIsText == chunk.type = "CLOB" => CESU!IsText(chunk.data)

\* What is to be shown of the chunks after a step.
LEMMA ChunksAfter ==
  ASSUME StatementInv, GivenStays, st' = st, TextsAreUtf8 => BufferIsCut' /\ ChunkIsCut', ChunkIsText'
  PROVE  ChunksAreCut'
BY TextsWere DEF ChunksAreCut, BufferIsCut, ChunkIsCut, ChunkIsText

LEMMA ChunksWere ==
  ASSUME ChunksAreCut
  PROVE  (TextsAreUtf8 => BufferIsCut /\ ChunkIsCut) /\ ChunkIsText
BY DEF ChunksAreCut, BufferIsCut, ChunkIsCut, ChunkIsText

\* No chunk is sent, and nothing is buffered.
LEMMA ChunksKept ==
  ASSUME StatementInv, ChunksAreCut, GivenStays, st' = st, chunk' = chunk,
         writer' = writer \/ (writer'.buffer = <<>> /\ writer'.length \in Nat)
  PROVE  ChunksAreCut'
<1>1. (TextsAreUtf8 => BufferIsCut /\ ChunkIsCut) /\ ChunkIsText
  BY ChunksWere
<1>2. (TextsAreUtf8 => ChunkIsCut') /\ ChunkIsText'
  BY <1>1 DEF ChunkIsCut, ChunkIsText
<1>3. TextsAreUtf8 => BufferIsCut'
  <2>1. CASE writer' = writer
    BY <1>1, <2>1 DEF BufferIsCut
  <2>2. CASE writer'.buffer = <<>> /\ writer'.length \in Nat
    <3>1. Len(writer'.buffer) = 0
      BY <2>2, IsSequenceEmpty
    <3>2. 0 <= Greatest(writer'.length - 1, 3)
      BY <2>2 DEF Greatest
    <3> QED BY <3>1, <3>2 DEF BufferIsCut
  <2> QED BY <2>1, <2>2
<1> QED
  BY <1>2, <1>3, ChunksAfter

LEMMA NoWriterIs == NoWriter.buffer = <<>> /\ NoWriter.length \in Nat /\ ~NoWriter.open
BY DEF NoWriter

\* The call did not end because of a text.
LEMMA AcceptedKept ==
  ASSUME TextIsAccepted, st' = st,
         (result' = result /\ given' = given) \/ result' # Result("err", "utf8")
  PROVE  TextIsAccepted'
BY DEF TextIsAccepted, Result

-----------------------------------------------------------------------------
(* Rows without readers.                                                   *)

\* Rows that fit arrive as they were given.
LEMMA RowsArrive ==
  ASSUME StatementInv, LobsArrive, GivenStays, NEW rows, IsSequence(rows),
         \A j \in DOMAIN rows : Fits(rows[j]) /\ LobPositions(rows[j]) = {} =>
                                  RowIsGiven(rows[j], given'[rows[j].id]),
         ExecuteParameterRows(rows)
  PROVE  /\ LobsArrive' /\ NotStreaming /\ st' = st /\ chunk' = chunk
         /\ result' # Result("err", "utf8")
<1>1. PICK outcome \in (IF \A i \in DOMAIN rows : Fits(rows[i]) THEN Outcomes ELSE {"error"}),
           results \in [DOMAIN rows -> {1, ExecFailure}] :
        LET failures == HasFailure(results)
            wantsLobs == \E i \in DOMAIN rows : LobPositions(rows[i]) # {}
            parts == IF wantsLobs THEN <<Value("wlr", 0)>> ELSE st.parts
            values == IntoInternalReturnValues(parts)
        IN /\ IF Arrives(outcome) /\ ~wantsLobs THEN SrvExecuteRows(rows, results)
              ELSE UNCHANGED executed
           /\ CASE outcome # "ok" -> Fail("roundtrip")
                [] outcome = "ok" /\ failures ->
                     /\ result' = Result("results", MixErrors(results, ErrorsOf(rows, results)))
                     /\ response' = <<>> /\ NotStreaming
                [] outcome = "ok" /\ ~failures /\ ~values.ok -> Fail("parts")
                [] OTHER -> Respond(values.values, st.type)
           /\ st' = st /\ chunk' = chunk
  BY Zenon DEF ExecuteParameterRows
<1>2. st' = st /\ chunk' = chunk
  BY <1>1
<1>3. NotStreaming
  BY <1>1, FailIsOver, RespondIsOver
<1>4. result' # Result("err", "utf8")
  <2>1. \/ result' = Result("err", "roundtrip") \/ result' = Result("err", "parts")
        \/ \E v : result' = Result("results", v)
        \/ result' = Result("ok", "response") \/ result' = Result("err", "response")
    BY <1>1 DEF Fail, Respond
  <2> QED BY <2>1 DEF Result
<1>5. CASE executed' = executed
  BY <1>2, <1>3, <1>4, <1>5, ArriveKept
<1>6. CASE executed' # executed
  <2>1. /\ Arrives(outcome) /\ SrvExecuteRows(rows, results)
        /\ \A i \in DOMAIN rows : LobPositions(rows[i]) = {}
    BY <1>1, <1>6
  <2>2. \A i \in DOMAIN rows : Fits(rows[i])
    BY <1>1, <2>1 DEF Arrives
  <2>3. \A j \in DOMAIN rows : RowIsGiven(rows[j], given'[rows[j].id])
    BY <2>1, <2>2
  <2>4. LobsArrive'
    BY <1>2, <2>1, <2>3, ArriveMore
  <2> QED BY <1>2, <1>3, <1>4, <2>4
<1> QED
  BY <1>5, <1>6

\* A row that has none, and is sent as it was given.
LEMMA RowAsGiven ==
  ASSUME NEW row, Fits(row), st \in Statements, IsSequence(row.values), ~HasReader(row),
         NEW values, values = row.values
  PROVE  RowIsGiven(row, values)
<1>1. DOMAIN row.values = 1..Len(row.values) /\ Len(row.values) = Len(st.params)
  BY SequenceDomain DEF Fits
<1>2. DOMAIN st.params = DOMAIN row.values
  BY <1>1, ParamsAre
<1> QED
  BY <1>2 DEF RowIsGiven, HasReader

-----------------------------------------------------------------------------
(* The actions, without those of the LobWriter.                            *)

\* What LobsInv is made of.
LEMMA LobsAfter ==
  ASSUME GivenInv', WaitingInv', TodoInv', WriterInv', LobsArrive', ChunksAreCut', TextIsAccepted'
  PROVE  LobsInv'
BY DEF LobsInv

LEMMA LobsWere ==
  ASSUME LobsInv
  PROVE  /\ GivenInv /\ WaitingInv /\ TodoInv /\ WriterInv
         /\ LobsArrive /\ ChunksAreCut /\ TextIsAccepted
BY DEF LobsInv

\* Initially nothing was given.
LEMMA LobsInit == Init => LobsInv
<1> SUFFICES ASSUME Init PROVE LobsInv
  OBVIOUS
<1>1. /\ given = <<>> /\ batch = <<>> /\ executed = <<>> /\ streaming = FALSE /\ writer = NoWriter
      /\ chunk = NoChunk /\ result = Result("none", 0)
  BY DEF Init
<1>2. writer.open = FALSE /\ Len(writer.buffer) = 0 /\ writer.length = 0
  BY <1>1, IsSequenceEmpty DEF NoWriter
<1>3. chunk.type = "none"
  BY <1>1 DEF NoChunk
<1>4. GivenInv /\ LobsArrive
  BY <1>1, IsSequenceEmpty DEF GivenInv, LobsArrive
<1>5. WaitingInv /\ TodoInv /\ WriterInv
  BY <1>1, <1>2 DEF WaitingInv, TodoInv, WriterInv
<1>6. ChunksAreCut
  BY <1>2, <1>3 DEF ChunksAreCut, Greatest
<1>7. TextIsAccepted
  BY <1>1 DEF TextIsAccepted, Result
<1> QED
  BY <1>4, <1>5, <1>6, <1>7 DEF LobsInv

\* A step that gives nothing, executes nothing and sends no chunk.
LEMMA LobsStutter ==
  ASSUME StatementInv, LobsInv, UNCHANGED <<given, executed, st, chunk>>,
         batch' = batch \/ batch' = <<>>,
         UNCHANGED streamVars \/ NotStreaming \/ (~streaming /\ UNCHANGED <<streaming, todo, writer>>),
         result' = result \/ result' # Result("err", "utf8")
  PROVE  LobsInv'
<1>1. /\ GivenInv /\ WaitingInv /\ TodoInv /\ WriterInv
      /\ LobsArrive /\ ChunksAreCut /\ TextIsAccepted
  BY LobsWere
<1>2. GivenStays
  BY GivenIsKept
<1>3. GivenInv' /\ LobsArrive' /\ TextIsAccepted'
  BY <1>1, <1>2, GivenInvKept, ArriveKept, AcceptedKept
<1>4. WaitingInv' /\ TodoInv' /\ WriterInv'
  BY <1>1, StreamStutters, StreamIsOver, StreamIsNot
<1>5. writer' = writer \/ writer' = NoWriter
  BY DEF streamVars, NotStreaming
<1>6. ChunksAreCut'
  BY <1>1, <1>2, <1>5, NoWriterIs, ChunksKept
<1> QED
  BY <1>3, <1>4, <1>6, LobsAfter

\* A row is given, and a call with rows is over.
LEMMA LobsCalled ==
  ASSUME StatementInv, LobsInv, GivenStays, GivenInv', NEW rows, IsSequence(rows),
         \A j \in DOMAIN rows : Fits(rows[j]) /\ LobPositions(rows[j]) = {} =>
                                  RowIsGiven(rows[j], given'[rows[j].id]),
         ExecuteParameterRows(rows)
  PROVE  LobsInv'
<1>1. LobsArrive /\ ChunksAreCut /\ TextIsAccepted
  BY LobsWere
<1>2. /\ LobsArrive' /\ NotStreaming /\ st' = st /\ chunk' = chunk
      /\ result' # Result("err", "utf8")
  BY <1>1, RowsArrive
<1>3. WaitingInv' /\ TodoInv' /\ WriterInv'
  BY <1>2, StreamIsOver
<1>4. writer' = NoWriter
  BY <1>2 DEF NotStreaming
<1>5. ChunksAreCut' /\ TextIsAccepted'
  BY <1>1, <1>2, <1>4, NoWriterIs, ChunksKept, AcceptedKept
<1> QED
  BY <1>2, <1>3, <1>5, LobsAfter

\* The statement is prepared, or dropped.
LEMMA PrepareLobs ==
  ASSUME StatementInv, LobsInv, NEW outcome, Prepare(outcome)
  PROVE  LobsInv'
<1>1. /\ UNCHANGED <<given, executed, st, chunk, batch>> /\ UNCHANGED streamVars
      /\ \E kind : result' = Result(kind, "prepare")
  BY DEF Prepare, stream, history, streamVars
<1>2. result' # Result("err", "utf8")
  BY <1>1 DEF Result
<1> QED
  BY <1>1, <1>2, LobsStutter

LEMMA DropLobs ==
  ASSUME StatementInv, LobsInv, NEW outcome, Drop(outcome)
  PROVE  LobsInv'
<1>1. /\ UNCHANGED <<given, executed, st, chunk>> /\ UNCHANGED streamVars
      /\ batch' = <<>> /\ result' = result
  BY DEF Drop, stream, program, history, streamVars
<1> QED
  BY <1>1, LobsStutter

\* The program takes values out of the response.
LEMMA GetValueLobs ==
  ASSUME StatementInv, LobsInv, NEW kind, GetValue(kind) \/ IntoValue(kind)
  PROVE  LobsInv'
<1>1. /\ UNCHANGED <<given, executed, st, chunk, batch>> /\ UNCHANGED streamVars
      /\ \/ \E w, v : w # "err" /\ result' = Result(w, v)
         \/ result' = Result("err", "evaluation")
  BY DEF GetValue, IntoValue, stream, server, history, streamVars
<1>2. result' # Result("err", "utf8")
  BY <1>1 DEF Result
<1> QED
  BY <1>1, <1>2, LobsStutter

\* An empty batch, a reader that fails, and the end of the call.
LEMMA ExecuteEmptyBatchLobs ==
  ASSUME StatementInv, LobsInv, ExecuteEmptyBatch
  PROVE  LobsInv'
<1>1. /\ UNCHANGED <<given, executed, st, chunk, batch>> /\ NotStreaming
      /\ result' = Result("err", "empty")
  BY FailIsOver DEF ExecuteEmptyBatch, server, history, Fail
<1>2. result' # Result("err", "utf8")
  BY <1>1 DEF Result
<1> QED
  BY <1>1, <1>2, LobsStutter

LEMMA ReaderFailsLobs ==
  ASSUME StatementInv, LobsInv, ReaderFails
  PROVE  LobsInv'
<1>1. /\ UNCHANGED <<given, executed, st, chunk, batch>> /\ NotStreaming
      /\ result' = Result("err", "reader")
  BY FailIsOver DEF ReaderFails, server, history, Fail
<1>2. result' # Result("err", "utf8")
  BY <1>1 DEF Result
<1> QED
  BY <1>1, <1>2, LobsStutter

LEMMA FinishLobs ==
  ASSUME StatementInv, LobsInv, Finish
  PROVE  LobsInv'
<1>1. UNCHANGED <<given, executed, st, chunk, batch>> /\ Respond(irvs, st.type)
  BY DEF Finish, server, history
<1>2. NotStreaming /\ \E kind : result' = Result(kind, "response")
  BY <1>1 DEF Respond
<1>3. result' # Result("err", "utf8")
  BY <1>2 DEF Result
<1> QED
  BY <1>1, <1>2, <1>3, LobsStutter

\* A row is given to the batch.
LEMMA AddRowLobs ==
  ASSUME StatementInv, LobsInv, NEW values \in GivenRows, AddRow(values)
  PROVE  LobsInv'
<1>1. /\ ~streaming /\ UNCHANGED <<streaming, todo, writer>> /\ UNCHANGED <<executed, st, chunk>>
      /\ \/ Accept(values) /\ HasIn /\ Accepts(values) /\ \E v : result' = Result("added", v)
         \/ given' = given /\ ~(HasIn /\ Accepts(values)) /\ result' = Result("err", "row")
      /\ batch' = IF HasIn THEN BatchAfter(Row(Len(given) + 1, values)) ELSE batch
  BY DEF AddRow, Ready, stream, history, server
<1>2. /\ GivenInv /\ LobsArrive /\ ChunksAreCut /\ TextIsAccepted
  BY LobsWere
<1>3. result' # Result("err", "utf8")
  BY <1>1 DEF Result
<1>4. Row(Len(given) + 1, values).values = values
  BY DEF Row
<1>5. /\ GivenStays /\ GivenInv'
  <2>1. CASE Accept(values) /\ HasIn /\ Accepts(values)
    <3>1. batch' = Append(batch, Row(Len(given) + 1, values))
      BY <1>1, <1>4, <2>1 DEF BatchAfter
    <3>2. GivenStays
      BY <2>1, GivenIsKept DEF Accept
    <3> QED BY <1>2, <2>1, <3>1, <3>2, GivenInvMore
  <2>2. CASE given' = given /\ ~(HasIn /\ Accepts(values))
    <3>1. batch' = batch
      BY <1>1, <1>4, <2>2 DEF BatchAfter
    <3> QED BY <1>2, <2>2, <3>1, GivenIsKept, GivenInvKept
  <2> QED BY <1>1, <2>1, <2>2
<1>6. WaitingInv' /\ TodoInv' /\ WriterInv'
  BY <1>1, StreamIsNot
<1>7. LobsArrive' /\ ChunksAreCut' /\ TextIsAccepted'
  BY <1>1, <1>2, <1>3, <1>5, ArriveKept, ChunksKept, AcceptedKept
<1> QED
  BY <1>5, <1>6, <1>7, LobsAfter

\* The rows of the batch are those that were given.
LEMMA ExecuteBatchLobs ==
  ASSUME StatementInv, LobsInv, ExecuteBatch
  PROVE  LobsInv'
<1>1. batch' = <<>> /\ given' = given
  BY DEF ExecuteBatch, BatchTaken
<1>2. CASE Fail("size") /\ UNCHANGED <<st, executed, chunk>>
  <2>1. NotStreaming /\ result' = Result("err", "size")
    BY <1>2, FailIsOver DEF Fail
  <2>2. result' # Result("err", "utf8")
    BY <2>1 DEF Result
  <2> QED BY <1>1, <1>2, <2>1, <2>2, LobsStutter
<1>3. CASE (\A i \in DOMAIN batch : ~HasReader(batch[i])) /\ ExecuteParameterRows(batch)
  <2>1. /\ IsSequence(batch) /\ st \in Statements /\ GivenInv
        /\ \A j \in DOMAIN batch : batch[j].id \in 1..Len(given)
    BY LobsWere DEF StatementInv, SequenceTypes, RowsInv, Numbered
  <2>2. DOMAIN given = 1..Len(given)
    BY SequenceDomain DEF StatementInv, SequenceTypes
  <2>3. GivenStays /\ GivenInv'
    BY <1>1, <2>1, GivenIsKept, GivenInvKept
  <2>4. ASSUME NEW j \in DOMAIN batch, Fits(batch[j])
        PROVE  RowIsGiven(batch[j], given'[batch[j].id])
    <3>1. batch[j].id \in DOMAIN given /\ batch[j].values = given[batch[j].id]
      BY <2>1, <2>2 DEF GivenInv
    <3>2. IsSequence(given[batch[j].id])
      BY <2>1, <3>1 DEF GivenInv
    <3>3. IsSequence(batch[j].values) /\ ~HasReader(batch[j])
      BY <1>3, <3>1, <3>2
    <3>4. RowIsGiven(batch[j], given[batch[j].id])
      BY <2>1, <2>4, <3>1, <3>3, RowAsGiven
    <3> QED BY <1>1, <3>4
  <2> QED BY <1>3, <2>1, <2>3, <2>4, LobsCalled
<1> QED
  BY <1>2, <1>3 DEF ExecuteBatch

\* A row that is executed alone.
LEMMA SingleLobs ==
  ASSUME StatementInv, LobsInv, NEW values \in GivenRows, Accept(values), batch' = batch,
         NEW row, row.id = Len(given) + 1,
         Fits(row) /\ LobPositions(row) = {} => RowIsGiven(row, values),
         ExecuteParameterRows(<<row>>)
  PROVE  LobsInv'
<1>1. GivenInv /\ IsSequence(given)
  BY LobsWere DEF StatementInv, SequenceTypes
<1>2. given' = Append(given, values)
  BY DEF Accept
<1>3. GivenStays /\ GivenInv'
  BY <1>1, <1>2, GivenIsKept, GivenInvMore
<1>4. given'[Len(given) + 1] = values
  BY <1>1, <1>2, SequenceAppended
<1>5. <<row>> \in Seq({row}) /\ DOMAIN <<row>> = {1} /\ <<row>>[1] = row
  OBVIOUS
<1>6. IsSequence(<<row>>)
  BY <1>5, IsSequenceOf
<1>7. \A j \in DOMAIN <<row>> : Fits(<<row>>[j]) /\ LobPositions(<<row>>[j]) = {} =>
                                  RowIsGiven(<<row>>[j], given'[<<row>>[j].id])
  BY <1>4, <1>5
<1> QED
  BY <1>3, <1>6, <1>7, LobsCalled

\* execute: values, without readers.
LEMMA ExecuteLobs ==
  ASSUME StatementInv, LobsInv, NEW values \in GivenRows, Execute(values)
  PROVE  LobsInv'
<1>1. batch' = batch /\ \A i \in DOMAIN values : values[i].kind = "value"
  BY DEF Execute
<1>2. st \in Statements
  BY DEF StatementInv, SequenceTypes
<1>3. CASE HasIn
  <2> DEFINE row == Row(Len(given) + 1, values)
  <2>1. Accept(values) /\ ExecuteParameterRows(<<row>>)
    BY <1>3 DEF Execute
  <2>2. row.id = Len(given) + 1 /\ row.values = values
    BY DEF Row
  <2> HIDE DEF row
  <2>3. IsSequence(row.values)
    BY <1>2, <2>2, GivenRowsAre
  <2>4. ~HasReader(row)
    BY <1>1, <2>2 DEF HasReader, IsReader
  <2>5. Fits(row) => RowIsGiven(row, values)
    BY <1>2, <2>2, <2>3, <2>4, RowAsGiven
  <2> QED BY <1>1, <2>1, <2>2, <2>5, SingleLobs
<1>4. CASE ~HasIn
  <2>1. ExecuteParameterRows(<<>>) /\ given' = given
    BY <1>4 DEF Execute
  <2>2. GivenInv
    BY LobsWere
  <2>3. GivenStays /\ GivenInv'
    BY <1>1, <2>1, <2>2, GivenIsKept, GivenInvKept
  <2> QED BY <2>1, <2>3, IsSequenceEmpty, LobsCalled
<1> QED
  BY <1>3, <1>4

\* The row that execute_row sends: LOBs are announced without their contents.
RowIsCut(row, cut, readers, values) ==
  /\ IsSequence(row.values) /\ DOMAIN row.values = DOMAIN cut /\ DOMAIN cut \subseteq DOMAIN st.params
  /\ \A i \in DOMAIN cut : i \in DOMAIN values /\ cut[i] = values[i]
  /\ readers = {i \in DOMAIN cut : IsReader(cut[i])}
  /\ \A i \in DOMAIN cut : row.values[i] = IF i \in readers THEN Param("lobnull", <<>>) ELSE cut[i]

LEMMA RowIsCutIs ==
  ASSUME st \in Statements, NEW values, IsSequence(values)
  PROVE  LET cut == [i \in {i \in DOMAIN st.params : i <= Len(values)} |-> values[i]]
             readers == {i \in DOMAIN cut : IsReader(cut[i])}
             row == Row(Len(given) + 1,
                        [i \in DOMAIN cut |-> IF i \in readers THEN Param("lobnull", <<>>) ELSE cut[i]])
         IN RowIsCut(row, cut, readers, values)
<1> DEFINE cut == [i \in {i \in DOMAIN st.params : i <= Len(values)} |-> values[i]]
           readers == {i \in DOMAIN cut : IsReader(cut[i])}
           sent == [i \in DOMAIN cut |-> IF i \in readers THEN Param("lobnull", <<>>) ELSE cut[i]]
<1>1. DOMAIN st.params = 1..Len(st.params) /\ Len(st.params) \in Nat
  BY ParamsAre
<1>2. DOMAIN values = 1..Len(values) /\ Len(values) \in Nat
  BY SequenceDomain
<1> DEFINE m == IF Len(values) < Len(st.params) THEN Len(values) ELSE Len(st.params)
<1>3. m \in Nat /\ {i \in DOMAIN st.params : i <= Len(values)} = 1..m
  BY <1>1, <1>2
<1>4. 1..m \subseteq DOMAIN values /\ 1..m \subseteq DOMAIN st.params
  BY <1>1, <1>2
<1>5. DOMAIN cut = 1..m /\ \A i \in 1..m : cut[i] = values[i]
  BY <1>3
<1> HIDE DEF m, readers, cut
<1>6. DOMAIN sent = 1..m /\ sent = [i \in 1..m |-> sent[i]]
  BY <1>5
<1>7. IsSequence(sent)
  BY <1>3, <1>6, SequenceOfFunction
<1>8. \A i \in DOMAIN cut : sent[i] = IF i \in readers THEN Param("lobnull", <<>>) ELSE cut[i]
  OBVIOUS
<1> HIDE DEF sent
<1>9. Row(Len(given) + 1, sent).values = sent
  BY DEF Row
<1>10. RowIsCut(Row(Len(given) + 1, sent), cut, readers, values)
  BY <1>4, <1>5, <1>6, <1>7, <1>8, <1>9 DEF RowIsCut, readers
<1> QED
  BY <1>10 DEF sent, readers, cut

\* Without LOBs it is the row that was given.
LEMMA CutIsGiven ==
  ASSUME st \in Statements, NEW row, NEW cut, NEW readers, NEW values,
         RowIsCut(row, cut, readers, values), Fits(row), LobPositions(row) = {}
  PROVE  RowIsGiven(row, values)
<1>1. DOMAIN row.values = 1..Len(row.values) /\ Len(row.values) = Len(st.params)
  BY SequenceDomain DEF Fits, RowIsCut
<1>2. DOMAIN st.params = DOMAIN cut /\ DOMAIN cut = DOMAIN row.values
  BY <1>1, ParamsAre DEF RowIsCut
<1>3. ASSUME NEW i \in DOMAIN cut PROVE i \notin readers
  <2>1. row.values[i].kind # "lobnull"
    BY <1>2 DEF LobPositions
  <2>2. Param("lobnull", <<>>).kind = "lobnull"
    BY DEF Param
  <2> QED BY <2>1, <2>2 DEF RowIsCut
<1>4. \A i \in DOMAIN cut : row.values[i] = values[i] /\ ~IsReader(values[i])
  BY <1>3 DEF RowIsCut
<1> QED
  BY <1>2, <1>4 DEF RowIsGiven

\* The main request: each reader gets the locator of its LOB, and nothing has
\* arrived of it.
LEMMA MainWaits ==
  ASSUME StatementInv, NEW values, IsSequence(values), Accept(values), st' = st,
         NEW row, NEW cut, NEW readers, RowIsCut(row, cut, readers, values), row.id = Len(given) + 1,
         ExecuteMain(row, cut, readers)
  PROVE  /\ executed' = executed /\ writer' = NoWriter /\ result' # Result("err", "utf8")
         /\ WaitingInv' /\ TodoInv' /\ WriterInv'
<1>1. PICK outcome \in (IF Fits(row) THEN Outcomes ELSE {"error"}) :
        LET parts == IF IsProcedure THEN <<Value("wlr", 0)>> ELSE <<Value("wlr", 0)>> \o st.parts
            main == IntoInternalReturnValues(RemoveFirstOfKind(parts, "wlr"))
        IN /\ IF Arrives(outcome)
              THEN /\ pending' = row
                   /\ lobs' = [k \in 1..Cardinality(LobPositions(row)) |-> [data |-> <<>>, done |-> FALSE]]
              ELSE UNCHANGED <<pending, lobs>>
           /\ IF outcome # "ok" \/ ~main.ok \/ readers # LobPositions(row)
              THEN Fail("main")
              ELSE /\ streaming' = TRUE
                   /\ \E order \in Orders(readers) : todo' = LobsToWrite(cut, order)
                   /\ irvs' = main.values /\ writer' = NoWriter
                   /\ result' = Result("none", 0) /\ response' = <<>>
           /\ UNCHANGED executed
  BY Zenon DEF ExecuteMain
<1>2. executed' = executed
  BY <1>1
<1>3. CASE Fail("main")
  <2>1. NotStreaming /\ result' = Result("err", "main") /\ writer' = NoWriter
    BY <1>3 DEF Fail, NotStreaming
  <2>2. result' # Result("err", "utf8")
    BY <2>1 DEF Result
  <2> QED BY <1>2, <2>1, <2>2, StreamIsOver
<1>4. CASE ~Fail("main")
  <2>1. /\ outcome = "ok" /\ readers = LobPositions(row) /\ writer' = NoWriter /\ streaming' = TRUE
        /\ result' = Result("none", 0)
        /\ \E order \in Orders(readers) : todo' = LobsToWrite(cut, order)
    BY <1>1, <1>4
  <2>2. Arrives(outcome) /\ Fits(row)
    BY <1>1, <2>1 DEF Arrives
  <2> DEFINE c == Cardinality(readers)
  <2>3. pending' = row /\ lobs' = [k \in 1..c |-> [data |-> <<>>, done |-> FALSE]]
    BY <1>1, <2>1, <2>2
  <2>4. PICK order \in Orders(readers) : todo' = LobsToWrite(cut, order)
    BY <2>1
  <2>5. DOMAIN st.params = 1..Len(st.params) /\ Len(st.params) \in Nat
    BY ParamsAre DEF StatementInv, SequenceTypes
  <2>6. DOMAIN row.values = 1..Len(row.values) /\ Len(row.values) = Len(st.params)
    BY <2>2, SequenceDomain DEF Fits, RowIsCut
  <2>7. DOMAIN row.values = DOMAIN st.params /\ DOMAIN cut = DOMAIN st.params
    BY <2>5, <2>6 DEF RowIsCut
  <2>8. readers \in SUBSET (1..Len(st.params)) /\ readers \subseteq DOMAIN cut
    BY <2>5, <2>7 DEF RowIsCut
  <2>9. c \in Nat /\ DOMAIN order = 1..c /\ \A k \in 1..c : order[k] \in readers
    BY <2>5, <2>8, OrdersAre
  <2>10. /\ DOMAIN todo' = 1..c
         /\ \A k \in 1..c : /\ todo'[k].locator = k /\ todo'[k].type = st.params[order[k]]
                            /\ todo'[k].content = cut[order[k]].content
    BY <2>4, <2>9 DEF LobsToWrite
  <2> HIDE DEF c
  <2>11. DOMAIN lobs' = 1..c /\ \A k \in 1..c : lobs'[k].data = <<>> /\ ~lobs'[k].done
    BY <2>3
  <2>12. /\ LastGiven' = values /\ Len(given') = row.id
    <3>1. /\ Len(given') = Len(given) + 1 /\ given'[Len(given) + 1] = values
      BY SequenceAppended DEF Accept, StatementInv, SequenceTypes
    <3> QED BY <3>1 DEF LastGiven
  <2>13. \A k \in 1..c : todo'[k].content = LastGiven'[order[k]].content
    BY <2>8, <2>9, <2>10, <2>12 DEF RowIsCut
  <2>14. WaitingInv'
    <3>1. ASSUME NEW i \in DOMAIN st.params
          PROVE  /\ i \in DOMAIN values
                 /\ i \in readers <=> IsReader(values[i])
                 /\ ~IsReader(values[i]) => row.values[i] = values[i]
      <4>1. i \in DOMAIN cut
        BY <2>7
      <4> QED BY <4>1 DEF RowIsCut
    <3>2. LobPositions(pending)' = readers
      BY <2>1, <2>3 DEF LobPositions
    <3>3. pending' = row /\ st' = st
      BY <2>3
    <3> HIDE DEF LobPositions
    <3> QED BY <2>7, <2>12, <3>1, <3>2, <3>3 DEF WaitingInv
  <2>15. TodoInv'
    <3>1. LobPositions(pending)' = readers
      BY <2>1, <2>3 DEF LobPositions
    <3>2. LobsInOrder(order)'
      BY <2>9, <2>10, <2>11, <2>13 DEF LobsInOrder
    <3>5. \A k \in DOMAIN todo' : lobs'[todo'[k].locator].data = <<>>
      BY <2>10, <2>11
    <3> QED BY <2>4, <3>1, <3>2, <3>5 DEF TodoInv
  <2>16. WriterInv'
    BY <2>1, NoWriterIs DEF WriterInv
  <2>17. result' # Result("err", "utf8")
    BY <2>1 DEF Result
  <2> QED BY <1>2, <2>1, <2>14, <2>15, <2>16, <2>17
<1> QED
  BY <1>3, <1>4

\* execute_row: the row is not accepted, or has no readers, or has some.
LEMMA ExecuteRowLobs ==
  ASSUME StatementInv, LobsInv, NEW values \in GivenRows, ExecuteRow(values)
  PROVE  LobsInv'
<1> DEFINE cut == [i \in {i \in DOMAIN st.params : i <= Len(values)} |-> values[i]]
           readers == {i \in DOMAIN cut : IsReader(cut[i])}
           row == Row(Len(given) + 1,
                      [i \in DOMAIN cut |-> IF i \in readers THEN Param("lobnull", <<>>) ELSE cut[i]])
<1>1. st \in Statements /\ IsSequence(values)
  BY GivenRowsAre DEF StatementInv, SequenceTypes
<1>2. RowIsCut(row, cut, readers, values)
  BY <1>1, RowIsCutIs
<1>3. row.id = Len(given) + 1
  BY DEF Row
<1>4. /\ \/ Fail("row") /\ UNCHANGED <<st, given, executed, chunk>>
         \/ Accept(values) /\ ExecuteParameterRows(<<row>>)
         \/ Accept(values) /\ ExecuteMain(row, cut, readers) /\ st' = st /\ chunk' = chunk
      /\ batch' = batch
  BY DEF ExecuteRow, server
<1> HIDE DEF cut, readers, row
<1>5. CASE Fail("row") /\ UNCHANGED <<st, given, executed, chunk>>
  <2>1. NotStreaming /\ result' = Result("err", "row")
    BY <1>5, FailIsOver DEF Fail
  <2>2. result' # Result("err", "utf8")
    BY <2>1 DEF Result
  <2> QED BY <1>4, <1>5, <2>1, <2>2, LobsStutter
<1>6. CASE Accept(values) /\ ExecuteParameterRows(<<row>>)
  <2>1. Fits(row) /\ LobPositions(row) = {} => RowIsGiven(row, values)
    BY <1>1, <1>2, CutIsGiven
  <2> QED BY <1>3, <1>4, <1>6, <2>1, SingleLobs
<1>7. CASE Accept(values) /\ ExecuteMain(row, cut, readers) /\ st' = st /\ chunk' = chunk
  <2>1. /\ executed' = executed /\ writer' = NoWriter /\ result' # Result("err", "utf8")
        /\ WaitingInv' /\ TodoInv' /\ WriterInv'
    BY <1>1, <1>2, <1>3, <1>7, MainWaits
  <2>2. GivenInv /\ LobsArrive /\ ChunksAreCut /\ TextIsAccepted
    BY LobsWere
  <2>3. GivenStays /\ GivenInv'
    BY <1>4, <1>7, <2>2, GivenIsKept, GivenInvMore DEF Accept
  <2>4. LobsArrive' /\ ChunksAreCut' /\ TextIsAccepted'
    BY <1>7, <2>1, <2>2, <2>3, NoWriterIs, ArriveKept, ChunksKept, AcceptedKept
  <2> QED BY <2>1, <2>3, <2>4, LobsAfter
<1> QED
  BY <1>4, <1>5, <1>6, <1>7

\* The LOB that is written next, and the reader that was given for it.
LEMMA FirstIsGiven ==
  ASSUME StatementInv, LobsInv, streaming, todo # <<>>
  PROVE  \E i \in DOMAIN st.params :
           /\ IsReader(LastGiven[i]) /\ LastGiven[i].content \in Bytes
           /\ todo[1].type = st.params[i] /\ todo[1].content = LastGiven[i].content
           /\ i \in DOMAIN LastGiven /\ Len(given) \in DOMAIN given
<1>1. GivenInv /\ WaitingInv /\ TodoInv
  BY LobsWere
<1>2. 1 \in DOMAIN todo
  BY SequenceTail DEF StatementInv, SequenceTypes
<1>3. st \in Statements /\ pending.id \in 1..Len(given) /\ todo[1].locator \in DOMAIN lobs
  BY <1>2 DEF StatementInv, SequenceTypes, StreamInv
<1>4. DOMAIN st.params = 1..Len(st.params) /\ Len(st.params) \in Nat
  BY <1>3, ParamsAre
<1>5. DOMAIN pending.values = DOMAIN st.params
  BY <1>1 DEF WaitingInv
<1>6. LobPositions(pending) \in SUBSET (1..Len(st.params))
  BY <1>4, <1>5 DEF LobPositions
<1>7. PICK order \in Orders(LobPositions(pending)) : LobsInOrder(order)
  BY <1>1 DEF TodoInv
<1>8. DOMAIN order = DOMAIN lobs /\ todo[1].type = st.params[order[todo[1].locator]]
      /\ todo[1].content = LastGiven[order[todo[1].locator]].content
  BY <1>2, <1>7 DEF LobsInOrder
<1> DEFINE i == order[todo[1].locator]
<1>9. i \in LobPositions(pending)
  BY <1>3, <1>4, <1>6, <1>7, <1>8, OrdersAre
<1> HIDE DEF i
<1>10. i \in DOMAIN st.params
  BY <1>4, <1>6, <1>9
<1>11. IsReader(LastGiven[i]) /\ i \in DOMAIN LastGiven
  BY <1>1, <1>9, <1>10 DEF WaitingInv
<1>12. Len(given) \in DOMAIN given
  <2>1. DOMAIN given = 1..Len(given) /\ Len(given) \in Nat
    BY SequenceDomain DEF StatementInv, SequenceTypes
  <2> QED BY <1>3, <2>1
<1>13. LastGiven[i].content \in Bytes
  BY <1>1, <1>11, <1>12 DEF GivenInv, LastGiven, Bytes
<1> QED
  BY <1>8, <1>10, <1>11, <1>12, <1>13 DEF i

\* The next LOB is begun: nothing of it was sent.
LEMMA NewWriterLobs ==
  ASSUME StatementInv, LobsInv, NewWriter
  PROVE  LobsInv'
<1>1. /\ streaming /\ todo # <<>> /\ ~writer.open
      /\ UNCHANGED <<given, executed, st, chunk, batch, pending, lobs>>
  BY DEF NewWriter, server, history
<1>2. CASE Fail("type")
  <2>1. NotStreaming /\ result' = Result("err", "type")
    BY <1>2, FailIsOver DEF Fail
  <2>2. result' # Result("err", "utf8")
    BY <2>1 DEF Result
  <2> QED BY <1>1, <2>1, <2>2, LobsStutter
<1>3. CASE ~Fail("type")
  <2>1. /\ todo[1].type \in LobTypes /\ UNCHANGED <<streaming, todo, result>>
        /\ \E length \in WriteLengths :
             writer' = OpenWriter(todo[1].content, <<>>, length)
    BY <1>3 DEF NewWriter
  <2>2. PICK length \in WriteLengths :
             writer' = OpenWriter(todo[1].content, <<>>, length)
    BY <2>1
  <2>3. /\ writer'.buffer = <<>> /\ writer'.rest = todo[1].content /\ writer'.length = length
        /\ length \in Nat
    BY <2>2, ConstantsAssumption DEF OpenWriter
  <2>4. /\ GivenInv /\ WaitingInv /\ TodoInv /\ LobsArrive /\ ChunksAreCut /\ TextIsAccepted
    BY LobsWere
  <2>5. GivenStays /\ GivenInv'
    BY <1>1, <2>4, GivenIsKept, GivenInvKept
  <2>6. LobsArrive' /\ ChunksAreCut' /\ TextIsAccepted'
    BY <1>1, <2>1, <2>3, <2>4, <2>5, ArriveKept, ChunksKept, AcceptedKept
  <2>7. WaitingInv'
    BY <1>1, <2>1, <2>4 DEF WaitingInv, LastGiven, LobPositions
  <2>8. 1 \in DOMAIN todo /\ DOMAIN todo = 1..Len(todo)
    BY <1>1, SequenceTail, SequenceDomain DEF StatementInv, SequenceTypes
  <2>9. lobs[todo[1].locator].data = <<>>
    BY <1>1, <2>4, <2>8 DEF TodoInv
  <2>10. TodoInv'
    <3>1. \A k \in DOMAIN todo : lobs[todo[k].locator].data = <<>>
      BY <1>1, <2>4 DEF TodoInv
    <3>2. PICK order \in Orders(LobPositions(pending)) : LobsInOrder(order)
      BY <1>1, <2>4 DEF TodoInv
    <3>3. LobsInOrder(order)'
      BY <1>1, <2>1, <3>2 DEF LobsInOrder, LastGiven, Stored
    <3>4. LobPositions(pending)' = LobPositions(pending)
      BY <1>1 DEF LobPositions
    <3> QED BY <1>1, <2>1, <3>1, <3>2, <3>3, <3>4 DEF TodoInv
  <2>11. todo[1].content \in Bytes
    BY <1>1, FirstIsGiven
  <2>12. WriterInv'
    <3>1. SubSeq(todo[1].content, 1, 0) = <<>> /\ 0 \in 0..Len(todo[1].content)
      <4>1. SubSeq(todo[1].content, 1, 0) = <<>>
        BY SubSeqEmpty
      <4>2. Len(todo[1].content) \in Nat
        BY <2>11, LenProperties DEF Bytes
      <4> QED BY <4>1, <4>2
    <3>2. todo[1].content = <<>> \o (<<>> \o todo[1].content)
      BY <2>11, ConcatEmptySeq DEF Bytes
    <3>3. Stored(todo[1].type, <<>>) = <<>> /\ IsUtf8(<<>>) /\ <<>> \in Bytes
      BY CesuEmpty, EmptySeq, IsSequenceEmpty DEF Stored, IsUtf8, Bytes
    <3>4. /\ todo'[1] = todo[1] /\ lobs' = lobs
      BY <1>1, <2>1
    <3>5. Divided(todo[1].content, <<>>)'
      BY <2>1, <2>3, <3>2 DEF Divided
    <3>6. /\ writer'.length \in WriteLengths /\ writer'.buffer \in Bytes /\ writer'.rest \in Bytes
      BY <2>3, <2>11, <3>3
    <3> QED BY <2>1, <2>9, <3>1, <3>3, <3>4, <3>5, <3>6 DEF WriterInv, Stored, Bytes
  <2> QED BY <2>5, <2>6, <2>7, <2>10, <2>12, LobsAfter
<1> QED
  BY <1>2, <1>3

-----------------------------------------------------------------------------
(* A chunk.                                                                *)

\* How Cut divides what was joined, for a LOB of some type.
CutOf(type, b) ==
  IF type = "CLOB" THEN CutOff(b) ELSE [ok |-> TRUE, cesu8 |-> b, tail |-> <<>>]

LEMMA CutIs == \A b : Cut(b) = CutOf(todo[1].type, b)
BY DEF Cut, CutOf

\* What is cut off was joined: a part that is sent, complete characters if it
\* is a text, and a tail.
LEMMA CutDivides ==
  ASSUME NEW type \in LobTypes, NEW b \in Bytes, CutOf(type, b).ok
  PROVE  \E text \in Bytes :
           /\ CutOf(type, b).tail \in Bytes /\ b = text \o CutOf(type, b).tail
           /\ CutOf(type, b).cesu8 = Stored(type, text)
           /\ Len(CutOf(type, b).cesu8) >= Len(text) /\ Len(CutOf(type, b).cesu8) \in Nat
           /\ type = "CLOB" => Text(text) /\ CESU!IsText(CutOf(type, b).cesu8)
<1>1. CASE type = "CLOB"
  <2>1. CutOf(type, b) = CutOff(b)
    BY <1>1 DEF CutOf
  <2>2. PICK text : /\ Text(text) /\ CutOff(b).tail \in Bytes
                    /\ b = text \o CutOff(b).tail /\ CutOff(b).cesu8 = ToCesu8(text)
    BY <2>1, CutOffIs
  <2>3. text \in Bytes
    BY <2>2 DEF Text
  <2>4. /\ CESU!IsText(ToCesu8(text)) /\ Len(ToCesu8(text)) >= Len(text)
        /\ Len(ToCesu8(text)) \in Nat
    BY <2>2, <2>3, CesuIsText, CesuType, LenProperties DEF CesuText
  <2>5. Stored(type, text) = ToCesu8(text)
    BY <1>1 DEF Stored
  <2> QED BY <2>1, <2>2, <2>3, <2>4, <2>5
<1>2. CASE type # "CLOB"
  <2>1. CutOf(type, b).tail = <<>> /\ CutOf(type, b).cesu8 = b /\ Stored(type, b) = b
    BY <1>2 DEF CutOf, Stored
  <2>2. <<>> \in Bytes /\ b = b \o <<>> /\ Len(b) \in Nat
    BY EmptySeq, ConcatEmptySeq, LenProperties DEF Bytes
  <2>3. Len(b) >= Len(b)
    BY <2>2
  <2> QED BY <1>2, <2>1, <2>2, <2>3
<1> QED
  BY <1>1, <1>2

LEMMA BytesJoin ==
  ASSUME NEW a \in Bytes, NEW b \in Bytes, NEW c \in Bytes
  PROVE  (a \o b) \o c = a \o (b \o c)
<1>1. a \in Seq(Utf8Byte) /\ b \in Seq(Utf8Byte) /\ c \in Seq(Utf8Byte)
  BY DEF Bytes
<1> QED BY <1>1, ConcatAssociative, SMTT(60)

\* The same of four parts.
Joined(a, b) == a \o b

LEMMA BytesMoved ==
  ASSUME NEW a \in Bytes, NEW b \in Bytes, NEW c \in Bytes, NEW d \in Bytes
  PROVE  Joined(a, Joined(Joined(b, c), d)) = Joined(Joined(a, b), Joined(c, d))
<1>1. c \o d \in Bytes
  BY ConcatProperties DEF Bytes
<1>2. (b \o c) \o d = b \o (c \o d)
  BY BytesJoin, SMTT(60)
<1>3. ASSUME NEW e \in Bytes
      PROVE  (a \o b) \o e = a \o (b \o e)
  BY BytesJoin, SMTT(60)
<1>4. (a \o b) \o (c \o d) = a \o (b \o (c \o d))
  BY <1>1, <1>3
<1> QED BY <1>2, <1>4 DEF Joined

\* After a chunk more of the content was sent.
IsAdvanced(type, content, sent, cut, rest) ==
  \E n \in 0..Len(content) :
    LET more == SubSeq(content, 1, n)
    IN /\ content = more \o (cut.tail \o rest)
       /\ Stored(type, more) = Stored(type, sent) \o cut.cesu8
       /\ type = "CLOB" => IsUtf8(more)

\* So a chunk brings the content forward.
LEMMA ChunkAdvances ==
  ASSUME NEW type \in LobTypes, NEW content \in Bytes, NEW sent \in Bytes,
         type = "CLOB" => IsUtf8(sent),
         NEW joined \in Bytes, NEW rest \in Bytes, content = sent \o (joined \o rest),
         CutOf(type, joined).ok
  PROVE  /\ CutOf(type, joined).tail \in Bytes
         /\ Len(CutOf(type, joined).tail) <= Len(joined)
         /\ Len(CutOf(type, joined).cesu8) >= Len(joined) - Len(CutOf(type, joined).tail)
         /\ Len(CutOf(type, joined).cesu8) \in Nat
         /\ type = "CLOB" => CESU!IsText(CutOf(type, joined).cesu8)
         /\ IsAdvanced(type, content, sent, CutOf(type, joined), rest)
<1> DEFINE tail == CutOf(type, joined).tail
           data == CutOf(type, joined).cesu8
<1>1. PICK text \in Bytes :
        /\ tail \in Bytes /\ joined = text \o tail
        /\ data = Stored(type, text)
        /\ Len(data) >= Len(text) /\ Len(data) \in Nat
        /\ type = "CLOB" => Text(text) /\ CESU!IsText(data)
  BY CutDivides
<1> HIDE DEF tail, data
<1>2. Len(joined) = Len(text) + Len(tail) /\ Len(text) \in Nat /\ Len(tail) \in Nat
  BY <1>1, ConcatProperties, LenProperties DEF Bytes
<1>3. Len(tail) <= Len(joined) /\ Len(joined) - Len(tail) = Len(text)
  BY <1>2
<1> DEFINE more == sent \o text
<1>4. more \in Bytes /\ Len(more) \in Nat
  BY <1>1, ConcatProperties, LenProperties DEF Bytes
<1>5. tail \o rest \in Bytes
  BY <1>1, ConcatProperties DEF Bytes
<1>6. content = more \o (tail \o rest)
  <2>1. Joined(sent, Joined(Joined(text, tail), rest)) = Joined(Joined(sent, text), Joined(tail, rest))
    BY <1>1, BytesMoved
  <2> QED BY <1>1, <2>1 DEF Joined
<1>7. /\ Stored(type, more) = Stored(type, sent) \o data
      /\ type = "CLOB" => IsUtf8(more)
  <2>1. CASE type = "CLOB"
    <3>1. Text(sent) /\ Text(text)
      BY <1>1, <2>1 DEF Text
    <3>2. ToCesu8(sent \o text) = ToCesu8(sent) \o ToCesu8(text) /\ Text(sent \o text)
      BY <3>1, CesuJoined, TextJoined DEF Text
    <3> QED BY <1>1, <2>1, <3>2 DEF Stored, Text
  <2>2. CASE type # "CLOB"
    BY <1>1, <2>2 DEF Stored
  <2> QED BY <2>1, <2>2
<1> HIDE DEF more
<1>8. SubSeq(content, 1, Len(more)) = more
  BY <1>4, <1>5, <1>6, ConcatSplit DEF Bytes
<1>9. Len(more) \in 0..Len(content)
  <2>1. Len(content) = Len(more) + Len(tail \o rest) /\ Len(tail \o rest) \in Nat
    BY <1>4, <1>5, <1>6, ConcatProperties, LenProperties DEF Bytes
  <2> QED BY <1>4, <2>1
<1>10. IsAdvanced(type, content, sent, CutOf(type, joined), rest)
  BY <1>6, <1>7, <1>8, <1>9 DEF tail, data, IsAdvanced
<1> QED
  BY <1>1, <1>3, <1>10 DEF tail, data

\* Of a text that is UTF-8 at most three bytes are kept back, and none at the end.
LEMMA TailIsShort ==
  ASSUME NEW type \in LobTypes, NEW content \in Bytes, NEW sent \in Bytes,
         type = "CLOB" => IsUtf8(sent) /\ IsUtf8(content),
         NEW joined \in Bytes, NEW rest \in Bytes, content = sent \o (joined \o rest),
         Len(joined) # 1 \/ rest = <<>>
  PROVE  /\ CutOf(type, joined).ok /\ Len(CutOf(type, joined).tail) <= 3
         /\ rest = <<>> => CutOf(type, joined).tail = <<>>
<1>1. CASE type = "CLOB"
  <2>1. joined \o rest \in Bytes
    BY ConcatProperties DEF Bytes
  <2>2. Text(sent) /\ Text(sent \o (joined \o rest))
    BY <1>1 DEF Text
  <2>3. Text(joined \o rest)
    BY <2>1, <2>2, TextFollows
  <2>4. /\ CutOff(joined).ok /\ Len(CutOff(joined).tail) <= 3
        /\ rest = <<>> => CutOff(joined).tail = <<>>
    BY <2>3, CutOffOfText
  <2> QED BY <1>1, <2>4 DEF CutOf
<1>2. CASE type # "CLOB"
  BY <1>2, IsSequenceEmpty DEF CutOf
<1> QED
  BY <1>1, <1>2

\* The LOB that is written now.
Lob == todo[1].locator
Content == todo[1].content

\* What is to be shown of a chunk: more of the content was sent, to the end of
\* it with the last chunk, and the writer has what is left.
Sent(data, last, after, more) ==
  /\ Stored(todo[1].type, more) = lobs[Lob].data \o data
  /\ last => more = Content /\ ~after.open
  /\ ~last => after.open
  /\ after.open =>
       /\ after.length \in WriteLengths /\ after.buffer \in Bytes /\ after.rest \in Bytes
       /\ \E n \in 0..Len(Content) : more = SubSeq(Content, 1, n)
       /\ Content = more \o (after.buffer \o after.rest)
       /\ todo[1].type = "CLOB" => IsUtf8(more)

\* The LOBs after a chunk has arrived.
WithChunk(data, last) == [lobs EXCEPT ![Lob] = [data |-> @.data \o data, done |-> last]]

LEMMA WithChunkIs ==
  ASSUME Lob \in DOMAIN lobs, NEW data, NEW last
  PROVE  /\ DOMAIN WithChunk(data, last) = DOMAIN lobs
         /\ \A k \in DOMAIN lobs : k # Lob => WithChunk(data, last)[k] = lobs[k]
         /\ WithChunk(data, last)[Lob].done = last
         /\ WithChunk(data, last)[Lob].data = lobs[Lob].data \o data
BY DEF WithChunk

\* Where the LOBs are in the row.
LEMMA OrderIs ==
  ASSUME StatementInv, LobsInv, streaming
  PROVE  \E order \in Orders(LobPositions(pending)) :
           /\ LobsInOrder(order) /\ DOMAIN order = DOMAIN lobs
           /\ \A other \in Orders(LobPositions(pending)) : other = order
           /\ \A i \in LobPositions(pending) : \E k \in DOMAIN order : order[k] = i
<1>1. WaitingInv /\ TodoInv
  BY LobsWere
<1>2. DOMAIN st.params = 1..Len(st.params) /\ Len(st.params) \in Nat
  BY ParamsAre DEF StatementInv, SequenceTypes
<1>3. DOMAIN pending.values = DOMAIN st.params
  BY <1>1 DEF WaitingInv
<1>4. LobPositions(pending) \in SUBSET (1..Len(st.params))
  BY <1>2, <1>3 DEF LobPositions
<1>5. PICK order \in Orders(LobPositions(pending)) : LobsInOrder(order)
  BY <1>1 DEF TodoInv
<1>6. DOMAIN order = DOMAIN lobs
  BY <1>5 DEF LobsInOrder
<1>7. \A other \in Orders(LobPositions(pending)) : other = order
  BY <1>2, <1>4, <1>5, OrdersSame
<1>8. \A i \in LobPositions(pending) : \E k \in DOMAIN order : order[k] = i
  BY <1>2, <1>4, <1>5, OrdersOnto
<1> QED
  BY <1>5, <1>6, <1>7, <1>8

\* LOBs that are complete are what the reader had, also after a chunk.
LEMMA ChunkCompletes ==
  ASSUME StatementInv, LobsInv, streaming, todo # <<>>,
         NEW order, LobsInOrder(order), NEW data, NEW last, NEW after, NEW more,
         Sent(data, last, after, more)
  PROVE  \A k \in DOMAIN order : WithChunk(data, last)[k].done =>
           WithChunk(data, last)[k].data = Stored(st.params[order[k]], LastGiven[order[k]].content)
<1>1. 1 \in DOMAIN todo
  BY SequenceTail DEF StatementInv, SequenceTypes
<1>2. Lob \in DOMAIN lobs
  BY <1>1 DEF StatementInv, StreamInv, Lob
<1>3. /\ DOMAIN lobs = DOMAIN order
      /\ todo[1].type = st.params[order[Lob]] /\ Content = LastGiven[order[Lob]].content
      /\ \A k \in DOMAIN order :
           lobs[k].done => lobs[k].data = Stored(st.params[order[k]], LastGiven[order[k]].content)
  BY <1>1 DEF LobsInOrder, Lob, Content
<1>4. ASSUME NEW k \in DOMAIN order, WithChunk(data, last)[k].done
      PROVE  WithChunk(data, last)[k].data = Stored(st.params[order[k]], LastGiven[order[k]].content)
  <2>1. CASE k = Lob
    <3>1. last /\ WithChunk(data, last)[k].data = lobs[Lob].data \o data
      BY <1>2, <1>4, <2>1, WithChunkIs
    <3>2. Stored(todo[1].type, Content) = lobs[Lob].data \o data
      BY <3>1 DEF Sent
    <3> QED BY <1>3, <2>1, <3>1, <3>2
  <2>2. CASE k # Lob
    <3>1. WithChunk(data, last)[k] = lobs[k]
      BY <1>2, <1>3, <2>2, WithChunkIs
    <3> QED BY <1>3, <1>4, <3>1
  <2> QED BY <2>1, <2>2
<1> QED
  BY <1>4

\* The row that is executed with the last chunk.
LEMMA RowWithLobs ==
  ASSUME StatementInv, LobsInv, streaming, todo # <<>>,
         NEW order \in Orders(LobPositions(pending)), LobsInOrder(order),
         \A i \in LobPositions(pending) : \E k \in DOMAIN order : order[k] = i,
         NEW data, NEW last, NEW after, NEW more, Sent(data, last, after, more),
         \A k \in DOMAIN WithChunk(data, last) : WithChunk(data, last)[k].done,
         NEW row,
         row.values = [i \in DOMAIN pending.values |->
                         IF i \in LobPositions(pending)
                         THEN Param("lob", WithChunk(data, last)[CHOOSE k \in DOMAIN order : order[k] = i].data)
                         ELSE pending.values[i]]
  PROVE  RowIsGiven(row, LastGiven)
<1> DEFINE new == WithChunk(data, last)
<1>1. \A k \in DOMAIN order : new[k].done =>
        new[k].data = Stored(st.params[order[k]], LastGiven[order[k]].content)
  BY ChunkCompletes
<1>2. Lob \in DOMAIN lobs
  <2>1. 1 \in DOMAIN todo
    BY SequenceTail DEF StatementInv, SequenceTypes
  <2> QED BY <2>1 DEF StatementInv, StreamInv, Lob
<1>3. DOMAIN new = DOMAIN order
  BY <1>2, WithChunkIs DEF LobsInOrder
<1>4. WaitingInv
  BY LobsWere
<1> HIDE DEF new
<1>5. ASSUME NEW i \in DOMAIN st.params
      PROVE  row.values[i] = IF IsReader(LastGiven[i])
                             THEN Param("lob", Stored(st.params[i], LastGiven[i].content))
                             ELSE LastGiven[i]
  <2>1. /\ i \in DOMAIN pending.values
        /\ i \in LobPositions(pending) <=> IsReader(LastGiven[i])
        /\ ~IsReader(LastGiven[i]) => pending.values[i] = LastGiven[i]
    BY <1>4 DEF WaitingInv
  <2>2. CASE i \in LobPositions(pending)
    <3> DEFINE k == CHOOSE k \in DOMAIN order : order[k] = i
    <3>1. \E j \in DOMAIN order : order[j] = i
      BY <2>2
    <3>2. k \in DOMAIN order /\ order[k] = i
      BY <3>1
    <3>3. row.values[i] = Param("lob", new[k].data)
      BY <2>1, <2>2 DEF new
    <3> HIDE DEF k
    <3>4. new[k].data = Stored(st.params[i], LastGiven[i].content)
      BY <1>1, <1>3, <3>2 DEF new
    <3> QED BY <2>1, <2>2, <3>3, <3>4
  <2>3. CASE i \notin LobPositions(pending)
    BY <2>1, <2>3
  <2> QED BY <2>2, <2>3
<1> QED
  BY <1>5 DEF RowIsGiven

\* What SendChunk does to the server and to the call.
LEMMA ChunkDoes ==
  ASSUME NEW data, NEW last, NEW outcome, NEW after, SendChunk(data, last, outcome, after)
  PROVE  /\ chunk' = [type |-> todo[1].type, data |-> data, last |-> last, length |-> writer.length]
         /\ \/ lobs' = lobs /\ executed' = executed
            \/ SrvWriteLob(Lob, data, last)
         /\ \/ NotStreaming /\ result' = Result("err", "chunk")
            \/ /\ outcome \in {"ok", "closing"} /\ SrvWriteLob(Lob, data, last)
               /\ writer' = after /\ todo' = (IF last THEN Tail(todo) ELSE todo)
               /\ UNCHANGED <<streaming, result>>
BY FailIsOver DEF SendChunk, Fail, Arrives, Lob

\* The row is executed if the chunk was the last one of its LOBs.
LEMMA ChunkArrives ==
  ASSUME StatementInv, LobsInv, streaming, todo # <<>>, given' = given, st' = st,
         NEW data, NEW last, NEW after, NEW more, Sent(data, last, after, more),
         SrvWriteLob(Lob, data, last)
  PROVE  LobsArrive' /\ lobs' = WithChunk(data, last)
<1>1. PICK order \in Orders(LobPositions(pending)) :
        /\ lobs' = WithChunk(data, last)
        /\ executed' =
             IF \A k \in DOMAIN WithChunk(data, last) : WithChunk(data, last)[k].done
             THEN Append(executed, Row(pending.id,
                    [i \in DOMAIN pending.values |->
                       IF i \in LobPositions(pending)
                       THEN Param("lob", WithChunk(data, last)[CHOOSE k \in DOMAIN order : order[k] = i].data)
                       ELSE pending.values[i]]))
             ELSE executed
  BY Zenon DEF SrvWriteLob, WithChunk
<1>2. LobsArrive /\ WaitingInv /\ GivenStays
  BY LobsWere, GivenIsKept
<1>3. CASE executed' = executed
  BY <1>1, <1>2, <1>3, ArriveKept
<1>4. CASE executed' # executed
  <2> DEFINE row == Row(pending.id,
                    [i \in DOMAIN pending.values |->
                       IF i \in LobPositions(pending)
                       THEN Param("lob", WithChunk(data, last)[CHOOSE k \in DOMAIN order : order[k] = i].data)
                       ELSE pending.values[i]])
  <2>1. /\ \A k \in DOMAIN WithChunk(data, last) : WithChunk(data, last)[k].done
        /\ executed' = Append(executed, row)
    BY <1>1, <1>4
  <2>2. row.values = [i \in DOMAIN pending.values |->
                       IF i \in LobPositions(pending)
                       THEN Param("lob", WithChunk(data, last)[CHOOSE k \in DOMAIN order : order[k] = i].data)
                       ELSE pending.values[i]]
    BY DEF Row
  <2>3. row.id = Len(given)
    BY <1>2 DEF Row, WaitingInv
  <2> HIDE DEF row
  <2>4. /\ LobsInOrder(order)
        /\ \A i \in LobPositions(pending) : \E k \in DOMAIN order : order[k] = i
    BY OrderIs
  <2>5. RowIsGiven(row, LastGiven)
    BY <2>1, <2>2, <2>4, RowWithLobs
  <2>6. /\ DOMAIN executed = 1..Len(executed) /\ Len(executed) \in Nat
        /\ DOMAIN executed' = 1..(Len(executed) + 1)
        /\ \A k \in DOMAIN executed : executed'[k] = executed[k]
        /\ executed'[Len(executed) + 1] = row
    BY <2>1, SequenceAppended DEF StatementInv, SequenceTypes
  <2>7. ASSUME NEW k \in DOMAIN executed' PROVE RowIsGiven(executed'[k], given'[executed'[k].id])
    <3>1. CASE k \in DOMAIN executed
      BY <1>2, <2>6, <3>1, ArrivedBefore
    <3>2. CASE k \notin DOMAIN executed
      <4>1. k = Len(executed) + 1
        BY <2>6, <3>2
      <4> QED BY <2>3, <2>5, <2>6, <4>1 DEF LastGiven
    <3> QED BY <3>1, <3>2
  <2> QED BY <1>1, <2>7, RowsHaveArrived
<1> QED
  BY <1>3, <1>4

\* A chunk that was sent leaves the invariant intact.
LEMMA ChunkLobs ==
  ASSUME StatementInv, LobsInv, writer.open, UNCHANGED <<given, batch, st, pending>>,
         NEW data, NEW last \in BOOLEAN, NEW outcome, NEW after, NEW more,
         SendChunk(data, last, outcome, after), Sent(data, last, after, more),
         ChunksAreCut'
  PROVE  LobsInv'
<1>1. streaming /\ todo # <<>> /\ st \in Statements /\ IsSequence(todo)
  BY DEF StatementInv, StreamInv, SequenceTypes
<1>2. /\ GivenInv /\ WaitingInv /\ TodoInv /\ WriterInv /\ LobsArrive /\ TextIsAccepted
  BY LobsWere
<1>3. GivenStays /\ GivenInv'
  BY <1>2, GivenIsKept, GivenInvKept
<1>4. LobsArrive'
  <2>1. CASE lobs' = lobs /\ executed' = executed
    BY <1>2, <1>3, <2>1, ArriveKept
  <2>2. CASE SrvWriteLob(Lob, data, last)
    BY <1>1, <2>2, ChunkArrives
  <2> QED BY <2>1, <2>2, ChunkDoes
<1>5. CASE NotStreaming /\ result' = Result("err", "chunk")
  <2>1. WaitingInv' /\ TodoInv' /\ WriterInv'
    BY <1>5, StreamIsOver
  <2>2. result' # Result("err", "utf8")
    BY <1>5 DEF Result
  <2>3. TextIsAccepted'
    BY <1>2, <2>2, AcceptedKept
  <2> QED BY <1>3, <1>4, <2>1, <2>3, LobsAfter
<1>6. CASE ~(NotStreaming /\ result' = Result("err", "chunk"))
  <2>1. /\ SrvWriteLob(Lob, data, last) /\ writer' = after
        /\ todo' = (IF last THEN Tail(todo) ELSE todo) /\ streaming' = streaming /\ result' = result
    BY <1>6, ChunkDoes
  <2> DEFINE new == WithChunk(data, last)
  <2>2. lobs' = new
    BY <1>1, <2>1, ChunkArrives
  <2>3. TextIsAccepted'
    BY <1>2, <2>1, AcceptedKept
  <2>4. WaitingInv'
    BY <1>2, <2>1 DEF WaitingInv, LastGiven, LobPositions
  <2>5. PICK order \in Orders(LobPositions(pending)) : LobsInOrder(order)
    BY <1>2, <1>1 DEF TodoInv
  <2>6. /\ 1 \in DOMAIN todo /\ IsSequence(Tail(todo))
        /\ \A k \in DOMAIN Tail(todo) : k \in Nat \ {0} /\ k + 1 \in DOMAIN todo /\ Tail(todo)[k] = todo[k + 1]
    BY <1>1, SequenceTail
  <2>7. /\ \A k \in DOMAIN todo : todo[k].locator \in DOMAIN lobs
        /\ \A j, k \in DOMAIN todo : j # k => todo[j].locator # todo[k].locator
    BY <1>1 DEF StatementInv, StreamInv
  <2>8. Lob \in DOMAIN lobs
    BY <2>6, <2>7 DEF Lob
  <2>9. /\ DOMAIN new = DOMAIN lobs
        /\ \A k \in DOMAIN lobs : k # Lob => new[k] = lobs[k]
        /\ new[Lob].data = lobs[Lob].data \o data
    BY <2>8, WithChunkIs
  <2>10. \A k \in DOMAIN order : new[k].done =>
           new[k].data = Stored(st.params[order[k]], LastGiven[order[k]].content)
    BY <1>1, <2>5, ChunkCompletes
  <2> HIDE DEF new
  <2>11. ASSUME NEW k \in DOMAIN todo'
         PROVE  \E j \in DOMAIN todo : /\ todo'[k] = todo[j] /\ (last => j # 1)
                                       /\ (~last => j = k)
    <3>1. CASE last
      <4>1. k \in DOMAIN Tail(todo) /\ todo'[k] = Tail(todo)[k]
        BY <2>1, <3>1
      <4>2. k + 1 \in DOMAIN todo /\ todo'[k] = todo[k + 1] /\ k + 1 # 1
        BY <2>6, <4>1
      <4> QED BY <3>1, <4>2
    <3>2. CASE ~last
      BY <2>1, <3>2
    <3> QED BY <3>1, <3>2
  <2>12. LobsInOrder(order)'
    <3>1. LastGiven' = LastGiven /\ st' = st
      BY DEF LastGiven
    <3>2. DOMAIN lobs' = DOMAIN order
      BY <2>2, <2>5, <2>9 DEF LobsInOrder
    <3>3. ASSUME NEW k \in DOMAIN todo'
          PROVE  /\ todo'[k].type = st.params[order[todo'[k].locator]]
                 /\ todo'[k].content = LastGiven[order[todo'[k].locator]].content
      <4>1. PICK j \in DOMAIN todo : todo'[k] = todo[j]
        BY <2>11
      <4> QED BY <2>5, <4>1 DEF LobsInOrder
    <3>4. \A k \in DOMAIN order : lobs'[k].done =>
           lobs'[k].data = Stored(st.params[order[k]], LastGiven[order[k]].content)
      BY <2>2, <2>10
    <3> QED BY <3>1, <3>2, <3>3, <3>4 DEF LobsInOrder, Stored
  <2>13. ASSUME NEW k \in DOMAIN todo', k # 1 \/ ~writer'.open
         PROVE  lobs'[todo'[k].locator].data = <<>>
    <3>1. PICK j \in DOMAIN todo : todo'[k] = todo[j] /\ (last => j # 1) /\ (~last => j = k)
      BY <2>11
    <3>2. j # 1
      <4>1. CASE last
        BY <3>1, <4>1
      <4>2. CASE ~last
        <5>1. after.open
          BY <4>2 DEF Sent
        <5> QED BY <2>1, <2>13, <3>1, <4>2, <5>1
      <4> QED BY <4>1, <4>2
    <3>3. todo[j].locator # Lob /\ todo[j].locator \in DOMAIN lobs
      BY <2>6, <2>7, <3>2 DEF Lob
    <3>4. lobs[todo[j].locator].data = <<>>
      BY <1>1, <1>2, <3>2 DEF TodoInv
    <3> QED BY <2>2, <2>9, <3>1, <3>3, <3>4
  <2>14. TodoInv'
    <3>1. LobPositions(pending)' = LobPositions(pending)
      BY SMTT(60) DEF LobPositions
    <3> QED BY <2>5, <2>12, <2>13, <3>1 DEF TodoInv
  <2>15. WriterInv'
    <3>1. SUFFICES ASSUME after.open PROVE WriterInv'
      BY <2>1 DEF WriterInv
    <3>2. /\ ~last /\ Stored(todo[1].type, more) = lobs[Lob].data \o data
          /\ after.length \in WriteLengths /\ after.buffer \in Bytes /\ after.rest \in Bytes
          /\ \E n \in 0..Len(Content) : more = SubSeq(Content, 1, n)
          /\ Content = more \o (after.buffer \o after.rest)
          /\ todo[1].type = "CLOB" => IsUtf8(more)
      BY <3>1 DEF Sent
    <3>3. todo' = todo /\ writer' = after
      BY <2>1, <3>2
    <3>4. todo[1].type \in LobTypes
      BY <1>2 DEF WriterInv
    <3>5. lobs'[Lob].data = Stored(todo[1].type, more)
      BY <2>2, <2>9, <3>2
    <3>6. PICK n \in 0..Len(Content) : more = SubSeq(Content, 1, n)
      BY <3>2
    <3> HIDE DEF Content
    <3>7. /\ todo'[1] = todo[1] /\ Content = todo[1].content /\ Lob = todo[1].locator
      BY <3>3 DEF Content, Lob
    <3>8. Divided(Content, more)'
      <4>1. Content' = Content
        BY <3>3 DEF Content
      <4>2. Content = more \o (writer'.buffer \o writer'.rest)
        BY <3>2, <3>3
      <4>3. Content' = more \o (writer'.buffer \o writer'.rest)
        BY <4>1, <4>2, Zenon
      <4> QED BY <4>3, Zenon DEF Divided
    <3> QED BY <3>2, <3>3, <3>4, <3>5, <3>6, <3>7, <3>8 DEF WriterInv, Stored, Bytes, Content, Divided
  <2> QED BY <1>3, <1>4, <2>3, <2>4, <2>14, <2>15, LobsAfter
<1> QED
  BY <1>5, <1>6

-----------------------------------------------------------------------------
(* The actions of the LobWriter.                                           *)

\* What the writer is about.
LEMMA WriterIs ==
  ASSUME StatementInv, LobsInv, writer.open
  PROVE  /\ todo[1].type \in LobTypes /\ Content \in Bytes
         /\ writer.buffer \in Bytes /\ writer.rest \in Bytes
         /\ writer.length \in WriteLengths /\ writer.length \in Nat
         /\ \E sent \in Bytes :
              /\ \E m \in 0..Len(Content) : sent = SubSeq(Content, 1, m)
              /\ Content = sent \o (writer.buffer \o writer.rest)
              /\ lobs[Lob].data = Stored(todo[1].type, sent)
              /\ todo[1].type = "CLOB" => IsUtf8(sent)
<1>1. streaming /\ todo # <<>>
  BY DEF StatementInv, StreamInv
<1>2. Content \in Bytes
  BY <1>1, FirstIsGiven DEF Content
<1>3. WriterInv
  BY LobsWere
<1>4. PICK m \in 0..Len(Content) :
        /\ Divided(Content, SubSeq(Content, 1, m))
        /\ lobs[Lob].data = Stored(todo[1].type, SubSeq(Content, 1, m))
        /\ todo[1].type = "CLOB" => IsUtf8(SubSeq(Content, 1, m))
  BY <1>3 DEF WriterInv, Content, Lob
<1> DEFINE sent == SubSeq(Content, 1, m)
<1>5. sent \in Bytes
  BY <1>2, PrefixIs DEF Bytes
<1>6. Content = sent \o (writer.buffer \o writer.rest)
  BY <1>4 DEF Divided
<1>7. /\ todo[1].type \in LobTypes /\ writer.buffer \in Bytes /\ writer.rest \in Bytes
      /\ writer.length \in WriteLengths /\ writer.length \in Nat
  BY <1>3, ConstantsAssumption DEF WriterInv, Bytes
<1> QED
  BY <1>2, <1>4, <1>5, <1>6, <1>7

\* A content that is a text, if all of them are.
LEMMA ContentIsText ==
  ASSUME StatementInv, LobsInv, writer.open, TextsAreUtf8, todo[1].type = "CLOB"
  PROVE  IsUtf8(Content)
<1>1. streaming /\ todo # <<>>
  BY DEF StatementInv, StreamInv
<1>2. PICK i \in DOMAIN st.params :
           /\ IsReader(LastGiven[i]) /\ LastGiven[i].content \in Bytes
           /\ todo[1].type = st.params[i] /\ todo[1].content = LastGiven[i].content
           /\ i \in DOMAIN LastGiven /\ Len(given) \in DOMAIN given
  BY <1>1, FirstIsGiven
<1> QED
  BY <1>2 DEF TextsAreUtf8, LastGiven, Content

\* A content that is refused is none.
LEMMA TextIsRefused ==
  ASSUME StatementInv, LobsInv, writer.open, UNCHANGED <<given, batch, st, executed, chunk>>,
         Fail("utf8"),
         (\A n \in WriteLengths : n > 1) => todo[1].type = "CLOB" /\ ~IsUtf8(Content)
  PROVE  LobsInv'
<1>1. streaming /\ todo # <<>>
  BY DEF StatementInv, StreamInv
<1>2. PICK i \in DOMAIN st.params :
           /\ IsReader(LastGiven[i]) /\ LastGiven[i].content \in Bytes
           /\ todo[1].type = st.params[i] /\ todo[1].content = LastGiven[i].content
           /\ i \in DOMAIN LastGiven /\ Len(given) \in DOMAIN given
  BY <1>1, FirstIsGiven
<1>3. (\A n \in WriteLengths : n > 1) =>
        st.params[i] = "CLOB" /\ IsReader(given[Len(given)][i]) /\ ~IsUtf8(given[Len(given)][i].content)
  BY <1>2 DEF LastGiven, Content
<1>4. TextIsAccepted'
  BY <1>2, <1>3 DEF TextIsAccepted
<1>5. /\ GivenInv /\ LobsArrive /\ ChunksAreCut
  BY LobsWere
<1>6. NotStreaming /\ writer' = NoWriter
  BY DEF Fail, NotStreaming
<1>7. WaitingInv' /\ TodoInv' /\ WriterInv'
  BY <1>6, StreamIsOver
<1>8. GivenStays /\ GivenInv'
  BY <1>5, GivenIsKept, GivenInvKept
<1>9. LobsArrive' /\ ChunksAreCut'
  BY <1>5, <1>6, <1>8, NoWriterIs, ArriveKept, ChunksKept
<1> QED
  BY <1>4, <1>7, <1>8, <1>9, LobsAfter

\* The bytes that are read, and those that remain.
LEMMA BytesSplit ==
  ASSUME NEW b \in Bytes, NEW n \in 1..Len(b)
  PROVE  LET input == SubSeq(b, 1, n)
             rest == SubSeq(b, n + 1, Len(b))
         IN input \in Bytes /\ rest \in Bytes /\ b = input \o rest
<1> DEFINE x == SubSeq(b, 1, n)
           y == SubSeq(b, n + 1, Len(b))
           m == Len(b)
<1>1. m \in Nat /\ n \in 1..m /\ \A i \in 1..m : b[i] \in Utf8Byte
  BY LenProperties, ElementOfSeq DEF Bytes
<1>2. x \in Bytes
  <2>1. \A i \in 1..n : b[i] \in Utf8Byte
    BY <1>1
  <2> QED BY <1>1, <2>1, SubSeqProperties DEF Bytes
<1>3. y \in Bytes
  <2>1. \A i \in (n + 1)..m : b[i] \in Utf8Byte
    BY <1>1
  <2> QED BY <1>1, <2>1, SubSeqProperties DEF Bytes
<1>4. b = x \o y
  <2>1. 1 \in 1..(m + 1) /\ n \in (1 - 1)..m /\ m \in n..m
    BY <1>1
  <2>2. x \o y = SubSeq(b, 1, m)
    BY <1>1, <2>1, ConcatAdjacentSubSeq DEF Bytes
  <2> QED
    BY <1>1, <2>2, SubSeqFull DEF Bytes
<1> QED
  BY <1>2, <1>3, <1>4

LEMMA OpenWriterIs ==
  ASSUME NEW rest, NEW buffer, NEW length
  PROVE  /\ OpenWriter(rest, buffer, length).open
         /\ OpenWriter(rest, buffer, length).rest = rest
         /\ OpenWriter(rest, buffer, length).buffer = buffer
         /\ OpenWriter(rest, buffer, length).length = length
BY DEF OpenWriter

\* What is read is kept in the buffer.
LEMMA BufferLobs ==
  ASSUME StatementInv, LobsInv, writer.open, NEW joined \in Bytes, NEW rest \in Bytes,
         writer.buffer \o writer.rest = joined \o rest, Len(joined) < writer.length,
         writer' = OpenWriter(rest, joined, writer.length),
         UNCHANGED <<given, batch, st, executed, chunk, result, streaming, todo, pending, lobs>>
  PROVE  LobsInv'
<1>1. /\ GivenInv /\ WaitingInv /\ TodoInv /\ LobsArrive /\ ChunksAreCut /\ TextIsAccepted
  BY LobsWere
<1>2. GivenStays /\ GivenInv'
  BY <1>1, GivenIsKept, GivenInvKept
<1>3. LobsArrive' /\ TextIsAccepted'
  BY <1>1, <1>2, ArriveKept, AcceptedKept
<1>4. WaitingInv'
  BY <1>1 DEF WaitingInv, LastGiven, LobPositions
<1>5. /\ writer'.open /\ writer'.rest = rest /\ writer'.buffer = joined
      /\ writer'.length = writer.length
  BY OpenWriterIs
<1>6. TodoInv'
  <2>1. streaming
    BY DEF StatementInv, StreamInv
  <2>2. PICK order \in Orders(LobPositions(pending)) : LobsInOrder(order)
    BY <1>1, <2>1 DEF TodoInv
  <2>3. LobsInOrder(order)'
    BY <2>2 DEF LobsInOrder, LastGiven, Stored
  <2>4. LobPositions(pending)' = LobPositions(pending)
    BY DEF LobPositions
  <2>5. \A k \in DOMAIN todo : k # 1 => lobs[todo[k].locator].data = <<>>
    BY <1>1, <2>1 DEF TodoInv
  <2> QED BY <1>5, <2>2, <2>3, <2>4, <2>5 DEF TodoInv
<1>7. /\ todo[1].type \in LobTypes /\ Content \in Bytes /\ writer.length \in Nat
      /\ writer.length \in WriteLengths
      /\ \E sent \in Bytes :
           /\ \E m \in 0..Len(Content) : sent = SubSeq(Content, 1, m)
           /\ Content = sent \o (writer.buffer \o writer.rest)
           /\ lobs[Lob].data = Stored(todo[1].type, sent)
           /\ todo[1].type = "CLOB" => IsUtf8(sent)
  BY WriterIs, SMTT(60)
<1>8. WriterInv'
  <2>1. PICK sent \in Bytes :
           /\ \E m \in 0..Len(Content) : sent = SubSeq(Content, 1, m)
           /\ Content = sent \o (writer.buffer \o writer.rest)
           /\ lobs[Lob].data = Stored(todo[1].type, sent)
           /\ todo[1].type = "CLOB" => IsUtf8(sent)
    BY <1>7
  <2>2. Content' = Content /\ Lob' = Lob /\ todo'[1] = todo[1]
    BY DEF Content, Lob
  <2>3. Divided(Content, sent)'
    <3>1. Content = sent \o (writer'.buffer \o writer'.rest)
      BY <1>5, <2>1
    <3>2. Content' = sent \o (writer'.buffer \o writer'.rest)
      BY <2>2, <3>1, Zenon
    <3> QED BY <3>2, Zenon DEF Divided
  <2>4. PICK m \in 0..Len(Content) : sent = SubSeq(Content, 1, m)
    BY <2>1
  <2>5. todo'[1].content = Content /\ todo'[1].locator = Lob
    BY DEF Content, Lob
  <2>6. lobs'[Lob].data = Stored(todo[1].type, sent)
    BY <2>1
  <2> HIDE DEF Content, Lob
  <2> QED BY <1>5, <1>7, <2>1, <2>2, <2>3, <2>4, <2>5, <2>6, ZenonT(60) DEF WriterInv, Stored, Bytes, Divided
<1>9. ChunksAreCut'
  <2>1. (TextsAreUtf8 => BufferIsCut /\ ChunkIsCut) /\ ChunkIsText
    BY <1>1, ChunksWere
  <2>2. (TextsAreUtf8 => ChunkIsCut') /\ ChunkIsText'
    BY <2>1 DEF ChunkIsCut, ChunkIsText
  <2>3. BufferIsCut'
    <3>1. Len(joined) \in Nat
      BY LenProperties DEF Bytes
    <3>2. Len(joined) <= Greatest(writer.length - 1, 3)
      BY <1>7, <3>1 DEF Greatest
    <3> QED BY <1>5, <3>2 DEF BufferIsCut
  <2> QED BY <1>2, <2>2, <2>3, ChunksAfter
<1> QED
  BY <1>2, <1>3, <1>4, <1>6, <1>8, <1>9, LobsAfter

\* What is kept back of a chunk, and what is sent.
LEMMA ChunksSent ==
  ASSUME StatementInv, LobsInv, writer.open, UNCHANGED <<given, batch, st>>,
         NEW sent \in Bytes, NEW joined \in Bytes, NEW rest \in Bytes,
         Content = sent \o (joined \o rest), todo[1].type = "CLOB" => IsUtf8(sent),
         CutOf(todo[1].type, joined).ok,
         NEW last \in BOOLEAN, NEW outcome, NEW after,
         SendChunk(CutOf(todo[1].type, joined).cesu8, last, outcome, after),
         last => after = NoWriter,
         ~last => /\ Len(joined) >= writer.length /\ after.length = writer.length
                  /\ after.buffer = CutOf(todo[1].type, joined).tail
  PROVE  ChunksAreCut'
<1> DEFINE tail == CutOf(todo[1].type, joined).tail
           data == CutOf(todo[1].type, joined).cesu8
<1>1. todo[1].type \in LobTypes /\ Content \in Bytes /\ writer.length \in Nat
  BY WriterIs
<1>2. /\ tail \in Bytes /\ Len(tail) <= Len(joined)
      /\ Len(data) >= Len(joined) - Len(tail) /\ Len(data) \in Nat
      /\ todo[1].type = "CLOB" => CESU!IsText(data)
  BY <1>1, ChunkAdvances
<1>3. /\ chunk' = [type |-> todo[1].type, data |-> data, last |-> last, length |-> writer.length]
      /\ writer' = after \/ writer' = NoWriter
  BY ChunkDoes DEF NotStreaming
<1>4. TextsAreUtf8 => Len(tail) <= 3
  <2>1. SUFFICES ASSUME TextsAreUtf8 PROVE Len(tail) <= 3
    OBVIOUS
  <2>2. todo[1].type = "CLOB" => IsUtf8(Content)
    BY <2>1, ContentIsText
  <2>3. CASE Len(joined) # 1
    BY <1>1, <2>2, <2>3, TailIsShort
  <2>4. CASE Len(joined) = 1
    <3>1. Len(tail) \in Nat
      BY <1>2, LenProperties DEF Bytes
    <3> QED BY <1>2, <2>4, <3>1
  <2> QED BY <2>3, <2>4
<1>5. Len(tail) \in Nat /\ Len(joined) \in Nat
  BY <1>2, LenProperties DEF Bytes
<1>6. ChunkIsText'
  <2>1. chunk'.type = todo[1].type /\ chunk'.data = data
    BY <1>3
  <2> HIDE DEF data
  <2> QED BY <1>2, <2>1 DEF ChunkIsText
<1>7. TextsAreUtf8 => BufferIsCut'
  <2>1. CASE writer' = NoWriter
    <3>1. Len(writer'.buffer) = 0 /\ writer'.length \in Nat
      BY <2>1, NoWriterIs, IsSequenceEmpty
    <3>2. 0 <= Greatest(writer'.length - 1, 3)
      BY <3>1 DEF Greatest
    <3> QED BY <3>1, <3>2 DEF BufferIsCut
  <2>2. CASE writer' # NoWriter
    <3>1. writer'.length = writer.length /\ writer'.buffer = tail
      BY <1>3, <2>2
    <3> HIDE DEF tail
    <3>2. Len(tail) <= 3 => Len(tail) <= Greatest(writer.length - 1, 3)
      BY <1>1, <1>5 DEF Greatest
    <3> QED BY <1>4, <3>1, <3>2 DEF BufferIsCut
  <2> QED BY <2>1, <2>2
<1>8. TextsAreUtf8 => ChunkIsCut'
  <2>1. chunk'.last = last /\ chunk'.data = data /\ chunk'.length = writer.length
    BY <1>3
  <2> HIDE DEF tail, data
  <2>2. TextsAreUtf8 /\ ~last => Len(data) >= writer.length - 3
    BY <1>1, <1>2, <1>4, <1>5
  <2> QED BY <2>1, <2>2 DEF ChunkIsCut
<1>9. GivenStays
  BY GivenIsKept
<1> QED
  BY <1>6, <1>7, <1>8, <1>9, ChunksAfter

\* A chunk that was cut off, and the writer that has what was not sent.
LEMMA CutLobs ==
  ASSUME StatementInv, LobsInv, writer.open, UNCHANGED <<given, batch, st, pending>>,
         NEW sent \in Bytes, NEW joined \in Bytes, NEW rest \in Bytes,
         Content = sent \o (joined \o rest), todo[1].type = "CLOB" => IsUtf8(sent),
         lobs[Lob].data = Stored(todo[1].type, sent),
         CutOf(todo[1].type, joined).ok,
         NEW last \in BOOLEAN, NEW outcome, NEW after,
         SendChunk(CutOf(todo[1].type, joined).cesu8, last, outcome, after),
         last => after = NoWriter /\ rest = <<>> /\ CutOf(todo[1].type, joined).tail = <<>>,
         ~last => /\ Len(joined) >= writer.length
                  /\ after = OpenWriter(rest, CutOf(todo[1].type, joined).tail, writer.length)
  PROVE  LobsInv'
<1> DEFINE tail == CutOf(todo[1].type, joined).tail
           data == CutOf(todo[1].type, joined).cesu8
<1>1. todo[1].type \in LobTypes /\ Content \in Bytes /\ writer.length \in WriteLengths
  BY WriterIs
<1>2. tail \in Bytes /\ IsAdvanced(todo[1].type, Content, sent, CutOf(todo[1].type, joined), rest)
  BY <1>1, ChunkAdvances
<1>3. ~last => /\ after.length = writer.length /\ after.buffer = tail /\ after.rest = rest
               /\ after.open
  BY OpenWriterIs
<1>4. ChunksAreCut'
  BY <1>3, ChunksSent
<1> HIDE DEF tail
<1>5. PICK n \in 0..Len(Content) :
           LET more == SubSeq(Content, 1, n)
           IN /\ Content = more \o (tail \o rest)
              /\ Stored(todo[1].type, more) = Stored(todo[1].type, sent) \o data
              /\ todo[1].type = "CLOB" => IsUtf8(more)
  BY <1>2 DEF IsAdvanced, tail
<1> DEFINE more == SubSeq(Content, 1, n)
<1>6. more \in Bytes
  BY <1>1, <1>5, PrefixIs DEF Bytes
<1>7. Stored(todo[1].type, more) = lobs[Lob].data \o data
  BY <1>5
<1>8. Content = more \o (tail \o rest) /\ (todo[1].type = "CLOB" => IsUtf8(more))
  BY <1>5
<1>9. \E m \in 0..Len(Content) : more = SubSeq(Content, 1, m)
  BY <1>5
<1> HIDE DEF more, data
<1>10. last => more = Content /\ ~after.open
  <2>1. SUFFICES ASSUME last PROVE more = Content /\ ~after.open
    OBVIOUS
  <2>2. tail = <<>> /\ rest = <<>> /\ ~after.open
    BY <2>1, NoWriterIs DEF tail
  <2>3. tail \o rest = <<>> /\ more \o <<>> = more
    BY <1>6, <2>2, ConcatEmptySeq, EmptySeq DEF Bytes
  <2> QED BY <1>8, <2>2, <2>3
<1>11. Sent(data, last, after, more)
  <2>1. CASE last
    <3>1. /\ Stored(todo[1].type, more) = lobs[Lob].data \o data
          /\ more = Content /\ ~after.open
      BY <1>7, <1>10, <2>1
    <3> QED BY <2>1, <3>1 DEF Sent
  <2>2. CASE ~last
    <3>1. /\ after.open /\ after.length \in WriteLengths /\ after.buffer \in Bytes
          /\ after.rest \in Bytes /\ Content = more \o (after.buffer \o after.rest)
      BY <1>1, <1>2, <1>3, <1>8, <2>2
    <3> QED BY <1>7, <1>8, <1>9, <2>2, <3>1, ZenonT(60) DEF Sent
  <2> QED BY <2>1, <2>2
<1>12. SendChunk(data, last, outcome, after)
  BY DEF data
<1> QED
  BY <1>4, <1>11, <1>12, ChunkLobs

\* What io::copy has read follows what is buffered.
LEMMA CopyMoves ==
  ASSUME NEW buffer \in Bytes, NEW whole \in Bytes, NEW n \in 1..Len(whole)
  PROVE  LET input == SubSeq(whole, 1, n)
             rest == SubSeq(whole, n + 1, Len(whole))
         IN /\ buffer \o input \in Bytes /\ rest \in Bytes
            /\ buffer \o whole = (buffer \o input) \o rest
            /\ Len(buffer \o input) = Len(input) + Len(buffer)
            /\ Len(buffer \o input) = 1 => Len(buffer) = 0
<1> DEFINE input == SubSeq(whole, 1, n)
           rest == SubSeq(whole, n + 1, Len(whole))
<1>1. input \in Bytes /\ rest \in Bytes /\ whole = input \o rest
  BY BytesSplit
<1> HIDE DEF input, rest
<1>2. /\ buffer \o input \in Bytes /\ Len(buffer \o input) = Len(buffer) + Len(input)
      /\ Len(buffer) \in Nat /\ Len(input) \in Nat
  BY <1>1, ConcatProperties, LenProperties DEF Bytes
<1>3. (buffer \o input) \o rest = buffer \o (input \o rest)
  BY <1>1, BytesJoin, SMTT(60)
<1>4. Len(buffer \o input) = Len(input) + Len(buffer)
  BY <1>2
<1>5. Len(input) = n /\ n \in Nat /\ n # 0
  <2>1. Len(whole) \in Nat
    BY LenProperties DEF Bytes
  <2> QED BY <2>1, PrefixIs DEF Bytes, input
<1>6. Len(buffer \o input) = 1 => Len(buffer) = 0
  BY <1>2, <1>4, <1>5
<1> QED
  BY <1>1, <1>2, <1>3, <1>4, <1>6 DEF input, rest

\* The reader gives some bytes.
LEMMA CopyLobs ==
  ASSUME StatementInv, LobsInv, NEW n \in 1..MaxRead, Copy(n)
  PROVE  LobsInv'
<1> DEFINE input == SubSeq(writer.rest, 1, n)
           joined == writer.buffer \o input
           rest == SubSeq(writer.rest, n + 1, Len(writer.rest))
           cut == CutOf(todo[1].type, joined)
<1>1. writer.open /\ n <= Len(writer.rest)
  BY DEF Copy
<1>2. UNCHANGED <<given, batch, st>>
  BY DEF Copy, history
<1>3. \/ /\ IsBuffered(writer.buffer, input)
         /\ writer' = OpenWriter(rest, joined, writer.length)
         /\ UNCHANGED <<result, response, streaming, todo, irvs, server, faults>>
      \/ /\ ~IsBuffered(writer.buffer, input) /\ ~cut.ok
         /\ Fail("utf8") /\ UNCHANGED <<server, faults>>
      \/ /\ ~IsBuffered(writer.buffer, input) /\ cut.ok
         /\ \E outcome \in Outcomes :
              SendChunk(cut.cesu8, FALSE, outcome, OpenWriter(rest, cut.tail, writer.length))
         /\ UNCHANGED <<srvStmt, pending>>
  BY CutIs, Zenon DEF Copy
<1>4. /\ todo[1].type \in LobTypes /\ Content \in Bytes
      /\ writer.buffer \in Bytes /\ writer.rest \in Bytes
      /\ writer.length \in WriteLengths /\ writer.length \in Nat
  BY <1>1, WriterIs
<1>5. n \in 1..Len(writer.rest)
  <2>1. Len(writer.rest) \in Nat
    BY <1>4, LenProperties DEF Bytes
  <2> QED BY <1>1, <2>1
<1>6. /\ joined \in Bytes /\ rest \in Bytes
      /\ writer.buffer \o writer.rest = joined \o rest
      /\ Len(joined) = Len(input) + Len(writer.buffer)
  BY <1>4, <1>5, CopyMoves
<1>7. PICK sent \in Bytes :
        /\ Content = sent \o (writer.buffer \o writer.rest)
        /\ lobs[Lob].data = Stored(todo[1].type, sent)
        /\ todo[1].type = "CLOB" => IsUtf8(sent)
  BY <1>1, WriterIs
<1>8. IsBuffered(writer.buffer, input) <=> Len(joined) < writer.length
  BY <1>6 DEF IsBuffered
<1> HIDE DEF input, joined, rest
<1>9. Content = sent \o (joined \o rest)
  BY <1>6, <1>7
<1>10. Len(joined) \in Nat
  BY <1>6, LenProperties DEF Bytes
<1>11. CASE /\ IsBuffered(writer.buffer, input)
            /\ writer' = OpenWriter(rest, joined, writer.length)
            /\ UNCHANGED <<result, response, streaming, todo, irvs, server, faults>>
  BY <1>1, <1>2, <1>6, <1>8, <1>11, BufferLobs DEF server
<1>12. CASE /\ ~IsBuffered(writer.buffer, input) /\ ~cut.ok
            /\ Fail("utf8") /\ UNCHANGED <<server, faults>>
  <2>1. (\A k \in WriteLengths : k > 1) => todo[1].type = "CLOB" /\ ~IsUtf8(Content)
    <3>1. SUFFICES ASSUME \A k \in WriteLengths : k > 1,
                          todo[1].type = "CLOB" => IsUtf8(Content)
                   PROVE  cut.ok
      BY <1>12
    <3>2. Len(joined) # 1
      <4>1. writer.length > 1
        BY <1>4, <3>1
      <4>2. ~(Len(joined) < writer.length)
        BY <1>8, <1>12
      <4> QED BY <1>4, <1>10, <4>1, <4>2
    <3>3. PICK type \in LobTypes : type = todo[1].type
      BY <1>4
    <3>4. PICK content \in Bytes : content = Content
      BY <1>4
    <3>5. type = "CLOB" => IsUtf8(sent) /\ IsUtf8(content)
      BY <1>7, <3>1, <3>3, <3>4
    <3>6. content = sent \o (joined \o rest)
      BY <1>9, <3>4
    <3>7. joined \in Bytes /\ rest \in Bytes /\ sent \in Bytes /\ cut = CutOf(type, joined)
      BY <1>6, <1>7, <3>3
    <3>8. CutOf(type, joined).ok
      BY <3>2, <3>5, <3>6, <3>7, TailIsShort
    <3> QED BY <3>7, <3>8
  <2>2. UNCHANGED <<executed, chunk>>
    BY <1>12 DEF server
  <2> QED BY <1>1, <1>2, <1>12, <2>1, <2>2, TextIsRefused
<1>13. CASE /\ ~IsBuffered(writer.buffer, input) /\ cut.ok
            /\ \E outcome \in Outcomes :
                 SendChunk(cut.cesu8, FALSE, outcome, OpenWriter(rest, cut.tail, writer.length))
            /\ UNCHANGED <<srvStmt, pending>>
  <2>1. PICK outcome :
           SendChunk(cut.cesu8, FALSE, outcome, OpenWriter(rest, cut.tail, writer.length))
    BY <1>13
  <2>2. Len(joined) >= writer.length
    BY <1>4, <1>8, <1>10, <1>13
  <2>3. pending' = pending /\ cut.ok
    BY <1>13
  <2> QED BY <1>1, <1>2, <1>4, <1>6, <1>7, <1>9, <2>1, <2>2, <2>3, CutLobs
<1> QED
  BY <1>3, <1>11, <1>12, <1>13

\* The end of the reader.
LEMMA FlushLobs ==
  ASSUME StatementInv, LobsInv, Flush
  PROVE  LobsInv'
<1> DEFINE joined == writer.buffer
           cut == CutOf(todo[1].type, joined)
<1>1. writer.open /\ writer.rest = <<>>
  BY DEF Flush, FlushDue
<1>2. UNCHANGED <<given, batch, st>>
  BY DEF Flush, history
<1>3. \/ /\ ~cut.ok \/ cut.tail # <<>>
         /\ Fail("utf8") /\ UNCHANGED <<server, faults>>
      \/ /\ cut.ok /\ cut.tail = <<>>
         /\ \E outcome \in Outcomes : SendChunk(cut.cesu8, TRUE, outcome, NoWriter)
         /\ UNCHANGED <<srvStmt, pending>>
  BY CutIs, Zenon DEF Flush
<1>4. /\ todo[1].type \in LobTypes /\ Content \in Bytes /\ joined \in Bytes
      /\ writer.rest \in Bytes
  BY <1>1, WriterIs
<1>5. PICK sent \in Bytes :
        /\ Content = sent \o (joined \o writer.rest)
        /\ lobs[Lob].data = Stored(todo[1].type, sent)
        /\ todo[1].type = "CLOB" => IsUtf8(sent)
  BY <1>1, WriterIs
<1> HIDE DEF joined
<1>6. CASE /\ ~cut.ok \/ cut.tail # <<>>
           /\ Fail("utf8") /\ UNCHANGED <<server, faults>>
  <2>1. todo[1].type = "CLOB" /\ ~IsUtf8(Content)
    <3>1. SUFFICES ASSUME todo[1].type = "CLOB" => IsUtf8(Content)
                   PROVE  cut.ok /\ cut.tail = <<>>
      BY <1>6
    <3> QED BY <1>1, <1>4, <1>5, <3>1, TailIsShort, ZenonT(30)
  <2>2. UNCHANGED <<executed, chunk>>
    BY <1>6 DEF server
  <2> QED BY <1>1, <1>2, <1>6, <2>1, <2>2, TextIsRefused
<1>7. CASE /\ cut.ok /\ cut.tail = <<>>
           /\ \E outcome \in Outcomes : SendChunk(cut.cesu8, TRUE, outcome, NoWriter)
           /\ UNCHANGED <<srvStmt, pending>>
  <2>1. PICK outcome : SendChunk(cut.cesu8, TRUE, outcome, NoWriter)
    BY <1>7
  <2>2. pending' = pending /\ cut.ok /\ cut.tail = <<>>
    BY <1>7
  <2> QED BY <1>1, <1>2, <1>4, <1>5, <2>1, <2>2, CutLobs
<1> QED
  BY <1>3, <1>6, <1>7

LEMMA LobsStep == StatementInv /\ LobsInv /\ [Next]_vars => LobsInv'
<1> SUFFICES ASSUME StatementInv, LobsInv, [Next]_vars PROVE LobsInv'
  OBVIOUS
<1>1. ASSUME NEW outcome \in Outcomes, Prepare(outcome) \/ Drop(outcome) PROVE LobsInv'
  BY <1>1, PrepareLobs, DropLobs
<1>2. ASSUME NEW values \in GivenRows, AddRow(values) \/ Execute(values) \/ ExecuteRow(values)
      PROVE  LobsInv'
  BY <1>2, AddRowLobs, ExecuteLobs, ExecuteRowLobs
<1>3. CASE ExecuteBatch \/ ExecuteEmptyBatch
  BY <1>3, ExecuteBatchLobs, ExecuteEmptyBatchLobs
<1>4. CASE Step
  BY <1>4, NewWriterLobs, ReaderFailsLobs, FlushLobs, FinishLobs, CopyLobs DEF Step
<1>5. ASSUME NEW kind \in Kinds, GetValue(kind) \/ IntoValue(kind) PROVE LobsInv'
  BY <1>5, GetValueLobs
<1>6. CASE UNCHANGED vars
  <2>1. UNCHANGED <<given, executed, st, chunk, batch, result>> /\ UNCHANGED streamVars
    BY <1>6 DEF vars, program, stream, server, history, streamVars
  <2> QED BY <2>1, LobsStutter
<1> QED
  BY <1>1, <1>2, <1>3, <1>4, <1>5, <1>6 DEF Next

\* lob_writer.rs, sync_prepared_statement.rs:243: what was sent, what is
\* buffered and what the reader still has are together what was given, for
\* every LOB at the position of its reader, after every step.
THEOREM LobsInvariant == Spec => []LobsInv
<1>1. Init => LobsInv
  BY LobsInit
<1>2. StatementInv /\ LobsInv /\ [Next]_vars => LobsInv'
  BY LobsStep
<1> QED
  BY <1>1, <1>2, StatementInvariant, PTL DEF Spec

\* lob_writer.rs, sync_prepared_statement.rs:258: in a row that was executed
\* every LOB is what the reader contained that was given at its position: no
\* byte is missing or sent twice, no LOB is mixed up with another.
THEOREM LobsArriveWhole == Spec => []LobsArrive
<1>1. LobsInv => LobsArrive
  BY LobsWere
<1> QED
  BY <1>1, LobsInvariant, PTL

\* lob_writer.rs:169, :225: what is kept back of a text is less than a chunk, or
\* an incomplete character; what is sent before the end is a chunk, but for
\* such a rest; and every chunk of a CLOB consists of complete characters.
THEOREM ChunksCut == Spec => []ChunksAreCut
<1>1. LobsInv => ChunksAreCut
  BY LobsWere
<1> QED
  BY <1>1, LobsInvariant, PTL

\* lob_writer.rs:231: text is refused only if it is not UTF-8, however the
\* reader and the write length cut it.
THEOREM TextAccepted == Spec => []TextIsAccepted
<1>1. LobsInv => TextIsAccepted
  BY LobsWere
<1> QED
  BY <1>1, LobsInvariant, PTL

-----------------------------------------------------------------------------
(* The values of a kind.                                                   *)

\* OfKind, of sequences that are joined.
LEMMA OfKindConcat ==
  ASSUME NEW T, NEW q \in Seq(T), NEW r \in Seq(T), NEW kind
  PROVE  OfKind(kind, q \o r) = OfKind(kind, q) \o OfKind(kind, r)
<1> DEFINE w == q \o r
           P == {i \in DOMAIN w : w[i].kind = kind}
           A == {i \in DOMAIN q : q[i].kind = kind}
           B == {i \in DOMAIN r : r[i].kind = kind}
           C == Behind(q, r, P)
<1>1. /\ w \in Seq(T) /\ Len(w) = Len(q) + Len(r)
      /\ \A i \in 1..(Len(q) + Len(r)) : w[i] = IF i <= Len(q) THEN q[i] ELSE r[i - Len(q)]
  BY ConcatProperties
<1>2. /\ DOMAIN w = 1..Len(w) /\ DOMAIN q = 1..Len(q) /\ DOMAIN r = 1..Len(r)
      /\ Len(q) \in Nat /\ Len(r) \in Nat
  BY <1>1, LenProperties
<1> HIDE DEF w, P
<1>3. Kept(w, P) = Kept(q, P) \o Kept(r, C)
  BY KeptConcat DEF w
<1>4. ASSUME NEW i \in DOMAIN q PROVE i \in P <=> i \in A
  <2>1. i \in DOMAIN w /\ w[i] = q[i]
    BY <1>1, <1>2
  <2> QED BY <2>1 DEF P
<1>5. ASSUME NEW i \in DOMAIN r PROVE i \in C <=> i \in B
  <2>1. /\ Len(q) + i \in 1..(Len(q) + Len(r)) /\ ~(Len(q) + i <= Len(q))
        /\ (Len(q) + i) - Len(q) = i
    BY <1>2
  <2>2. Len(q) + i \in DOMAIN w /\ w[Len(q) + i] = r[i]
    BY <1>1, <1>2, <2>1
  <2> QED BY <2>2 DEF P, Behind
<1> HIDE DEF P, A, B, C
<1>6. Kept(q, P) = Kept(q, A) /\ Kept(r, C) = Kept(r, B)
  BY <1>4, <1>5, KeptSame
<1> QED
  BY <1>3, <1>6 DEF OfKind, P, A, B, w

\* A single value is of the kind or not.
LEMMA OfKindOne ==
  ASSUME NEW x, NEW kind
  PROVE  OfKind(kind, <<x>>) = (IF x.kind = kind THEN <<x>> ELSE <<>>)
<1> DEFINE z == <<x>>
           P == {i \in DOMAIN z : z[i].kind = kind}
<1>1. 1 \in DOMAIN z /\ z[1] = x
  OBVIOUS
<1> HIDE DEF z
<1>2. 1 \in P <=> x.kind = kind
  BY <1>1
<1> HIDE DEF P
<1>3. Kept(z, P) = (IF 1 \in P THEN <<x>> ELSE <<>>)
  BY KeptOne DEF z
<1> QED
  BY <1>2, <1>3 DEF OfKind, P, z

\* Without values there are none of a kind.
LEMMA OfKindEmpty == \A kind : OfKind(kind, <<>>) = <<>>
BY KeptEmpty DEF OfKind

\* The values of a kind are among those that there are.
LEMMA OfKindType ==
  ASSUME NEW T, NEW q \in Seq(T), NEW kind
  PROVE  OfKind(kind, q) \in Seq(T)
BY KeptType DEF OfKind

\* One value more is of the kind or not.
LEMMA OfKindAppend ==
  ASSUME NEW T, NEW q \in Seq(T), NEW x \in T, NEW kind
  PROVE  OfKind(kind, Append(q, x)) =
           (IF x.kind = kind THEN Append(OfKind(kind, q), x) ELSE OfKind(kind, q))
<1> DEFINE z == <<x>>
<1>1. z \in Seq(T) /\ Append(q, x) = q \o z /\ OfKind(kind, q) \in Seq(T)
  BY AppendIsConcat, OfKindType
<1>2. OfKind(kind, z) = (IF x.kind = kind THEN z ELSE <<>>)
  BY OfKindOne
<1>3. /\ Append(OfKind(kind, q), x) = OfKind(kind, q) \o z
      /\ OfKind(kind, q) \o <<>> = OfKind(kind, q)
  BY <1>1, AppendIsConcat, ConcatEmptySeq
<1> HIDE DEF z
<1>4. OfKind(kind, q \o z) = OfKind(kind, q) \o OfKind(kind, z)
  BY <1>1, OfKindConcat
<1> QED
  BY <1>1, <1>2, <1>3, <1>4

\* What is left out, and what is changed, is not of this kind.
LEMMA OfKindKept ==
  ASSUME NEW T, NEW q \in Seq(T), NEW r \in Seq(T), Len(q) = Len(r), NEW P, NEW kind,
         \A i \in 1..Len(q) : q[i].kind = kind => i \in P /\ r[i] = q[i],
         \A i \in 1..Len(q) : q[i].kind # kind => i \notin P \/ r[i].kind # kind
  PROVE  OfKind(kind, Kept(r, P)) = OfKind(kind, q)
<1> DEFINE Fit(u, v) ==
             /\ \A i \in 1..Len(u) : u[i].kind = kind => i \in P /\ v[i] = u[i]
             /\ \A i \in 1..Len(u) : u[i].kind # kind => i \notin P \/ v[i].kind # kind
           Q == {u \in Seq(T) : \A v \in Seq(T) : Len(u) = Len(v) /\ Fit(u, v) =>
                                  OfKind(kind, Kept(v, P)) = OfKind(kind, u)}
<1>1. <<>> \in Q
  <2> SUFFICES ASSUME NEW v \in Seq(T), Len(<<>>) = Len(v)
               PROVE  OfKind(kind, Kept(v, P)) = OfKind(kind, <<>>)
    BY EmptySeq
  <2>1. v = <<>>
    BY EmptySeq
  <2> QED BY <2>1, KeptEmpty
<1>2. ASSUME NEW u \in Seq(T), NEW x \in T, u \in Q PROVE Append(u, x) \in Q
  <2> DEFINE w == Append(u, x)
             n == Len(u)
  <2>1. /\ w \in Seq(T) /\ Len(w) = n + 1 /\ n \in Nat
        /\ \A i \in 1..n : w[i] = u[i]
        /\ w[n + 1] = x
    BY AppendProperties, LenProperties
  <2>2. OfKind(kind, w) = (IF x.kind = kind THEN Append(OfKind(kind, u), x) ELSE OfKind(kind, u))
    BY OfKindAppend
  <2> HIDE DEF w
  <2>3. SUFFICES ASSUME NEW v \in Seq(T), Len(w) = Len(v), Fit(w, v)
                 PROVE  OfKind(kind, Kept(v, P)) = OfKind(kind, w)
    BY <2>1 DEF w
  <2>4. v # <<>>
    BY <2>1, <2>3, EmptySeq
  <2>5. PICK t \in Seq(T), y \in T : v = Append(t, y)
    BY <2>4, SequenceEmptyOrAppend
  <2>6. Len(t) = n /\ (\A i \in 1..n : v[i] = t[i]) /\ v[n + 1] = y
    <3>1. /\ Len(Append(t, y)) = Len(t) + 1 /\ Len(t) \in Nat
          /\ \A i \in 1..Len(t) : Append(t, y)[i] = t[i]
          /\ Append(t, y)[Len(t) + 1] = y
      BY AppendProperties, LenProperties
    <3> QED BY <2>1, <2>3, <2>5, <3>1
  <2>7. /\ \A i \in 1..n : i \in 1..(n + 1)
        /\ n + 1 \in 1..(n + 1)
    BY <2>1
  <2>8. Fit(u, t)
    BY <2>1, <2>3, <2>6, <2>7
  <2>9. /\ x.kind = kind => n + 1 \in P /\ y = x
        /\ x.kind # kind => n + 1 \notin P \/ y.kind # kind
    BY <2>1, <2>3, <2>6, <2>7
  <2>10. OfKind(kind, Kept(t, P)) = OfKind(kind, u)
    BY <1>2, <2>6, <2>8
  <2>11. Kept(v, P) = (IF n + 1 \in P THEN Append(Kept(t, P), y) ELSE Kept(t, P))
    BY <2>5, <2>6, KeptAppend
  <2>12. Kept(t, P) \in Seq(T)
    BY KeptType
  <2>13. OfKind(kind, Append(Kept(t, P), y)) =
           (IF y.kind = kind THEN Append(OfKind(kind, Kept(t, P)), y) ELSE OfKind(kind, Kept(t, P)))
    BY <2>12, OfKindAppend
  <2> HIDE DEF n, Fit, Q
  <2>14. CASE x.kind = kind
    <3>1. n + 1 \in P /\ y = x
      BY <2>9, <2>14
    <3>2. OfKind(kind, w) = Append(OfKind(kind, u), x)
      BY <2>2, <2>14
    <3>3. OfKind(kind, Kept(v, P)) = Append(OfKind(kind, Kept(t, P)), x)
      BY <2>11, <2>13, <2>14, <3>1
    <3> QED BY <2>10, <3>2, <3>3
  <2>15. CASE x.kind # kind
    <3>1. n + 1 \notin P \/ y.kind # kind
      BY <2>9, <2>15
    <3>2. OfKind(kind, w) = OfKind(kind, u)
      BY <2>2, <2>15
    <3>3. OfKind(kind, Kept(v, P)) = OfKind(kind, Kept(t, P))
      BY <2>11, <2>13, <3>1
    <3> QED BY <2>10, <3>2, <3>3
  <2> QED BY <2>14, <2>15
<1> HIDE DEF Q
<1>3. q \in Q
  BY <1>1, <1>2, AllSequences
<1> QED
  BY <1>3 DEF Q

\* The values of a kind, in the opposite order.
LEMMA OfKindReverse ==
  ASSUME NEW T, NEW q \in Seq(T), NEW kind
  PROVE  OfKind(kind, S!Reverse(q)) = S!Reverse(OfKind(kind, q))
<1> DEFINE Q == {r \in Seq(T) : OfKind(kind, S!Reverse(r)) = S!Reverse(OfKind(kind, r))}
<1>1. <<>> \in Q
  BY OfKindEmpty, ReverseEmpty, EmptySeq
<1>2. ASSUME NEW r \in Seq(T), NEW x \in T, r \in Q PROVE Append(r, x) \in Q
  <2> DEFINE z == <<x>>
  <2>1. /\ z \in Seq(T) /\ Append(r, x) = r \o z /\ r \o z \in Seq(T)
        /\ OfKind(kind, r) \in Seq(T) /\ S!Reverse(r) \in Seq(T)
    BY AppendIsConcat, AppendProperties, OfKindType, ReverseIs
  <2>2. OfKind(kind, z) = (IF x.kind = kind THEN z ELSE <<>>)
    BY OfKindOne
  <2>3. Len(z) = 1
    OBVIOUS
  <2> HIDE DEF z
  <2>4. S!Reverse(z) = z
    BY <2>1, <2>3, ReverseOne
  <2>5. S!Reverse(OfKind(kind, z)) = OfKind(kind, z)
    BY <2>2, <2>4, ReverseEmpty
  <2>6. OfKind(kind, z) \in Seq(T)
    BY <2>1, OfKindType
  <2>7. S!Reverse(r \o z) = z \o S!Reverse(r)
    BY <2>1, <2>4, ReverseConcat
  <2>8. OfKind(kind, z \o S!Reverse(r)) = OfKind(kind, z) \o OfKind(kind, S!Reverse(r))
    BY <2>1, OfKindConcat
  <2>9. OfKind(kind, r \o z) = OfKind(kind, r) \o OfKind(kind, z)
    BY <2>1, OfKindConcat
  <2>10. S!Reverse(OfKind(kind, r) \o OfKind(kind, z)) = OfKind(kind, z) \o S!Reverse(OfKind(kind, r))
    BY <2>1, <2>5, <2>6, ReverseConcat
  <2>11. OfKind(kind, S!Reverse(r)) = S!Reverse(OfKind(kind, r))
    BY <1>2
  <2>12. OfKind(kind, S!Reverse(r \o z)) = S!Reverse(OfKind(kind, r \o z))
    BY <2>7, <2>8, <2>9, <2>10, <2>11
  <2> QED BY <2>1, <2>12
<1> HIDE DEF Q
<1>3. q \in Q
  BY <1>1, <1>2, AllSequences
<1> QED
  BY <1>3 DEF Q

-----------------------------------------------------------------------------
(* The same, of sequences of any elements.                                 *)

\* What the elements of two sequences are taken from.
Elements(q, r) == {q[k] : k \in DOMAIN q} \cup {r[k] : k \in DOMAIN r}

\* Both are sequences of these elements.
LEMMA ElementsAre ==
  ASSUME NEW q, NEW r, IsSequence(q), IsSequence(r)
  PROVE  q \in Seq(Elements(q, r)) /\ r \in Seq(Elements(q, r))
BY SequenceOver DEF Elements

\* The values of a kind, of sequences that are joined.
LEMMA KindsJoined ==
  ASSUME NEW q, NEW r, IsSequence(q), IsSequence(r), NEW kind
  PROVE  /\ IsSequence(OfKind(kind, q)) /\ IsSequence(q \o r)
         /\ OfKind(kind, q \o r) = OfKind(kind, q) \o OfKind(kind, r)
<1>1. q \in Seq(Elements(q, r)) /\ r \in Seq(Elements(q, r))
  BY ElementsAre
<1>2. OfKind(kind, q) \in Seq(Elements(q, r))
  BY <1>1, OfKindType
<1> QED
  BY <1>1, <1>2, OfKindConcat, IsSequenceOf, SequenceExtended, SMTT(60)

\* The values of a kind, in the opposite order.
LEMMA KindsReversed ==
  ASSUME NEW q, IsSequence(q), NEW kind
  PROVE  /\ IsSequence(S!Reverse(q)) /\ S!Reverse(S!Reverse(q)) = q
         /\ OfKind(kind, S!Reverse(q)) = S!Reverse(OfKind(kind, q))
         /\ S!Reverse(S!Reverse(OfKind(kind, q))) = OfKind(kind, q)
<1>1. q \in Seq(Elements(q, q))
  BY ElementsAre
<1>2. OfKind(kind, q) \in Seq(Elements(q, q))
  BY <1>1, OfKindType
<1>3. S!Reverse(q) \in Seq(Elements(q, q))
  BY <1>1, ReverseIs
<1> QED
  BY <1>1, <1>2, <1>3, OfKindReverse, ReverseTwice, IsSequenceOf

\* What is left out, and what is changed, is not of this kind.
LEMMA KindsKept ==
  ASSUME NEW q, NEW r, IsSequence(q), IsSequence(r), Len(q) = Len(r), NEW P, NEW kind,
         \A i \in DOMAIN q : q[i].kind = kind => i \in P /\ r[i] = q[i],
         \A i \in DOMAIN q : q[i].kind # kind => i \notin P \/ r[i].kind # kind
  PROVE  IsSequence(Kept(r, P)) /\ OfKind(kind, Kept(r, P)) = OfKind(kind, q)
<1>1. q \in Seq(Elements(q, r)) /\ r \in Seq(Elements(q, r))
  BY ElementsAre
<1>2. DOMAIN q = 1..Len(q)
  BY SequenceDomain
<1>3. Kept(r, P) \in Seq(Elements(q, r))
  BY <1>1, KeptType
<1>4. OfKind(kind, Kept(r, P)) = OfKind(kind, q)
  BY <1>1, <1>2, OfKindKept
<1> QED
  BY <1>3, <1>4, IsSequenceOf

\* What is kept is a sequence, and all of it if nothing is left out.
LEMMA KeptIsSequence ==
  ASSUME NEW q, IsSequence(q), NEW P
  PROVE  /\ IsSequence(Kept(q, P))
         /\ DOMAIN q \subseteq P => Kept(q, P) = q
<1>1. q \in Seq(Elements(q, q))
  BY ElementsAre
<1> QED
  BY <1>1, KeptType, KeptAll, IsSequenceOf

\* There are elements of a kind if there is one.
LEMMA KindsNone ==
  ASSUME NEW q, IsSequence(q), NEW kind
  PROVE  OfKind(kind, q) = <<>> <=> \A i \in DOMAIN q : q[i].kind # kind
<1> DEFINE T == Elements(q, q)
           None(u) == OfKind(kind, u) = <<>> <=> \A i \in 1..Len(u) : u[i].kind # kind
           Q == {u \in Seq(T) : None(u)}
<1>1. q \in Seq(T) /\ DOMAIN q = 1..Len(q) /\ Len(q) \in Nat
  BY ElementsAre, SequenceDomain
<1> HIDE DEF T
<1>2. <<>> \in Q
  BY OfKindEmpty
<1>3. ASSUME NEW u \in Seq(T), NEW x \in T, u \in Q PROVE Append(u, x) \in Q
  <2> DEFINE w == Append(u, x)
             n == Len(u)
  <2>1. n \in Nat /\ w \in Seq(T) /\ Len(w) = n + 1 /\ w[n + 1] = x /\ \A i \in 1..n : w[i] = u[i]
    OBVIOUS
  <2>2. OfKind(kind, u) \in Seq(T) /\ None(u)
    BY <1>3, OfKindType
  <2>3. OfKind(kind, w) = (IF x.kind = kind THEN Append(OfKind(kind, u), x) ELSE OfKind(kind, u))
    BY OfKindAppend
  <2>4. CASE x.kind = kind
    <3>1. OfKind(kind, w) # <<>>
      BY <2>2, <2>3, <2>4
    <3>2. n + 1 \in 1..Len(w) /\ w[n + 1].kind = kind
      BY <2>1, <2>4
    <3> QED BY <2>1, <3>1, <3>2
  <2>5. CASE x.kind # kind
    <3>1. (\A i \in 1..Len(w) : w[i].kind # kind) <=> \A i \in 1..n : u[i].kind # kind
      <4> HIDE DEF w, n
      <4>1. \A i \in 1..(n + 1) : i \in 1..n \/ i = n + 1
        BY <2>1
      <4>2. 1..n \subseteq 1..(n + 1) /\ n + 1 \in 1..(n + 1)
        BY <2>1
      <4> QED BY <2>1, <2>5, <4>1, <4>2
    <3> QED BY <2>1, <2>2, <2>3, <2>5, <3>1
  <2> QED BY <2>4, <2>5
<1> HIDE DEF None
<1>4. Seq(T) \subseteq Q
  <2> HIDE DEF Q
  <2> QED BY <1>2, <1>3, AllSequences
<1>5. None(q)
  BY <1>1, <1>4
<1> QED
  BY <1>1, <1>5 DEF None

-----------------------------------------------------------------------------
(* From the parts of a reply to a response.                                *)

\* Without the first reply about LOBs: there is another part, or there is none.
LEMMA RemovedIs ==
  ASSUME NEW parts, IsSequence(parts)
  PROVE  /\ IsSequence(RemoveFirstOfKind(parts, "wlr"))
         /\ (\A i \in DOMAIN parts : parts[i].kind # "wlr") => RemoveFirstOfKind(parts, "wlr") = parts
<1> DEFINE P == {i \in DOMAIN parts :
                   parts[i].kind = "wlr" => \E j \in 1..(i - 1) : parts[j].kind = "wlr"}
<1>1. RemoveFirstOfKind(parts, "wlr") = Kept(parts, P)
  BY Zenon DEF RemoveFirstOfKind
<1>2. (\A i \in DOMAIN parts : parts[i].kind # "wlr") => DOMAIN parts \subseteq P
  OBVIOUS
<1> HIDE DEF P
<1> QED
  BY <1>1, <1>2, KeptIsSequence

\* Without its first reply about LOBs, a reply that has nothing else is empty.
LEMMA OnlyLobs == RemoveFirstOfKind(<<Value("wlr", 0)>>, "wlr") = <<>>
<1> DEFINE x == Value("wlr", 0)
           parts == <<x>>
           P == {i \in DOMAIN parts :
                   parts[i].kind = "wlr" => \E j \in 1..(i - 1) : parts[j].kind = "wlr"}
<1>1. x.kind = "wlr"
  BY DEF Value
<1>2. 1 \notin P
  <2>1. parts[1].kind = "wlr"
    BY <1>1
  <2> HIDE DEF parts
  <2>2. 1..(1 - 1) = {}
    OBVIOUS
  <2> QED BY <2>1, <2>2
<1>3. RemoveFirstOfKind(parts, "wlr") = Kept(parts, P)
  BY Zenon DEF RemoveFirstOfKind
<1> HIDE DEF P, x
<1>4. Kept(parts, P) = <<>>
  BY <1>2, KeptOne
<1> QED
  BY <1>3, <1>4 DEF x

\* The values of a reply; if none is about LOBs, no part was.
LEMMA IntoIs ==
  ASSUME NEW parts, IsSequence(parts)
  PROVE  LET into == IntoInternalReturnValues(parts)
         IN /\ IsSequence(into.values)
            /\ ~into.ok => into.values = <<>>
            /\ into.ok /\ (\A i \in DOMAIN into.values : into.values[i].kind # "wlr") =>
                 RemoveFirstOfKind(parts, "wlr") = parts
<1> DEFINE bad == \E i \in DOMAIN parts : \/ parts[i].kind = "closing"
                                          \/ parts[i].kind = "md" /\ ~MetadataHasId(parts, i)
           into == IntoInternalReturnValues(parts)
           w == [i \in DOMAIN parts |-> InternalReturnValue(parts, i)]
           T == {parts[i] : i \in DOMAIN parts} \cup {Value("rs", parts[i + 1].val) : i \in DOMAIN parts}
<1>1. into = IF bad THEN Err ELSE Ok(S!FlattenSeq(w))
  BY Zenon DEF IntoInternalReturnValues
<1>2. CASE bad
  BY <1>1, <1>2, IsSequenceEmpty DEF Err
<1>3. CASE ~bad
  <2>1. into.ok = TRUE /\ into.values = S!FlattenSeq(w)
    BY <1>1, <1>3 DEF Ok
  <2>2. DOMAIN parts = 1..Len(parts) /\ Len(parts) \in Nat
    BY SequenceDomain
  <2>3. \A i \in DOMAIN parts : InternalReturnValue(parts, i) \in Seq(T)
    <3> SUFFICES ASSUME NEW i \in DOMAIN parts PROVE InternalReturnValue(parts, i) \in Seq(T)
      OBVIOUS
    <3>1. parts[i] \in T /\ Value("rs", parts[i + 1].val) \in T
      BY Zenon
    <3> HIDE DEF T
    <3>2. <<parts[i]>> \in Seq(T) /\ <<Value("rs", parts[i + 1].val)>> \in Seq(T) /\ <<>> \in Seq(T)
      BY <3>1
    <3> QED BY <3>2 DEF InternalReturnValue
  <2> HIDE DEF T
  <2>4. w \in [1..Len(parts) -> Seq(T)]
    BY <2>2, <2>3
  <2>5. w \in Seq(Seq(T)) /\ Len(w) = Len(parts)
    BY <2>2, <2>4, SeqDef, LenProperties
  <2>6. into.values \in Seq(T)
    BY <2>1, <2>5, FlatType
  <2>7. ASSUME \A i \in DOMAIN into.values : into.values[i].kind # "wlr", NEW i \in DOMAIN parts
        PROVE  parts[i].kind # "wlr"
    <3> SUFFICES ASSUME parts[i].kind = "wlr" PROVE FALSE
      OBVIOUS
    <3>1. w[i] = <<parts[i]>>
      BY DEF InternalReturnValue
    <3>2. parts[i] \in T /\ i \in 1..Len(w)
      BY <2>2, <2>5 DEF T
    <3> HIDE DEF w
    <3>3. PICK j \in 1..Len(S!FlattenSeq(w)) : S!FlattenSeq(w)[j] = parts[i]
      <4> DEFINE x == parts[i]
      <4>1. w \in Seq(Seq(T)) /\ w[i] = <<x>> /\ x \in T /\ i \in 1..Len(w)
        BY <2>5, <3>1, <3>2
      <4> HIDE DEF x, T
      <4>2. \E j \in 1..Len(S!FlattenSeq(w)) : S!FlattenSeq(w)[j] = x
        BY <4>1, FlatHas
      <4> QED BY <4>2 DEF x
    <3>4. DOMAIN into.values = 1..Len(into.values)
      BY <2>6, LenProperties
    <3> HIDE DEF into
    <3> QED BY <2>1, <2>7, <3>3, <3>4
  <2> HIDE DEF into, w
  <2> QED
    BY <2>1, <2>6, <2>7, IsSequenceOf, RemovedIs DEF into
<1> QED
  BY <1>2, <1>3

\* The value is not one of those that are left out or changed.
LEMMA KindsChanged ==
  ASSUME NEW q, IsSequence(q), NEW kind \in OrderedKinds
  PROVE  LET r == [i \in DOMAIN q |-> IF q[i].kind = "er" THEN AffectedRows(q[i].val) ELSE q[i]]
         IN /\ IsSequence(r) /\ Len(r) = Len(q) /\ DOMAIN r = DOMAIN q
            /\ \A i \in DOMAIN q : IF q[i].kind = kind THEN r[i] = q[i] ELSE r[i].kind # kind
<1> DEFINE r == [i \in DOMAIN q |-> IF q[i].kind = "er" THEN AffectedRows(q[i].val) ELSE q[i]]
<1>1. DOMAIN q = 1..Len(q) /\ Len(q) \in Nat
  BY SequenceDomain
<1>2. DOMAIN r = 1..Len(q) /\ r = [i \in 1..Len(q) |-> r[i]]
  BY <1>1
<1>3. IsSequence(r) /\ Len(r) = Len(q)
  <2> HIDE DEF r
  <2> QED BY <1>1, <1>2, SequenceOfFunction
<1>4. kind # "er" /\ kind # "rows"
  BY DEF OrderedKinds
<1>5. \A v : AffectedRows(v).kind = "rows"
  BY DEF AffectedRows, Value
<1>6. \A i \in DOMAIN q : IF q[i].kind = kind THEN r[i] = q[i] ELSE r[i].kind # kind
  BY <1>4, <1>5
<1> QED
  BY <1>1, <1>2, <1>3, <1>6, Zenon

\* What the parts of a reply mean is what they are converted to.
LEMMA MeaningIs ==
  ASSUME NEW parts, IsSequence(parts), NEW kind \in OrderedKinds
  PROVE  /\ IsSequence(Meaning(parts))
         /\ OfKind(kind, Meaning(parts)) =
              OfKind(kind, IntoInternalReturnValues(RemoveFirstOfKind(parts, "wlr")).values)
<1> DEFINE q == IntoInternalReturnValues(RemoveFirstOfKind(parts, "wlr")).values
           r == [i \in DOMAIN q |-> IF q[i].kind = "er" THEN AffectedRows(q[i].val) ELSE q[i]]
           P == {i \in DOMAIN q : q[i].kind \notin {"pm", "wlr"}}
<1>1. IsSequence(q)
  BY RemovedIs, IntoIs
<1>2. Meaning(parts) = Kept(r, P)
  BY Zenon DEF Meaning
<1>3. kind # "pm" /\ kind # "wlr"
  BY DEF OrderedKinds
<1> HIDE DEF q
<1>4. /\ IsSequence(r) /\ Len(r) = Len(q)
      /\ \A i \in DOMAIN q : IF q[i].kind = kind THEN r[i] = q[i] ELSE r[i].kind # kind
  BY <1>1, KindsChanged
<1>5. \A i \in DOMAIN q : q[i].kind = kind => i \in P
  BY <1>3
<1> HIDE DEF r, P
<1>6. IsSequence(Kept(r, P)) /\ OfKind(kind, Kept(r, P)) = OfKind(kind, q)
  <2>1. \A i \in DOMAIN q : q[i].kind = kind => i \in P /\ r[i] = q[i]
    BY <1>4, <1>5
  <2>2. \A i \in DOMAIN q : q[i].kind # kind => i \notin P \/ r[i].kind # kind
    BY <1>4
  <2>3. Len(q) = Len(r) /\ IsSequence(r)
    BY <1>4
  <2>4. /\ IsSequence(q) /\ IsSequence(r) /\ Len(q) = Len(r)
        /\ \A i \in DOMAIN q : q[i].kind = kind => i \in P /\ r[i] = q[i]
        /\ \A i \in DOMAIN q : q[i].kind # kind => i \notin P \/ r[i].kind # kind
    BY <1>1, <2>1, <2>2, <2>3
  <2>5. IsSequence(Kept(r, P))
    BY <2>4, KeptIsSequence
  <2>6. OfKind(kind, Kept(r, P)) = OfKind(kind, q)
    BY <2>4, KindsKept
  <2> QED BY <2>5, <2>6
<1> QED
  BY <1>2, <1>6 DEF q

-----------------------------------------------------------------------------
(* Responses.                                                              *)

\* All values of this kind are kept.
LEMMA KindsLeft ==
  ASSUME NEW q, IsSequence(q), NEW P, NEW kind, \A i \in DOMAIN q : q[i].kind = kind => i \in P
  PROVE  OfKind(kind, Kept(q, P)) = OfKind(kind, q)
<1>1. /\ IsSequence(q) /\ Len(q) = Len(q)
      /\ \A i \in DOMAIN q : q[i].kind = kind => i \in P /\ q[i] = q[i]
      /\ \A i \in DOMAIN q : q[i].kind # kind => i \notin P \/ q[i].kind # kind
  OBVIOUS
<1> QED
  BY <1>1, KindsKept, SMTT(60)

\* There is one value, and it is not lost.
LEMMA SingleIs ==
  ASSUME NEW values, IsSequence(values), Single(values).ok
  PROVE  LET v == Single(values).values
         IN /\ IsSequence(v) /\ Len(v) = 1 /\ v = <<v[1]>> /\ S!Reverse(v) = v
            /\ \A kind : kind # "pm" => OfKind(kind, values) = IF v[1].kind = kind THEN v ELSE <<>>
<1> DEFINE P == {i \in DOMAIN values : values[i].kind # "pm"}
           v == Kept(values, P)
<1>1. Single(values) = IF Len(v) = 1 THEN Ok(v) ELSE Err
  BY Zenon DEF Single
<1>2. Len(v) = 1 /\ Single(values).values = v
  BY <1>1 DEF Ok, Err
<1>3. ASSUME NEW kind, kind # "pm" PROVE OfKind(kind, v) = OfKind(kind, values)
  <2>1. \A i \in DOMAIN values : values[i].kind = kind => i \in P
    BY <1>3
  <2> HIDE DEF P
  <2> QED BY <2>1, KindsLeft
<1> HIDE DEF P
<1>4. IsSequence(v)
  BY KeptIsSequence
<1> HIDE DEF v
<1>5. v = <<v[1]>> /\ S!Reverse(v) = v
  <2>1. v \in Seq(Elements(v, v))
    BY <1>4, ElementsAre
  <2> QED BY <1>2, <2>1, ReverseOne
<1>6. ASSUME NEW kind PROVE OfKind(kind, v) = IF v[1].kind = kind THEN v ELSE <<>>
  <2>1. OfKind(kind, <<v[1]>>) = IF v[1].kind = kind THEN <<v[1]>> ELSE <<>>
    BY OfKindOne
  <2> QED BY <1>5, <2>1
<1> QED
  BY <1>2, <1>3, <1>4, <1>5, <1>6

\* What is to be shown of a response.
Holds(built, values) ==
  /\ IsSequence(built.values)
  /\ ~built.ok => built.values = <<>>
  /\ built.ok =>
       /\ \A i \in DOMAIN values : values[i].kind # "wlr"
       /\ \A kind \in OrderedKinds : OfKind(kind, S!Reverse(built.values)) = OfKind(kind, values)

\* Without a response nothing is to be shown.
LEMMA ErrHolds == \A values : Holds(Err, values)
BY IsSequenceEmpty DEF Holds, Err

\* A response of one value, whether it is a result set or was made of results.
LEMMA SingleHolds ==
  ASSUME NEW values, IsSequence(values), Single(values).ok, NEW x,
         LET v == Single(values).values
         IN \/ v[1].kind = "rs" /\ x = v[1]
            \/ v[1].kind = "er" /\ x.kind \notin OrderedKinds
  PROVE  Holds(Ok(<<x>>), values)
<1> DEFINE v == Single(values).values
<1>1. /\ IsSequence(v) /\ Len(v) = 1 /\ v = <<v[1]>> /\ S!Reverse(v) = v
      /\ \A kind : kind # "pm" => OfKind(kind, values) = IF v[1].kind = kind THEN v ELSE <<>>
  BY SingleIs
<1>2. \/ v[1].kind = "rs" /\ x = v[1]
      \/ v[1].kind = "er" /\ x.kind \notin OrderedKinds
  OBVIOUS
<1> HIDE DEF v
<1>3. <<x>> \in Seq({x}) /\ Len(<<x>>) = 1
  OBVIOUS
<1>4. IsSequence(<<x>>) /\ S!Reverse(<<x>>) = <<x>>
  BY <1>3, IsSequenceOf, ReverseOne
<1>5. OfKind("wlr", values) = <<>>
  BY <1>1, <1>2
<1>6. \A i \in DOMAIN values : values[i].kind # "wlr"
  BY <1>5, KindsNone
<1>7. ASSUME NEW kind \in OrderedKinds PROVE OfKind(kind, S!Reverse(<<x>>)) = OfKind(kind, values)
  <2>1. OfKind(kind, <<x>>) = IF x.kind = kind THEN <<x>> ELSE <<>>
    BY OfKindOne
  <2>2. kind # "pm" /\ kind # "er"
    BY DEF OrderedKinds
  <2>3. OfKind(kind, values) = IF v[1].kind = kind THEN v ELSE <<>>
    BY <1>1, <2>2
  <2>4. CASE v[1].kind = "rs" /\ x = v[1]
    <3>1. <<x>> = v
      BY <1>1, <2>4
    <3> QED BY <1>4, <2>1, <2>3, <2>4, <3>1
  <2>5. CASE v[1].kind = "er" /\ x.kind \notin OrderedKinds
    BY <1>4, <2>1, <2>2, <2>3, <2>5
  <2> QED BY <1>2, <2>4, <2>5
<1>8. Ok(<<x>>).ok /\ Ok(<<x>>).values = <<x>>
  BY DEF Ok
<1> QED
  BY <1>4, <1>6, <1>7, <1>8 DEF Holds

\* A response of all values, in the opposite order.
LEMMA ManyHold ==
  ASSUME NEW values, IsSequence(values)
  PROVE  Holds(MultipleReturnValues(values), values)
<1> DEFINE bad == \E i \in DOMAIN values :
                    values[i].kind = "wlr" \/ (values[i].kind = "er" /\ HasFailure(values[i].val))
           a == S!Reverse(values)
           P == {i \in DOMAIN a : a[i].kind # "pm"}
           v == Kept(a, P)
           m == [i \in DOMAIN v |-> IF v[i].kind = "er" THEN AffectedRows(v[i].val) ELSE v[i]]
<1>1. MultipleReturnValues(values) = IF bad THEN Err ELSE Ok(m)
  BY Zenon DEF MultipleReturnValues, Arranged
<1>2. CASE bad
  BY <1>1, <1>2, ErrHolds
<1>3. CASE ~bad
  <2>1. \A i \in DOMAIN values : values[i].kind # "wlr"
    BY <1>3
  <2>2. IsSequence(a)
    BY KindsReversed
  <2>3. ASSUME NEW kind \in OrderedKinds PROVE OfKind(kind, v) = OfKind(kind, a)
    <3> HIDE DEF a
    <3>1. kind # "pm"
      BY DEF OrderedKinds
    <3>2. \A i \in DOMAIN a : a[i].kind = kind => i \in P
      BY <3>1
    <3> HIDE DEF P
    <3> QED BY <2>2, <3>2, KindsLeft
  <2>4. IsSequence(v)
    <3> HIDE DEF a, P
    <3> QED BY <2>2, KeptIsSequence
  <2> HIDE DEF v
  <2>5. /\ IsSequence(m) /\ Len(m) = Len(v) /\ DOMAIN m = DOMAIN v
        /\ \A kind \in OrderedKinds : \A i \in DOMAIN v : IF v[i].kind = kind THEN m[i] = v[i] ELSE m[i].kind # kind
    <3>1. \E k : k \in OrderedKinds
      BY DEF OrderedKinds
    <3> QED BY <2>4, <3>1, KindsChanged
  <2> HIDE DEF m
  <2>6. ASSUME NEW kind \in OrderedKinds PROVE OfKind(kind, m) = OfKind(kind, v)
    <3>1. /\ \A i \in DOMAIN v : v[i].kind = kind => i \in DOMAIN m /\ m[i] = v[i]
          /\ \A i \in DOMAIN v : v[i].kind # kind => i \notin DOMAIN m \/ m[i].kind # kind
      BY <2>5
    <3>2. Kept(m, DOMAIN m) = m
      BY <2>5, KeptIsSequence
    <3>3. OfKind(kind, Kept(m, DOMAIN m)) = OfKind(kind, v)
      BY <2>4, <2>5, <3>1, KindsKept
    <3> QED BY <3>2, <3>3
  <2>7. ASSUME NEW kind \in OrderedKinds PROVE OfKind(kind, S!Reverse(m)) = OfKind(kind, values)
    <3>1. OfKind(kind, m) = OfKind(kind, a)
      BY <2>3, <2>6
    <3>2. OfKind(kind, a) = S!Reverse(OfKind(kind, values)) /\ S!Reverse(S!Reverse(OfKind(kind, values))) = OfKind(kind, values)
      BY KindsReversed
    <3>3. OfKind(kind, S!Reverse(m)) = S!Reverse(OfKind(kind, m))
      BY <2>5, KindsReversed
    <3> HIDE DEF a
    <3> QED BY <3>1, <3>2, <3>3
  <2>8. MultipleReturnValues(values).ok /\ MultipleReturnValues(values).values = m
    BY <1>1, <1>3 DEF Ok
  <2> QED BY <2>1, <2>5, <2>7, <2>8 DEF Holds
<1> QED
  BY <1>2, <1>3

\* A response of each type.
LEMMA ResponseIs ==
  ASSUME NEW values, IsSequence(values), NEW type
  PROVE  Holds(HdbResponse(values, type), values)
<1> DEFINE s == Single(values)
<1>1. Holds(ResultsetResponse(values), values)
  <2>1. ResultsetResponse(values) = IF s.ok /\ s.values[1].kind = "rs" THEN s ELSE Err
    BY Zenon DEF ResultsetResponse
  <2>2. CASE s.ok /\ s.values[1].kind = "rs"
    <3>1. Holds(Ok(<<s.values[1]>>), values)
      BY <2>2, SingleHolds
    <3>2. s.values = <<s.values[1]>>
      BY <2>2, SingleIs
    <3>3. s = Ok(s.values)
      BY <2>2 DEF Single, Ok, Err
    <3> HIDE DEF s
    <3>4. s = Ok(<<s.values[1]>>)
      BY <3>2, <3>3, Zenon
    <3> QED BY <2>1, <2>2, <3>1, <3>4
  <2> QED BY <2>1, <2>2, ErrHolds
<1>2. Holds(RowsAffectedResponse(values), values)
  <2> DEFINE x == AffectedRows(s.values[1].val)
             fits == s.ok /\ s.values[1].kind = "er" /\ ~HasFailure(s.values[1].val)
  <2>1. RowsAffectedResponse(values) = IF fits THEN Ok(<<x>>) ELSE Err
    BY Zenon DEF RowsAffectedResponse
  <2>2. x.kind \notin OrderedKinds
    BY DEF AffectedRows, Value, OrderedKinds
  <2>3. CASE fits
    <3>1. s.ok /\ s.values[1].kind = "er"
      BY <2>3
    <3> HIDE DEF x
    <3>2. Holds(Ok(<<x>>), values)
      BY <2>2, <3>1, SingleHolds
    <3> QED BY <2>1, <2>3, <3>2
  <2> QED BY <2>1, <2>3, ErrHolds
<1>3. Holds(SuccessResponse(values), values)
  <2> DEFINE x == Value("success", 0)
             fits == /\ s.ok /\ s.values[1].kind = "er" /\ Len(s.values[1].val) = 1
                     /\ s.values[1].val[1] \in {0, SuccessNoInfo}
  <2>1. SuccessResponse(values) = IF fits THEN Ok(<<x>>) ELSE Err
    BY Zenon DEF SuccessResponse
  <2>2. x.kind \notin OrderedKinds
    BY DEF Value, OrderedKinds
  <2>3. CASE fits
    <3>1. s.ok /\ s.values[1].kind = "er"
      BY <2>3
    <3> HIDE DEF x
    <3>2. Holds(Ok(<<x>>), values)
      BY <2>2, <3>1, SingleHolds
    <3> QED BY <2>1, <2>3, <3>2
  <2> QED BY <2>1, <2>3, ErrHolds
<1>4. Holds(MultipleReturnValues(values), values)
  BY ManyHold
<1>5. HdbResponse(values, type) \in {ResultsetResponse(values), SuccessResponse(values),
                                    RowsAffectedResponse(values), MultipleReturnValues(values), Err}
  BY Zenon DEF HdbResponse
<1> QED
  BY <1>1, <1>2, <1>3, <1>4, <1>5, ErrHolds

-----------------------------------------------------------------------------
(* What is taken out of a response.                                        *)

\* The last value of a kind is taken out.
LEMMA LastIsOut ==
  ASSUME NEW T, NEW kind, NEW q \in Seq(T), NEW i \in 1..Len(q), q[i].kind = kind,
         \A j \in (i + 1)..Len(q) : q[j].kind # kind
  PROVE  OfKind(kind, q) = Append(OfKind(kind, Kept(q, DOMAIN q \ {i})), q[i])
<1> DEFINE Last(u, k) == u[k].kind = kind /\ \A j \in (k + 1)..Len(u) : u[j].kind # kind
           IsOut(u, k) == OfKind(kind, u) = Append(OfKind(kind, Kept(u, 1..Len(u) \ {k})), u[k])
           Q == {u \in Seq(T) : \A k \in 1..Len(u) : Last(u, k) => IsOut(u, k)}
<1>1. <<>> \in Q
  OBVIOUS
<1>2. ASSUME NEW u \in Seq(T), NEW x \in T, u \in Q PROVE Append(u, x) \in Q
  <2> DEFINE w == Append(u, x)
             n == Len(u)
  <2>1. /\ n \in Nat /\ w \in Seq(T) /\ Len(w) = n + 1 /\ w[n + 1] = x /\ \A k \in 1..n : w[k] = u[k]
        /\ DOMAIN u = 1..n
    OBVIOUS
  <2>2. OfKind(kind, w) = IF x.kind = kind THEN Append(OfKind(kind, u), x) ELSE OfKind(kind, u)
    BY OfKindAppend
  <2>3. \A P : Kept(w, P) = IF n + 1 \in P THEN Append(Kept(u, P), x) ELSE Kept(u, P)
    BY KeptAppend
  <2> SUFFICES \A k \in 1..Len(w) : Last(w, k) => IsOut(w, k)
    BY <2>1
  <2> HIDE DEF w, n
  <2> SUFFICES ASSUME NEW k \in 1..(n + 1), Last(w, k) PROVE IsOut(w, k)
    BY <2>1
  <2> DEFINE P == 1..Len(w) \ {k}
  <2>4. CASE k = n + 1
    <3>1. x.kind = kind /\ w[k] = x /\ n + 1 \notin P
      BY <2>1, <2>4
    <3>2. DOMAIN u \subseteq P
      BY <2>1, <2>4
    <3> HIDE DEF P
    <3>3. Kept(w, P) = u
      BY <2>3, <3>1, <3>2, KeptAll
    <3> QED BY <2>2, <3>1, <3>3 DEF P
  <2>5. CASE k \in 1..n
    <3>1. n + 1 \in (k + 1)..Len(w) /\ n + 1 \in P /\ w[k] = u[k]
      BY <2>1, <2>5
    <3>2. x.kind # kind
      BY <2>1, <3>1
    <3>3. Last(u, k)
      <4>1. \A j \in (k + 1)..n : j \in (k + 1)..Len(w) /\ w[j] = u[j]
        BY <2>1, <2>5
      <4> QED BY <3>1, <4>1 DEF n
    <3>4. IsOut(u, k)
      BY <1>2, <2>5, <3>3 DEF n
    <3>5. Kept(u, P) = Kept(u, 1..Len(u) \ {k})
      <4>1. \A j \in DOMAIN u : j \in P <=> j \in 1..Len(u) \ {k}
        BY <2>1, <2>5 DEF n
      <4> HIDE DEF P
      <4> QED BY <4>1, KeptSame
    <3> DEFINE a == Kept(u, P)
    <3>6. a \in Seq(T)
      BY KeptType
    <3> HIDE DEF P
    <3>7. Kept(w, P) = Append(a, x)
      BY <2>3, <3>1
    <3>8. OfKind(kind, Append(a, x)) = OfKind(kind, a)
      <4> HIDE DEF a
      <4> QED BY <3>2, <3>6, OfKindAppend
    <3>9. OfKind(kind, w) = Append(OfKind(kind, a), w[k])
      BY <2>2, <3>1, <3>2, <3>4, <3>5
    <3> HIDE DEF a
    <3> QED BY <3>7, <3>8, <3>9 DEF P
  <2>6. k \in 1..n \/ k = n + 1
    BY <2>1
  <2> QED BY <2>4, <2>5, <2>6
<1>3. Seq(T) \subseteq Q
  <2> HIDE DEF Q
  <2> QED BY <1>1, <1>2, AllSequences
<1>4. DOMAIN q = 1..Len(q)
  BY LenProperties
<1> QED
  BY <1>3, <1>4

\* The value that is found is the last of its kind.
LEMMA FoundIs ==
  ASSUME NEW values, IsSequence(values), NEW wanted, NEW kind \in OrderedKinds,
         NEW i, i = Find(values, wanted), i # 0, values[i].kind = kind
  PROVE  /\ i \in 1..Len(values)
         /\ \A j \in (i + 1)..Len(values) : values[j].kind # kind
<1> DEFINE fits == {j \in DOMAIN values :
                      IF wanted = "success" THEN IsSuccess(values[j]) ELSE values[j].kind = wanted}
<1>1. Find(values, wanted) = IF fits = {} THEN 0 ELSE CHOOSE k \in fits : \A j \in fits : j <= k
  BY Zenon DEF Find
<1>2. DOMAIN values = 1..Len(values) /\ Len(values) \in Nat
  BY SequenceDomain
<1>3. fits \subseteq 1..Len(values) /\ fits # {}
  BY <1>1, <1>2
<1>4. i \in fits /\ \A j \in fits : j <= i
  <2> HIDE DEF fits
  <2>1. \E k \in fits : \A j \in fits : j <= k
    BY <1>2, <1>3, GreatestOf
  <2>2. i = CHOOSE k \in fits : \A j \in fits : j <= k
    BY <1>1, <1>3
  <2> QED BY <2>1, <2>2, Zenon
<1>5. wanted = kind /\ wanted # "success"
  <2>1. kind # "success" /\ kind # "rows"
    BY DEF OrderedKinds
  <2> QED BY <1>4, <2>1 DEF IsSuccess
<1>6. ASSUME NEW j \in (i + 1)..Len(values) PROVE values[j].kind # kind
  <2>1. i \in 1..Len(values)
    BY <1>3, <1>4
  <2>2. j \in 1..Len(values) /\ ~(j <= i)
    BY <1>2, <2>1
  <2>3. j \notin fits
    BY <1>4, <2>2
  <2> QED BY <1>2, <1>5, <2>2, <2>3
<1> QED
  BY <1>3, <1>4, <1>6

\* What was taken before, with this value, and the rest are what there was.
LEMMA GetIs ==
  ASSUME NEW values, IsSequence(values), NEW wanted, NEW taken, taken = Get(values, wanted),
         taken.ok, NEW before, IsSequence(before), NEW kind \in OrderedKinds
  PROVE  /\ IsSequence(taken.rest)
         /\ OfKind(kind, Append(before, taken.value)) \o OfKind(kind, S!Reverse(taken.rest)) =
              OfKind(kind, before) \o OfKind(kind, S!Reverse(values))
<1> DEFINE i == Find(values, wanted)
           P == DOMAIN values \ {i}
           rest == Kept(values, P)
           v == values[i]
<1>1. taken = IF i = 0 THEN [ok |-> FALSE, value |-> Value("none", 0), rest |-> values]
              ELSE [ok |-> TRUE, value |-> v, rest |-> rest]
  BY Zenon DEF Get
<1>2. i # 0 /\ taken.value = v /\ taken.rest = rest
  BY <1>1
<1>3. IsSequence(rest) /\ \A j \in DOMAIN values : j # i => j \in P
  BY KeptIsSequence
<1> DEFINE T == Elements(values, before) \cup {v}
<1>4. values \in Seq(T) /\ before \in Seq(T) /\ v \in T
  <2>1. \A j \in DOMAIN values : values[j] \in T
    BY DEF Elements
  <2>2. \A j \in DOMAIN before : before[j] \in T
    BY DEF Elements
  <2> HIDE DEF T, v
  <2>3. v \in T
    BY DEF T
  <2> QED BY <2>1, <2>2, <2>3, SequenceOver
<1>5. rest \in Seq(T)
  <2> HIDE DEF T, P, v
  <2> QED BY <1>4, KeptType
<1> HIDE DEF T
<1> DEFINE a == OfKind(kind, before)
           b == OfKind(kind, rest)
<1>6. a \in Seq(T) /\ b \in Seq(T) /\ S!Reverse(b) \in Seq(T)
  <2> HIDE DEF rest
  <2> QED BY <1>4, <1>5, OfKindType, ReverseIs
<1>7. /\ OfKind(kind, S!Reverse(rest)) = S!Reverse(b)
      /\ OfKind(kind, S!Reverse(values)) = S!Reverse(OfKind(kind, values))
  <2> HIDE DEF rest
  <2> QED BY <1>4, <1>5, OfKindReverse
<1>8. OfKind(kind, Append(before, v)) = IF v.kind = kind THEN Append(a, v) ELSE a
  <2> HIDE DEF v
  <2> QED BY <1>4, OfKindAppend
<1>9. CASE v.kind # kind
  <2>1. \A j \in DOMAIN values : values[j].kind = kind => j \in P
    BY <1>3, <1>9
  <2> HIDE DEF P, v
  <2>2. b = OfKind(kind, values)
    BY <2>1, KindsLeft
  <2>3. /\ OfKind(kind, Append(before, v)) = OfKind(kind, before)
        /\ OfKind(kind, S!Reverse(rest)) = OfKind(kind, S!Reverse(values))
    BY <1>7, <1>8, <1>9, <2>2
  <2> HIDE DEF rest
  <2> QED BY <1>2, <1>3, <2>3
<1>10. CASE v.kind = kind
  <2>1. i \in 1..Len(values) /\ \A j \in (i + 1)..Len(values) : values[j].kind # kind
    <3> HIDE DEF i
    <3> QED BY <1>2, <1>10, FoundIs DEF i
  <2>2. OfKind(kind, values) = Append(b, v)
    <3> HIDE DEF i
    <3> QED BY <1>4, <1>10, <2>1, LastIsOut
  <2> HIDE DEF rest, b, a, v, P
  <2>3. Append(b, v) = b \o <<v>> /\ <<v>> \in Seq(T) /\ Len(<<v>>) = 1 /\ Append(a, v) = a \o <<v>>
    BY <1>4, <1>6, AppendIsConcat
  <2> DEFINE z == <<v>>
             c == S!Reverse(b)
  <2>4. z \in Seq(T) /\ S!Reverse(z) = z
    BY <2>3, ReverseOne
  <2> HIDE DEF z
  <2>5. S!Reverse(b \o z) = z \o c
    BY <1>6, <2>4, ReverseConcat
  <2> HIDE DEF c
  <2>6. (a \o z) \o c = a \o (z \o c)
    BY <1>6, <2>4, ConcatAssociative, SMTT(60) DEF c
  <2>7. OfKind(kind, S!Reverse(values)) = z \o c
    BY <1>7, <2>2, <2>3, <2>5 DEF z
  <2>8. OfKind(kind, Append(before, v)) = a \o z
    BY <1>8, <1>10, <2>3 DEF z
  <2> QED BY <1>2, <1>3, <1>7, <2>6, <2>7, <2>8 DEF c, a
<1> QED
  BY <1>9, <1>10

-----------------------------------------------------------------------------
(* The steps and the results.                                              *)

\* What ResultsInv speaks of.
resultVars == <<streaming, todo, irvs, st, srvValues, program>>

\* Values that are in the order in which they were sent.
InOrder(values, sent) == \A kind \in OrderedKinds : OfKind(kind, values) = OfKind(kind, sent)

\* A step that touches none of it.
LEMMA ResultsKept ==
  ASSUME ResultsInv, UNCHANGED resultVars, streaming => handle' = handle
  PROVE  ResultsInv'
<1>1. /\ streaming' = streaming /\ todo' = todo /\ irvs' = irvs /\ st' = st
      /\ srvValues' = srvValues /\ result' = result /\ response' = response /\ got' = got
  BY DEF resultVars, program
<1>2. IrvsInv'
  BY <1>1 DEF ResultsInv, IrvsInv, IsProcedure
<1>3. ResponseInv'
  BY <1>1 DEF ResultsInv, ResponseInv
<1>4. ResultsInOrder'
  BY <1>1 DEF ResultsInv, ResultsInOrder
<1> QED
  BY <1>2, <1>3, <1>4 DEF ResultsInv

\* A call that has no response ends.
LEMMA NoResponse ==
  ASSUME NotStreaming, response' = <<>>, result'.kind \in {"err", "results"},
         IsSequence(srvValues'), IsSequence(got')
  PROVE  ResultsInv'
<1>1. streaming' = FALSE /\ irvs' = <<>>
  BY DEF NotStreaming
<1>2. IrvsInv'
  BY <1>1 DEF IrvsInv
<1>3. ResponseInv'
  BY <1>1, IsSequenceEmpty DEF ResponseInv
<1>4. ResultsInOrder'
  BY DEF ResultsInOrder
<1> QED
  BY <1>2, <1>3, <1>4 DEF ResultsInv

\* A call ends with an error.
LEMMA FailReplies ==
  ASSUME NEW reason, Fail(reason), IsSequence(srvValues'), IsSequence(got')
  PROVE  ResultsInv'
<1>1. NotStreaming /\ response' = <<>> /\ result'.kind = "err"
  BY DEF Fail, Result
<1> QED
  BY <1>1, NoResponse

\* A call ends with a response.
LEMMA RespondReplies ==
  ASSUME NEW values, IsSequence(values), NEW type, Respond(values, type),
         IsSequence(srvValues'), got' = <<>>,
         (\A i \in DOMAIN values : values[i].kind # "wlr") => InOrder(values, srvValues')
  PROVE  ResultsInv'
<1> DEFINE built == HdbResponse(values, type)
<1>1. /\ result' = Result(IF built.ok THEN "ok" ELSE "err", "response")
      /\ response' = built.values /\ NotStreaming
  BY Zenon DEF Respond
<1>2. Holds(built, values)
  BY ResponseIs
<1> HIDE DEF built
<1>3. result'.kind = IF built.ok THEN "ok" ELSE "err"
  BY <1>1 DEF Result
<1>4. CASE ~built.ok
  BY <1>1, <1>2, <1>3, <1>4, NoResponse, IsSequenceEmpty DEF Holds
<1>5. CASE built.ok
  <2>1. streaming' = FALSE /\ irvs' = <<>>
    BY <1>1 DEF NotStreaming
  <2>2. IrvsInv'
    BY <2>1 DEF IrvsInv
  <2>3. IsSequence(response')
    BY <1>1, <1>2 DEF Holds
  <2>4. ResponseInv'
    BY <1>3, <1>5, <2>1, <2>3, IsSequenceEmpty DEF ResponseInv
  <2>5. \A kind \in OrderedKinds : OfKind(kind, S!Reverse(response')) = OfKind(kind, srvValues')
    BY <1>1, <1>2, <1>5 DEF Holds, InOrder
  <2>6. \A kind \in OrderedKinds :
          OfKind(kind, got') \o OfKind(kind, S!Reverse(response')) = OfKind(kind, srvValues')
    <3> SUFFICES ASSUME NEW kind \in OrderedKinds
                 PROVE  OfKind(kind, got') \o OfKind(kind, S!Reverse(response')) = OfKind(kind, srvValues')
      OBVIOUS
    <3>1. OfKind(kind, got') = <<>>
      BY OfKindEmpty
    <3>2. IsSequence(OfKind(kind, srvValues'))
      BY KindsJoined
    <3>3. <<>> \o OfKind(kind, srvValues') = OfKind(kind, srvValues')
      BY <3>2, ConcatEmptySeq DEF IsSequence
    <3> QED BY <2>5, <3>1, <3>3
  <2>7. ResultsInOrder'
    BY <2>6 DEF ResultsInOrder, OrderedKinds
  <2> QED BY <2>2, <2>4, <2>7 DEF ResultsInv
<1> QED
  BY <1>4, <1>5

-----------------------------------------------------------------------------
(* Replies to requests with rows.                                          *)

\* The parts of the replies are sequences.
LEMMA PartsAre ==
  ASSUME st \in Statements
  PROVE  /\ IsSequence(st.parts) /\ IsSequence(<<Value("wlr", 0)>>)
         /\ IsSequence(<<Value("wlr", 0)>> \o st.parts)
<1>1. IsSequence(st.parts)
  BY ConstantsAssumption DEF IsSequence
<1> DEFINE x == Value("wlr", 0)
<1> HIDE DEF x
<1>2. <<x>> \in Seq({x})
  OBVIOUS
<1>3. IsSequence(<<x>>)
  BY <1>2, IsSequenceOf
<1>4. IsSequence(<<x>> \o st.parts)
  BY <1>1, <1>3, SequenceExtended
<1> QED
  BY <1>1, <1>3, <1>4 DEF x

\* Rows were sent: the results that come back are those that the program gets.
LEMMA RowsReply ==
  ASSUME st \in Statements, NEW rows, ExecuteParameterRows(rows)
  PROVE  ResultsInv'
<1> DEFINE wantsLobs == \E i \in DOMAIN rows : LobPositions(rows[i]) # {}
           parts == IF wantsLobs THEN <<Value("wlr", 0)>> ELSE st.parts
           values == IntoInternalReturnValues(parts)
<1>1. PICK outcome \in (IF \A i \in DOMAIN rows : Fits(rows[i]) THEN Outcomes ELSE {"error"}),
           results \in [DOMAIN rows -> {1, ExecFailure}] :
        /\ srvValues' = IF outcome = "ok" /\ ~HasFailure(results) THEN Meaning(parts) ELSE <<>>
        /\ CASE outcome # "ok" -> Fail("roundtrip")
             [] outcome = "ok" /\ HasFailure(results) ->
                  /\ result' = Result("results", MixErrors(results, ErrorsOf(rows, results)))
                  /\ response' = <<>> /\ NotStreaming
             [] outcome = "ok" /\ ~HasFailure(results) /\ ~values.ok -> Fail("parts")
             [] OTHER -> Respond(values.values, st.type)
        /\ got' = <<>>
  BY Zenon DEF ExecuteParameterRows
<1>2. IsSequence(parts)
  BY PartsAre
<1> HIDE DEF parts
<1>3. IsSequence(Meaning(parts))
  <2>1. \E k : k \in OrderedKinds
    BY DEF OrderedKinds
  <2> QED BY <1>2, <2>1, MeaningIs
<1>4. IsSequence(srvValues') /\ IsSequence(got') /\ got' = <<>>
  BY <1>1, <1>3, IsSequenceEmpty
<1>5. CASE Fail("roundtrip") \/ Fail("parts")
  BY <1>4, <1>5, FailReplies
<1>6. CASE result' = Result("results", MixErrors(results, ErrorsOf(rows, results))) /\ response' = <<>> /\ NotStreaming
  <2>1. result'.kind = "results"
    BY <1>6 DEF Result
  <2> QED BY <1>4, <1>6, <2>1, NoResponse
<1>7. CASE outcome = "ok" /\ ~HasFailure(results) /\ values.ok /\ Respond(values.values, st.type)
  <2>1. srvValues' = Meaning(parts)
    BY <1>1, <1>7
  <2>2. /\ IsSequence(values.values)
        /\ (\A i \in DOMAIN values.values : values.values[i].kind # "wlr") =>
             RemoveFirstOfKind(parts, "wlr") = parts
    BY <1>2, <1>7, IntoIs
  <2>3. RemoveFirstOfKind(parts, "wlr") = parts => InOrder(values.values, srvValues')
    BY <1>2, <2>1, MeaningIs DEF InOrder
  <2> HIDE DEF values
  <2> QED BY <1>4, <1>7, <2>2, <2>3, RespondReplies
<1> QED
  BY <1>1, <1>5, <1>6, <1>7

\* There are no values without parts.
LEMMA IntoNothing == IntoInternalReturnValues(<<>>).values = <<>>
<1> DEFINE q == <<>>
           bad == \E i \in DOMAIN q : \/ q[i].kind = "closing"
                                      \/ q[i].kind = "md" /\ ~MetadataHasId(q, i)
           w == [i \in DOMAIN q |-> InternalReturnValue(q, i)]
<1>1. IntoInternalReturnValues(q) = IF bad THEN Err ELSE Ok(S!FlattenSeq(w))
  BY Zenon DEF IntoInternalReturnValues
<1>2. w = <<>>
  <2>1. DOMAIN q = {}
    OBVIOUS
  <2> HIDE DEF q
  <2> QED BY <2>1
<1> HIDE DEF w
<1> QED
  BY <1>1, <1>2, FlatEmpty DEF Err, Ok

\* The main request of a row with LOBs was sent.
LEMMA MainReplies ==
  ASSUME st \in Statements, handle = "alive", handle' = handle, st' = st, got' = <<>>,
         NEW row, NEW values, NEW readers, ExecuteMain(row, values, readers)
  PROVE  ResultsInv'
<1> DEFINE x == Value("wlr", 0)
           parts == IF IsProcedure THEN <<x>> ELSE <<x>> \o st.parts
           main == IntoInternalReturnValues(RemoveFirstOfKind(parts, "wlr"))
<1>1. PICK outcome \in (IF Fits(row) THEN Outcomes ELSE {"error"}) :
        /\ srvValues' = IF outcome = "ok" THEN Meaning(parts) ELSE <<>>
        /\ IF outcome # "ok" \/ ~main.ok \/ readers # LobPositions(row)
           THEN Fail("main")
           ELSE /\ streaming' = TRUE
                /\ irvs' = main.values
                /\ result' = Result("none", 0) /\ response' = <<>>
  BY Zenon DEF ExecuteMain
<1>2. IsSequence(parts)
  <2> HIDE DEF x
  <2> QED BY PartsAre DEF x
<1>3. IsProcedure => main.values = <<>>
  BY OnlyLobs, IntoNothing
<1> HIDE DEF parts
<1>4. /\ IsSequence(Meaning(parts))
      /\ \A kind \in OrderedKinds : OfKind(kind, Meaning(parts)) = OfKind(kind, main.values)
  <2>1. \E k : k \in OrderedKinds
    BY DEF OrderedKinds
  <2> QED BY <1>2, <2>1, MeaningIs
<1>5. IsSequence(main.values)
  BY <1>2, RemovedIs, IntoIs
<1> HIDE DEF main
<1>6. IsSequence(srvValues') /\ IsSequence(got')
  BY <1>1, <1>4, IsSequenceEmpty
<1>7. CASE Fail("main")
  BY <1>6, <1>7, FailReplies
<1>8. CASE /\ outcome = "ok" /\ streaming' = TRUE /\ irvs' = main.values
           /\ result' = Result("none", 0) /\ response' = <<>>
  <2>1. srvValues' = Meaning(parts) /\ result'.kind = "none"
    BY <1>1, <1>8 DEF Result
  <2>2. IsProcedure' = IsProcedure
    BY DEF IsProcedure
  <2>3. \A kind \in OrderedKinds :
          /\ OfKind(kind, irvs') = OfKind(kind, srvValues')
          /\ IsProcedure' => OfKind(kind, irvs') = <<>>
    BY <1>3, <1>4, <1>8, <2>1, <2>2, OfKindEmpty
  <2>4. IrvsInv'
    BY <2>1, <2>3 DEF IrvsInv
  <2>5. ResponseInv'
    BY <1>5, <1>6, <1>8, <2>1, IsSequenceEmpty DEF ResponseInv
  <2>6. ResultsInOrder'
    BY <2>1 DEF ResultsInOrder
  <2> QED BY <2>4, <2>5, <2>6 DEF ResultsInv
<1> QED
  BY <1>1, <1>7, <1>8

-----------------------------------------------------------------------------
(* Replies to chunks.                                                      *)

\* All other LOBs are complete: this one is the last to be written.
LEMMA LastLob ==
  ASSUME StatementInv, writer.open, \A k \in DOMAIN lobs \ {todo[1].locator} : lobs[k].done
  PROVE  Tail(todo) = <<>>
<1>1. /\ streaming /\ todo # <<>> /\ IsSequence(todo)
      /\ \A k \in DOMAIN todo : todo[k].locator \in DOMAIN lobs /\ ~lobs[todo[k].locator].done
      /\ \A j, k \in DOMAIN todo : j # k => todo[j].locator # todo[k].locator
  BY DEF StatementInv, StreamInv, SequenceTypes
<1>2. /\ IsSequence(Tail(todo)) /\ 1 \in DOMAIN todo
      /\ \A k \in DOMAIN Tail(todo) : k \in Nat \ {0} /\ k + 1 \in DOMAIN todo
  BY <1>1, SequenceTail
<1>3. SUFFICES ASSUME Tail(todo) # <<>> PROVE FALSE
  OBVIOUS
<1>4. 1 \in DOMAIN Tail(todo)
  BY <1>2, <1>3, SequenceTail
<1>5. 2 \in DOMAIN todo
  BY <1>2, <1>4
<1>6. todo[2].locator \in DOMAIN lobs \ {todo[1].locator} /\ ~lobs[todo[2].locator].done
  BY <1>1, <1>2, <1>5
<1> QED
  BY <1>6

\* A chunk was sent: with the last one, the results of a procedure come back.
LEMMA ChunkReplies ==
  ASSUME StatementInv, ResultsInv, writer.open, NEW data, NEW last \in BOOLEAN, NEW outcome,
         NEW after, SendChunk(data, last, outcome, after), UNCHANGED <<handle, st, got>>
  PROVE  ResultsInv'
<1> DEFINE results == last /\ IsProcedure /\ \A k \in DOMAIN lobs \ {todo[1].locator} : lobs[k].done
           values == IntoInternalReturnValues(RemoveFirstOfKind(st.parts, "wlr"))
           m == Meaning(st.parts)
<1>1. /\ srvValues' = IF results THEN m ELSE srvValues
      /\ IF outcome \notin {"ok", "closing"} \/ (results /\ ~values.ok) THEN Fail("chunk")
         ELSE /\ todo' = IF last THEN Tail(todo) ELSE todo
              /\ irvs' = IF results THEN irvs \o values.values ELSE irvs
              /\ UNCHANGED <<streaming, result, response>>
  BY Zenon DEF SendChunk
<1>2. /\ streaming /\ todo # <<>> /\ st \in Statements
      /\ handle = "alive" /\ result.kind = "none" /\ got = <<>>
      /\ \A kind \in OrderedKinds :
           /\ OfKind(kind, irvs) = OfKind(kind, srvValues)
           /\ IsProcedure => OfKind(kind, irvs) = <<>>
  BY DEF ResultsInv, IrvsInv, StatementInv, StreamInv, SequenceTypes
<1>3. IsSequence(irvs) /\ IsSequence(srvValues) /\ IsSequence(response) /\ IsSequence(got) /\ response = <<>>
  BY <1>2 DEF ResultsInv, ResponseInv
<1>4. IsSequence(st.parts)
  BY <1>2, PartsAre
<1>5. /\ IsSequence(m)
      /\ \A kind \in OrderedKinds : OfKind(kind, m) = OfKind(kind, values.values)
  <2>1. \E k : k \in OrderedKinds
    BY DEF OrderedKinds
  <2> QED BY <1>4, <2>1, MeaningIs
<1>6. IsSequence(values.values)
  BY <1>4, RemovedIs, IntoIs
<1>7. results => Tail(todo) = <<>> /\ IsProcedure /\ last
  BY LastLob
<1> HIDE DEF values, m, results
<1>8. IsSequence(srvValues') /\ IsSequence(got')
  BY <1>1, <1>3, <1>5
<1>9. CASE Fail("chunk")
  BY <1>8, <1>9, FailReplies
<1>10. CASE /\ todo' = IF last THEN Tail(todo) ELSE todo
            /\ irvs' = IF results THEN irvs \o values.values ELSE irvs
            /\ UNCHANGED <<streaming, result, response>>
  <2>1. IsProcedure' = IsProcedure
    BY DEF IsProcedure
  <2>2. IsSequence(irvs') /\ result'.kind = "none" /\ got' = <<>> /\ response' = <<>> /\ handle' = "alive"
    <3>1. IsSequence(irvs \o values.values)
      BY <1>3, <1>6, SequenceExtended
    <3> QED BY <1>2, <1>3, <1>10, <3>1
  <2>3. ASSUME NEW kind \in OrderedKinds
        PROVE  /\ OfKind(kind, irvs') = OfKind(kind, srvValues')
               /\ IsProcedure' /\ todo' # <<>> => OfKind(kind, irvs') = <<>>
    <3>1. CASE results
      <4>1. todo' = <<>> /\ irvs' = irvs \o values.values /\ srvValues' = m
        BY <1>1, <1>7, <1>10, <3>1
      <4>2. OfKind(kind, irvs \o values.values) = OfKind(kind, irvs) \o OfKind(kind, values.values)
        BY <1>3, <1>6, KindsJoined
      <4>3. OfKind(kind, irvs) = <<>>
        BY <1>2, <1>7, <3>1
      <4>4. IsSequence(OfKind(kind, values.values))
        BY <1>6, KindsJoined
      <4>5. <<>> \o OfKind(kind, values.values) = OfKind(kind, values.values)
        BY <4>4, ConcatEmptySeq DEF IsSequence
      <4> QED BY <1>5, <4>1, <4>2, <4>3, <4>5
    <3>2. CASE ~results
      <4>1. irvs' = irvs /\ srvValues' = srvValues
        BY <1>1, <1>10, <3>2
      <4> QED BY <1>2, <2>1, <4>1
    <3> QED BY <3>1, <3>2
  <2>4. IrvsInv'
    BY <2>2, <2>3 DEF IrvsInv
  <2>5. ResponseInv'
    BY <1>8, <2>2, IsSequenceEmpty DEF ResponseInv
  <2>6. ResultsInOrder'
    BY <2>2 DEF ResultsInOrder
  <2> QED BY <2>4, <2>5, <2>6 DEF ResultsInv
<1> QED
  BY <1>1, <1>9, <1>10

-----------------------------------------------------------------------------
(* Each step.                                                              *)

\* At first there are no results.
LEMMA ResultsInit == Init => ResultsInv
<1> SUFFICES ASSUME Init PROVE ResultsInv
  OBVIOUS
<1>1. /\ streaming = FALSE /\ irvs = <<>> /\ srvValues = <<>> /\ response = <<>> /\ got = <<>>
      /\ result = Result("none", 0)
  BY DEF Init
<1>2. result.kind = "none"
  BY <1>1 DEF Result
<1>3. IrvsInv
  BY <1>1 DEF IrvsInv
<1>4. ResponseInv
  BY <1>1, <1>2, IsSequenceEmpty DEF ResponseInv
<1>5. ResultsInOrder
  BY <1>2 DEF ResultsInOrder
<1> QED
  BY <1>3, <1>4, <1>5 DEF ResultsInv

\* A result that is not the end of a call, and no values.
LEMMA NoValues ==
  ASSUME ResultsInv, ~streaming, response' = <<>>, IsSequence(got'), UNCHANGED <<streaming, irvs, srvValues>>,
         result'.kind \notin {"ok", "got", "nothing", "single"}
  PROVE  ResultsInv'
<1>1. IrvsInv'
  BY DEF IrvsInv
<1>2. ResponseInv'
  BY IsSequenceEmpty DEF ResultsInv, ResponseInv
<1>3. ResultsInOrder'
  BY DEF ResultsInOrder
<1> QED
  BY <1>1, <1>2, <1>3 DEF ResultsInv

\* A statement that is prepared has no results yet.
LEMMA PrepareReplies ==
  ASSUME ResultsInv, NEW outcome, Prepare(outcome)
  PROVE  ResultsInv'
<1>1. /\ handle = "none" /\ result.kind = "none"
      /\ result' = Result(IF outcome = "ok" THEN "prepared" ELSE "err", "prepare")
      /\ UNCHANGED <<stream, response, got, srvValues>>
  BY DEF Prepare
<1>2. ~streaming
  BY <1>1 DEF ResultsInv, IrvsInv
<1>3. response = <<>> /\ IsSequence(got)
  BY <1>1 DEF ResultsInv, ResponseInv
<1>4. result'.kind \in {"prepared", "err"}
  BY <1>1 DEF Result
<1>5. UNCHANGED <<streaming, irvs, srvValues>> /\ got' = got /\ response' = response
  BY <1>1 DEF stream
<1> QED
  BY <1>2, <1>3, <1>4, <1>5, NoValues

\* The drop leaves the results alone.
LEMMA DropReplies ==
  ASSUME ResultsInv, NEW outcome, Drop(outcome)
  PROVE  ResultsInv'
<1>1. ~streaming /\ UNCHANGED <<st, stream, program, srvValues>>
  BY DEF Drop, Ready
<1>2. UNCHANGED resultVars
  BY <1>1 DEF resultVars, stream
<1> QED
  BY <1>1, <1>2, ResultsKept

\* A row is added: the results of the call before are gone.
LEMMA AddRowReplies ==
  ASSUME ResultsInv, NEW values, AddRow(values)
  PROVE  ResultsInv'
<1>1. /\ ~streaming /\ response' = <<>> /\ got' = <<>> /\ UNCHANGED <<stream, server>>
      /\ \/ result' = Result("added", Len(given'))
         \/ result' = Result("err", "row")
  BY DEF AddRow, Ready
<1>2. result'.kind \in {"added", "err"}
  BY <1>1 DEF Result
<1>3. UNCHANGED <<streaming, irvs, srvValues>>
  BY <1>1 DEF stream, server
<1> QED
  BY <1>1, <1>2, <1>3, NoValues, IsSequenceEmpty

\* The batch is executed.
LEMMA ExecuteBatchReplies ==
  ASSUME StatementInv, ExecuteBatch
  PROVE  ResultsInv'
<1>1. CASE Fail("size") /\ got' = <<>> /\ srvValues' = <<>>
  BY <1>1, FailReplies, IsSequenceEmpty
<1>2. CASE ExecuteParameterRows(batch)
  BY <1>2, RowsReply DEF StatementInv, SequenceTypes
<1> QED
  BY <1>1, <1>2 DEF ExecuteBatch

\* There is no batch to execute.
LEMMA ExecuteEmptyBatchReplies ==
  ASSUME ResultsInv, ExecuteEmptyBatch
  PROVE  ResultsInv'
<1>1. Fail("empty") /\ got' = <<>> /\ UNCHANGED server
  BY DEF ExecuteEmptyBatch
<1>2. srvValues' = srvValues /\ IsSequence(srvValues)
  BY <1>1 DEF server, ResultsInv, ResponseInv
<1> QED
  BY <1>1, <1>2, FailReplies, IsSequenceEmpty

\* A row is executed.
LEMMA ExecuteReplies ==
  ASSUME StatementInv, NEW values, Execute(values)
  PROVE  ResultsInv'
<1>1. PICK rows : ExecuteParameterRows(rows)
  BY Zenon DEF Execute
<1> QED
  BY <1>1, RowsReply DEF StatementInv, SequenceTypes

\* A row is executed, with LOBs or without.
LEMMA ExecuteRowReplies ==
  ASSUME StatementInv, ResultsInv, NEW values, ExecuteRow(values)
  PROVE  ResultsInv'
<1> DEFINE cut == [i \in {i \in DOMAIN st.params : i <= Len(values)} |-> values[i]]
           readers == {i \in DOMAIN cut : IsReader(cut[i])}
           row == Row(Len(given) + 1,
                      [i \in DOMAIN cut |-> IF i \in readers THEN Param("lobnull", <<>>) ELSE cut[i]])
<1>1. /\ Ready
      /\ \/ Fail("row") /\ got' = <<>> /\ UNCHANGED server
         \/ ExecuteParameterRows(<<row>>)
         \/ /\ ExecuteMain(row, cut, readers)
            /\ got' = <<>> /\ UNCHANGED <<handle, st>>
  BY Zenon DEF ExecuteRow
<1> HIDE DEF cut, readers, row
<1>2. st \in Statements
  BY DEF StatementInv, SequenceTypes
<1>3. CASE Fail("row") /\ got' = <<>> /\ UNCHANGED server
  <2>1. srvValues' = srvValues /\ IsSequence(srvValues)
    BY <1>3 DEF server, ResultsInv, ResponseInv
  <2> QED BY <1>3, <2>1, FailReplies, IsSequenceEmpty
<1>4. CASE ExecuteParameterRows(<<row>>)
  BY <1>2, <1>4, RowsReply
<1>5. CASE ExecuteMain(row, cut, readers) /\ got' = <<>> /\ UNCHANGED <<handle, st>>
  <2>1. handle = "alive"
    BY <1>1 DEF Ready
  <2> QED BY <1>2, <1>5, <2>1, MainReplies
<1> QED
  BY <1>1, <1>3, <1>4, <1>5

\* The next LOB is begun.
LEMMA NewWriterReplies ==
  ASSUME ResultsInv, NewWriter
  PROVE  ResultsInv'
<1>1. UNCHANGED <<handle, st, got, server>>
  BY DEF NewWriter
<1>2. got' = got /\ srvValues' = srvValues /\ IsSequence(got) /\ IsSequence(srvValues)
  BY <1>1 DEF server, ResultsInv, ResponseInv
<1>3. CASE Fail("type")
  BY <1>2, <1>3, FailReplies
<1>4. CASE UNCHANGED <<result, response, streaming, todo, irvs>>
  <2>1. UNCHANGED resultVars
    BY <1>1, <1>2, <1>4 DEF resultVars, program
  <2> QED BY <1>1, <2>1, ResultsKept
<1> QED
  BY <1>3, <1>4 DEF NewWriter

\* The reader fails.
LEMMA ReaderFailsReplies ==
  ASSUME ResultsInv, ReaderFails
  PROVE  ResultsInv'
<1>1. Fail("reader") /\ UNCHANGED <<got, server>>
  BY DEF ReaderFails
<1>2. got' = got /\ srvValues' = srvValues /\ IsSequence(got) /\ IsSequence(srvValues)
  BY <1>1 DEF server, ResultsInv, ResponseInv
<1> QED
  BY <1>1, <1>2, FailReplies

\* Some bytes of a LOB are copied.
LEMMA CopyReplies ==
  ASSUME StatementInv, ResultsInv, NEW n, Copy(n)
  PROVE  ResultsInv'
<1>1. /\ writer.open /\ UNCHANGED <<handle, st, got>>
      /\ \/ UNCHANGED <<result, response, streaming, todo, irvs, server>>
         \/ Fail("utf8") /\ UNCHANGED server
         \/ \E data, outcome, after : SendChunk(data, FALSE, outcome, after)
  BY Zenon DEF Copy
<1>2. got' = got /\ IsSequence(got) /\ IsSequence(srvValues)
  BY <1>1 DEF ResultsInv, ResponseInv
<1>3. CASE UNCHANGED <<result, response, streaming, todo, irvs, server>>
  <2>1. UNCHANGED resultVars
    BY <1>1, <1>3 DEF resultVars, program, server
  <2> QED BY <1>1, <2>1, ResultsKept
<1>4. CASE Fail("utf8") /\ UNCHANGED server
  <2>1. srvValues' = srvValues
    BY <1>4 DEF server
  <2> QED BY <1>2, <1>4, <2>1, FailReplies
<1>5. ASSUME NEW data, NEW outcome, NEW after, SendChunk(data, FALSE, outcome, after) PROVE ResultsInv'
  BY <1>1, <1>5, ChunkReplies
<1> QED
  BY <1>1, <1>3, <1>4, <1>5

\* The last bytes of a LOB are sent.
LEMMA FlushReplies ==
  ASSUME StatementInv, ResultsInv, Flush
  PROVE  ResultsInv'
<1>1. /\ writer.open /\ UNCHANGED <<handle, st, got>>
      /\ \/ Fail("utf8") /\ UNCHANGED server
         \/ \E data, outcome, after : SendChunk(data, TRUE, outcome, after)
  BY Zenon DEF Flush, FlushDue
<1>2. got' = got /\ IsSequence(got) /\ IsSequence(srvValues)
  BY <1>1 DEF ResultsInv, ResponseInv
<1>3. CASE Fail("utf8") /\ UNCHANGED server
  <2>1. srvValues' = srvValues
    BY <1>3 DEF server
  <2> QED BY <1>2, <1>3, <2>1, FailReplies
<1>4. ASSUME NEW data, NEW outcome, NEW after, SendChunk(data, TRUE, outcome, after) PROVE ResultsInv'
  BY <1>1, <1>4, ChunkReplies
<1> QED
  BY <1>1, <1>3, <1>4

\* All LOBs are written.
LEMMA FinishReplies ==
  ASSUME ResultsInv, Finish
  PROVE  ResultsInv'
<1>1. streaming /\ Respond(irvs, st.type) /\ UNCHANGED <<got, server>>
  BY DEF Finish
<1>2. IsSequence(irvs) /\ IsSequence(srvValues) /\ got = <<>> /\ InOrder(irvs, srvValues)
  BY <1>1 DEF ResultsInv, IrvsInv, ResponseInv, InOrder
<1>3. srvValues' = srvValues /\ got' = got
  BY <1>1 DEF server
<1>4. InOrder(irvs, srvValues') /\ IsSequence(srvValues') /\ got' = <<>>
  BY <1>2, <1>3
<1> QED
  BY <1>1, <1>2, <1>4, RespondReplies

\* A value is taken out of the response.
LEMMA GetValueReplies ==
  ASSUME ResultsInv, NEW kind, GetValue(kind)
  PROVE  ResultsInv'
<1> DEFINE taken == Get(response, kind)
<1>1. /\ ~streaming /\ response # <<>> /\ UNCHANGED <<stream, server>>
      /\ response' = taken.rest
      /\ got' = IF taken.ok THEN Append(got, taken.value) ELSE got
      /\ result' = Result(IF taken.ok THEN "got" ELSE "nothing", kind)
  BY Zenon DEF GetValue
<1>2. /\ IsSequence(irvs) /\ IsSequence(srvValues) /\ IsSequence(response) /\ IsSequence(got)
      /\ result.kind \in {"ok", "got", "nothing"}
  BY <1>1 DEF ResultsInv, ResponseInv
<1>3. \A k \in OrderedKinds : OfKind(k, got) \o OfKind(k, S!Reverse(response)) = OfKind(k, srvValues)
  BY <1>2 DEF ResultsInv, ResultsInOrder, OrderedKinds
<1>4. result'.kind \in {"got", "nothing"}
  BY <1>1 DEF Result
<1>5. streaming' = streaming /\ irvs' = irvs /\ srvValues' = srvValues
  BY <1>1 DEF stream, server
<1>6. ~taken.ok => taken.rest = response
  BY DEF Get
<1>7. /\ IsSequence(response') /\ IsSequence(got')
      /\ \A k \in OrderedKinds : OfKind(k, got') \o OfKind(k, S!Reverse(response')) = OfKind(k, srvValues)
  <2>1. CASE ~taken.ok
    BY <1>1, <1>2, <1>3, <1>6, <2>1
  <2>2. CASE taken.ok
    <3>1. \A k \in OrderedKinds :
            /\ IsSequence(taken.rest)
            /\ OfKind(k, Append(got, taken.value)) \o OfKind(k, S!Reverse(taken.rest)) =
                 OfKind(k, got) \o OfKind(k, S!Reverse(response))
      BY <1>2, <2>2, GetIs
    <3>2. \E k : k \in OrderedKinds
      BY DEF OrderedKinds
    <3> HIDE DEF taken
    <3>3. IsSequence(Append(got, taken.value))
      BY <1>2, SequenceAppended
    <3> QED BY <1>1, <1>3, <2>2, <3>1, <3>2, <3>3
  <2> QED BY <2>1, <2>2
<1>8. IrvsInv'
  BY <1>1, <1>5 DEF IrvsInv
<1>9. ResponseInv'
  BY <1>2, <1>4, <1>5, <1>7 DEF ResponseInv
<1>10. ResultsInOrder'
  BY <1>5, <1>7 DEF ResultsInOrder, OrderedKinds
<1> QED
  BY <1>8, <1>9, <1>10 DEF ResultsInv

\* The single value of the response is taken.
LEMMA IntoValueReplies ==
  ASSUME ResultsInv, NEW kind, IntoValue(kind)
  PROVE  ResultsInv'
<1>1. /\ ~streaming /\ result.kind = "ok" /\ response' = <<>> /\ UNCHANGED <<stream, server>>
      /\ IF IntoSingle(response, kind)
         THEN got' = response /\ result' = Result("single", kind)
         ELSE got' = <<>> /\ result' = Result("err", "evaluation")
  BY DEF IntoValue
<1>2. /\ IsSequence(irvs) /\ IsSequence(srvValues) /\ IsSequence(response) /\ got = <<>>
      /\ \A k \in OrderedKinds : OfKind(k, got) \o OfKind(k, S!Reverse(response)) = OfKind(k, srvValues)
  BY <1>1 DEF ResultsInv, ResponseInv, ResultsInOrder, OrderedKinds
<1>3. streaming' = streaming /\ irvs' = irvs /\ srvValues' = srvValues
  BY <1>1 DEF stream, server
<1>4. CASE ~IntoSingle(response, kind)
  <2>1. result'.kind = "err"
    BY <1>1, <1>4 DEF Result
  <2> QED BY <1>1, <1>3, <1>4, <2>1, NoValues, IsSequenceEmpty
<1>5. CASE IntoSingle(response, kind)
  <2>1. got' = response /\ result'.kind = "single" /\ Len(response) = 1
    BY <1>1, <1>5 DEF Result, IntoSingle
  <2>2. S!Reverse(response) = response
    <3>1. response \in Seq(Elements(response, response))
      BY <1>2, ElementsAre
    <3> QED BY <2>1, <3>1, ReverseOne
  <2>3. ASSUME NEW k \in OrderedKinds
        PROVE  OfKind(k, got') \o OfKind(k, S!Reverse(response')) = OfKind(k, srvValues')
    <3>1. OfKind(k, S!Reverse(<<>>)) = <<>> /\ OfKind(k, <<>>) = <<>>
      BY ReverseEmpty, OfKindEmpty
    <3>2. IsSequence(OfKind(k, response))
      BY <1>2, KindsJoined
    <3>3. /\ OfKind(k, response) \o <<>> = OfKind(k, response)
          /\ <<>> \o OfKind(k, response) = OfKind(k, response)
      BY <3>2, ConcatEmptySeq DEF IsSequence
    <3>4. OfKind(k, got) \o OfKind(k, S!Reverse(response)) = OfKind(k, srvValues)
      BY <1>2
    <3>5. OfKind(k, response) = OfKind(k, srvValues)
      BY <1>2, <2>2, <3>1, <3>3, <3>4
    <3> QED BY <1>1, <1>3, <2>1, <3>1, <3>3, <3>5
  <2>4. IrvsInv'
    BY <1>1, <1>3 DEF IrvsInv
  <2>5. ResponseInv'
    BY <1>1, <1>2, <1>3, <2>1, IsSequenceEmpty DEF ResponseInv
  <2>6. ResultsInOrder'
    BY <2>3 DEF ResultsInOrder, OrderedKinds
  <2> QED BY <2>4, <2>5, <2>6 DEF ResultsInv
<1> QED
  BY <1>4, <1>5

\* Each step keeps the results in order.
LEMMA ResultsStep == StatementInv /\ ResultsInv /\ [Next]_vars => ResultsInv'
<1> SUFFICES ASSUME StatementInv, ResultsInv, [Next]_vars PROVE ResultsInv'
  OBVIOUS
<1>1. CASE UNCHANGED vars
  BY <1>1, ResultsKept DEF vars, resultVars, stream, server, program
<1>2. ASSUME NEW outcome, Prepare(outcome) \/ Drop(outcome) PROVE ResultsInv'
  BY <1>2, PrepareReplies, DropReplies
<1>3. ASSUME NEW values, AddRow(values) \/ Execute(values) \/ ExecuteRow(values) PROVE ResultsInv'
  BY <1>3, AddRowReplies, ExecuteReplies, ExecuteRowReplies
<1>4. CASE ExecuteBatch \/ ExecuteEmptyBatch
  BY <1>4, ExecuteBatchReplies, ExecuteEmptyBatchReplies
<1>5. CASE NewWriter \/ ReaderFails \/ Flush \/ Finish
  BY <1>5, NewWriterReplies, ReaderFailsReplies, FlushReplies, FinishReplies
<1>6. ASSUME NEW n, Copy(n) PROVE ResultsInv'
  BY <1>6, CopyReplies
<1>7. ASSUME NEW kind, GetValue(kind) \/ IntoValue(kind) PROVE ResultsInv'
  BY <1>7, GetValueReplies, IntoValueReplies
<1> QED
  BY <1>1, <1>2, <1>3, <1>4, <1>5, <1>6, <1>7 DEF Next, Step

-----------------------------------------------------------------------------
(* What the program has asked for.                                         *)

\* A step that touches none of it.
LEMMA AskedKept ==
  ASSUME AskedInv, UNCHANGED <<asked, batch>>, handle # "dropped" \/ handle' = "dropped"
  PROVE  AskedInv'
BY DEF AskedInv

\* A row that is added is asked for.
LEMMA AddRowAsked ==
  ASSUME StatementInv, AskedInv, NEW values, AddRow(values)
  PROVE  AskedInv'
<1> DEFINE row == Row(Len(given) + 1, values)
<1>1. /\ handle = "alive" /\ handle' = handle
      /\ IF HasIn /\ Accepts(values)
         THEN Accept(values) /\ asked' = Append(asked, Len(given'))
         ELSE asked' = asked
      /\ batch' = IF HasIn THEN BatchAfter(row) ELSE batch
  BY Zenon DEF AddRow, Ready, history
<1>2. row.id = Len(given) + 1 /\ row.values = values
  BY DEF Row
<1> HIDE DEF row
<1>3. CASE HasIn /\ Accepts(values)
  <2>1. Len(given') = Len(given) + 1
    BY <1>1, <1>3, RowAccepted
  <2>2. asked' = Append(asked, row.id) /\ batch' = Append(batch, row)
    BY <1>1, <1>2, <1>3, <2>1 DEF BatchAfter
  <2>3. /\ IsSequence(asked) /\ IsSequence(batch) /\ Len(asked) = Len(batch)
        /\ \A k \in DOMAIN batch : batch[k].id = asked[k]
    BY <1>1 DEF AskedInv, StatementInv, SequenceTypes
  <2>4. /\ IsSequence(asked') /\ Len(asked') = Len(asked) + 1
        /\ \A k \in DOMAIN asked : asked'[k] = asked[k]
        /\ asked'[Len(asked) + 1] = row.id /\ DOMAIN asked = 1..Len(asked)
    BY <2>2, <2>3, SequenceAppended
  <2>5. /\ Len(batch') = Len(batch) + 1 /\ Len(batch) \in Nat
        /\ DOMAIN batch = 1..Len(batch) /\ DOMAIN batch' = 1..(Len(batch) + 1)
        /\ \A k \in DOMAIN batch : batch'[k] = batch[k]
        /\ batch'[Len(batch) + 1] = row
    BY <2>2, <2>3, SequenceAppended
  <2>6. \A k \in DOMAIN batch' : k \in DOMAIN batch \/ k = Len(batch) + 1
    BY <2>5
  <2>7. \A k \in DOMAIN batch' : batch'[k].id = asked'[k]
    BY <2>3, <2>4, <2>5, <2>6
  <2> QED BY <2>3, <2>4, <2>5, <2>7 DEF AskedInv
<1>4. CASE ~(HasIn /\ Accepts(values))
  <2>1. UNCHANGED <<asked, batch>>
    BY <1>1, <1>2, <1>4 DEF BatchAfter
  <2> QED BY <1>1, <2>1, AskedKept
<1> QED
  BY <1>3, <1>4

\* Each step keeps the batch what was asked for.
LEMMA AskedStep == StatementInv /\ AskedInv /\ [Next]_vars => AskedInv'
<1> SUFFICES ASSUME StatementInv, AskedInv, [Next]_vars PROVE AskedInv'
  OBVIOUS
<1>1. CASE UNCHANGED vars
  BY <1>1, AskedKept DEF vars, history
<1>2. ASSUME NEW outcome, Prepare(outcome) PROVE AskedInv'
  <2>1. handle # "dropped" /\ UNCHANGED <<asked, batch>>
    BY <1>2 DEF Prepare, history
  <2> QED BY <2>1, AskedKept
<1>3. ASSUME NEW outcome, Drop(outcome) PROVE AskedInv'
  <2>1. handle' = "dropped" /\ asked' = asked
    BY <1>3 DEF Drop, history
  <2> QED BY <2>1 DEF AskedInv
<1>4. ASSUME NEW values, AddRow(values) PROVE AskedInv'
  BY <1>4, AddRowAsked
<1>5. ASSUME NEW values, Execute(values) \/ ExecuteRow(values) PROVE AskedInv'
  <2>1. handle # "dropped" /\ UNCHANGED <<asked, batch>>
    BY <1>5, Zenon DEF Execute, ExecuteRow, Ready
  <2> QED BY <2>1, AskedKept
<1>6. CASE ExecuteBatch
  <2>1. asked' = <<>> /\ batch' = <<>>
    BY <1>6 DEF ExecuteBatch, BatchTaken
  <2>2. AskedInv'
    BY <2>1, IsSequenceEmpty DEF AskedInv
  <2> QED BY <2>2
<1>7. CASE ExecuteEmptyBatch \/ Step \/ \E kind \in Kinds : GetValue(kind) \/ IntoValue(kind)
  <2>1. UNCHANGED <<handle, asked, batch>>
    BY <1>7 DEF ExecuteEmptyBatch, Step, NewWriter, ReaderFails, Flush, Finish, Copy, GetValue,
                IntoValue, history
  <2> QED BY <2>1, AskedKept
<1> QED
  BY <1>1, <1>2, <1>3, <1>4, <1>5, <1>6, <1>7 DEF Next

-----------------------------------------------------------------------------
(* What becomes of the rows.                                               *)

\* There is one order of all numbers.
LEMMA AllInOrder ==
  ASSUME NEW n \in Nat, NEW q \in Orders(1..n)
  PROVE  q = [k \in 1..n |-> k]
<1> DEFINE r == [k \in 1..n |-> k]
<1>1. Cardinality(1..n) = n
  <2>1. Cardinality(1..n) = IF 1 > n THEN 0 ELSE n - 1 + 1
    BY FS_Interval
  <2> QED BY <2>1
<1>2. r \in Orders(1..n)
  BY <1>1 DEF Orders
<1> HIDE DEF r
<1>3. q = r
  BY <1>2, OrdersSame
<1> QED
  BY <1>3 DEF r

\* The rows of an order are executed.
RowsDone(e, rows, q) == e \o [k \in DOMAIN q |-> rows[q[k]]]

\* All rows are executed, in their order.
LEMMA RowsSucceed ==
  ASSUME NEW e, IsSequence(e), NEW rows, IsSequence(rows), NEW q \in Orders(DOMAIN rows)
  PROVE  /\ Len(RowsDone(e, rows, q)) = Len(e) + Len(rows)
         /\ \A k \in DOMAIN rows : RowsDone(e, rows, q)[Len(e) + k] = rows[k]
<1> DEFINE r == [k \in DOMAIN q |-> rows[q[k]]]
           done == e \o r
           n == Len(rows)
<1>1. DOMAIN rows = 1..n /\ n \in Nat /\ Len(e) \in Nat
  BY SequenceDomain
<1>2. q = [k \in 1..n |-> k]
  BY <1>1, AllInOrder
<1>3. DOMAIN r = 1..n /\ r = [k \in 1..n |-> r[k]] /\ \A k \in 1..n : r[k] = rows[k]
  BY <1>1, <1>2
<1> HIDE DEF r
<1>4. IsSequence(r) /\ Len(r) = n
  BY <1>1, <1>3, SequenceOfFunction
<1>5. /\ IsSequence(done) /\ DOMAIN done = 1..(Len(e) + n)
      /\ \A k \in 1..(Len(e) + n) : done[k] = IF k <= Len(e) THEN e[k] ELSE r[k - Len(e)]
  BY <1>4, SequenceExtended
<1>6. DOMAIN done = 1..Len(done) /\ Len(done) \in Nat
  BY <1>5, SequenceDomain
<1> HIDE DEF done, n
<1>7. Len(done) = Len(e) + n
  BY <1>1, <1>5, <1>6
<1>8. ASSUME NEW k \in DOMAIN rows PROVE done[Len(e) + k] = rows[k]
  <2>1. Len(e) + k \in 1..(Len(e) + n) /\ ~(Len(e) + k <= Len(e)) /\ (Len(e) + k) - Len(e) = k
    BY <1>1
  <2> QED BY <1>1, <1>3, <1>5, <2>1
<1> QED
  BY <1>7, <1>8 DEF RowsDone, done, r, n

\* Some rows are executed, and the others are not.
LEMMA RowsSucceedInPart ==
  ASSUME NEW e, IsSequence(e), NEW rows, IsSequence(rows), Different(rows),
         Ids(e) \cap Ids(rows) = {}, NEW set \in SUBSET (DOMAIN rows), NEW q \in Orders(set)
  PROVE  \A k \in DOMAIN rows : rows[k].id \in Ids(RowsDone(e, rows, q)) <=> k \in set
<1> DEFINE r == [k \in DOMAIN q |-> rows[q[k]]]
           done == e \o r
           c == Cardinality(set)
<1>1. DOMAIN rows = 1..Len(rows) /\ Len(rows) \in Nat /\ DOMAIN e = 1..Len(e) /\ Len(e) \in Nat
  BY SequenceDomain
<1>2. c \in Nat /\ DOMAIN q = 1..c /\ \A j \in DOMAIN q : q[j] \in set
  BY <1>1, OrdersAre
<1>3. DOMAIN r = 1..c /\ r = [k \in 1..c |-> r[k]] /\ \A k \in 1..c : r[k] = rows[q[k]]
  BY <1>2
<1> HIDE DEF r, c
<1>4. IsSequence(r) /\ Len(r) = c
  BY <1>2, <1>3, SequenceOfFunction
<1>5. /\ IsSequence(done) /\ DOMAIN done = 1..(Len(e) + c)
      /\ \A k \in 1..(Len(e) + c) : done[k] = IF k <= Len(e) THEN e[k] ELSE r[k - Len(e)]
  BY <1>4, SequenceExtended
<1> HIDE DEF done
<1>6. ASSUME NEW k \in set PROVE rows[k].id \in Ids(done)
  <2>1. PICK j \in DOMAIN q : q[j] = k
    BY OrdersOfRows
  <2>2. Len(e) + j \in 1..(Len(e) + c) /\ ~(Len(e) + j <= Len(e)) /\ (Len(e) + j) - Len(e) = j
    BY <1>1, <1>2, <2>1
  <2>3. done[Len(e) + j] = rows[k]
    BY <1>2, <1>3, <1>5, <2>1, <2>2
  <2> QED BY <1>5, <2>2, <2>3, IdsOf
<1>7. ASSUME NEW k \in DOMAIN rows, k \notin set, rows[k].id \in Ids(done) PROVE FALSE
  <2>1. PICK m \in DOMAIN done : done[m].id = rows[k].id
    BY <1>7 DEF Ids
  <2>2. rows[k].id \in Ids(rows)
    BY <1>7, IdsOf
  <2>3. m \in Nat /\ m \in 1..(Len(e) + c)
    BY <1>1, <1>2, <1>5
  <2>4. CASE m <= Len(e)
    <3>1. m \in DOMAIN e /\ done[m] = e[m]
      BY <1>1, <1>5, <2>3, <2>4
    <3>2. e[m].id \in Ids(e)
      BY <3>1, IdsOf
    <3> QED BY <2>1, <2>2, <3>1, <3>2
  <2>5. CASE ~(m <= Len(e))
    <3>1. m - Len(e) \in 1..c /\ done[m] = r[m - Len(e)]
      BY <1>1, <1>2, <1>5, <2>3, <2>5
    <3>2. done[m] = rows[q[m - Len(e)]] /\ q[m - Len(e)] \in set
      BY <1>2, <1>3, <3>1
    <3>3. q[m - Len(e)] \in DOMAIN rows /\ q[m - Len(e)] # k
      BY <1>7, <3>2
    <3> QED BY <1>7, <2>1, <3>2, <3>3 DEF Different
  <2> QED BY <2>4, <2>5
<1> QED
  BY <1>6, <1>7 DEF RowsDone, done, r

\* Each failure gets the error of its row.
LEMMA ErrorsAreMixed ==
  ASSUME NEW rows, IsSequence(rows), NEW results \in [DOMAIN rows -> {1, ExecFailure}]
  PROVE  LET mixed == MixErrors(results, ErrorsOf(rows, results))
         IN /\ Len(mixed) = Len(rows)
            /\ \A k \in DOMAIN rows :
                 /\ mixed[k].result = results[k]
                 /\ results[k] = ExecFailure => mixed[k].error = rows[k].id
<1> DEFINE n == Len(rows)
           ids == [i \in DOMAIN rows |-> rows[i].id]
           F == {i \in DOMAIN rows : results[i] = ExecFailure}
           errors == ErrorsOf(rows, results)
           failures == Cardinality({i \in DOMAIN results : results[i] = ExecFailure})
           a == [i \in DOMAIN results |->
                   [result |-> results[i],
                    error |-> IF results[i] = ExecFailure THEN ErrorOf(results, errors, i) ELSE 0]]
           b == [i \in 1..(Len(errors) - failures) |->
                   [result |-> ExecFailure, error |-> errors[failures + i]]]
<1>1. DOMAIN rows = 1..n /\ n \in Nat /\ DOMAIN results = 1..n
  BY SequenceDomain
<1>2. DOMAIN ids = 1..n /\ ids = [i \in 1..n |-> ids[i]] /\ \A k \in 1..n : ids[k] = rows[k].id
  BY <1>1
<1>3. errors = Kept(ids, F)
  BY Zenon DEF ErrorsOf
<1>4. \A k \in 1..n : k \in F <=> results[k] = ExecFailure
  BY <1>1
<1>5. UpToIn(n, F) = {i \in DOMAIN results : results[i] = ExecFailure}
  BY <1>1, <1>4 DEF UpToIn
<1>6. failures = CountIn(n, F)
  BY <1>5 DEF CountIn
<1> HIDE DEF ids, F, n
<1>7. IsSequence(ids) /\ Len(ids) = n
  BY <1>1, <1>2, SequenceOfFunction
<1>8. /\ Len(errors) = CountIn(n, F)
      /\ \A k \in 1..n : k \in F => CountIn(k, F) \in 1..CountIn(n, F) /\ errors[CountIn(k, F)] = ids[k]
  <2>1. ids \in Seq(Elements(ids, ids))
    BY <1>7, ElementsAre
  <2> HIDE DEF errors
  <2> QED BY <1>3, <1>7, <2>1, KeptCount
<1>9. CountIn(n, F) \in Nat
  BY <1>1, CountIs
<1> HIDE DEF errors, failures
<1>10. ASSUME NEW k \in 1..n, results[k] = ExecFailure
       PROVE  ErrorOf(results, errors, k) = rows[k].id
  <2>1. UpToIn(k, F) = {j \in 1..k : results[j] = ExecFailure}
    <3>1. \A j \in 1..k : j \in 1..n
      BY <1>1
    <3> QED BY <1>4, <3>1 DEF UpToIn
  <2>2. Cardinality({j \in 1..k : results[j] = ExecFailure}) = CountIn(k, F)
    BY <2>1 DEF CountIn
  <2>3. CountIn(k, F) \in 1..CountIn(n, F) /\ errors[CountIn(k, F)] = ids[k]
    BY <1>4, <1>8, <1>10
  <2>4. CountIn(k, F) <= Len(errors)
    BY <1>8, <1>9, <2>3
  <2>5. ErrorOf(results, errors, k) = IF CountIn(k, F) <= Len(errors) THEN errors[CountIn(k, F)] ELSE 0
    BY <2>2 DEF ErrorOf
  <2> QED BY <1>2, <2>3, <2>4, <2>5
<1>11. b = <<>>
  <2>1. 1..(Len(errors) - failures) = {}
    BY <1>6, <1>8, <1>9
  <2> QED BY <2>1
<1>12. MixErrors(results, errors) = a \o b
  BY Zenon DEF MixErrors, failures
<1>13. /\ DOMAIN a = 1..n /\ a = [k \in 1..n |-> a[k]]
       /\ \A k \in 1..n : /\ a[k].result = results[k]
                          /\ results[k] = ExecFailure => a[k].error = rows[k].id
  BY <1>1, <1>10
<1> HIDE DEF a, b
<1>14. IsSequence(a) /\ Len(a) = n
  BY <1>1, <1>13, SequenceOfFunction
<1>15. MixErrors(results, errors) = a
  BY <1>11, <1>12, <1>14, ConcatEmptySeq DEF IsSequence
<1> QED
  BY <1>1, <1>13, <1>14, <1>15 DEF errors, n

\* The reply about LOBs alone makes no response.
LEMMA LobsNoResponse ==
  ASSUME NEW type
  PROVE  ~HdbResponse(IntoInternalReturnValues(<<Value("wlr", 0)>>).values, type).ok
         \/ ~IntoInternalReturnValues(<<Value("wlr", 0)>>).ok
<1> DEFINE x == Value("wlr", 0)
           parts == <<x>>
           into == IntoInternalReturnValues(parts)
<1> SUFFICES ASSUME into.ok, HdbResponse(into.values, type).ok PROVE FALSE
  OBVIOUS
<1>1. RemoveFirstOfKind(parts, "wlr") = <<>>
  BY OnlyLobs
<1>2. IsSequence(parts) /\ parts # <<>>
  <2>1. parts \in Seq({x})
    OBVIOUS
  <2>2. parts # <<>>
    OBVIOUS
  <2> HIDE DEF x
  <2> QED BY <2>1, <2>2, IsSequenceOf
<1> HIDE DEF parts
<1>3. /\ IsSequence(into.values)
      /\ (\A i \in DOMAIN into.values : into.values[i].kind # "wlr") => RemoveFirstOfKind(parts, "wlr") = parts
  BY <1>2, IntoIs
<1> HIDE DEF into
<1>4. \A i \in DOMAIN into.values : into.values[i].kind # "wlr"
  BY <1>3, ResponseIs DEF Holds
<1> QED
  BY <1>1, <1>2, <1>3, <1>4

\* The rows of a batch are executed, or get their errors.
LEMMA BatchIsExecuted ==
  ASSUME StatementInv, AskedInv, handle = "alive", ExecuteParameterRows(batch)
  PROVE  /\ result'.kind = "ok" => BatchSucceeds
         /\ result'.kind = "results" => BatchFailsInPart
<1> DEFINE wantsLobs == \E i \in DOMAIN batch : LobPositions(batch[i]) # {}
           parts == IF wantsLobs THEN <<Value("wlr", 0)>> ELSE st.parts
           values == IntoInternalReturnValues(parts)
<1>1. PICK outcome \in (IF \A i \in DOMAIN batch : Fits(batch[i]) THEN Outcomes ELSE {"error"}),
           results \in [DOMAIN batch -> {1, ExecFailure}] :
        /\ HasFailure(results) => Arrives(outcome) /\ ~wantsLobs
        /\ IF Arrives(outcome) /\ ~wantsLobs THEN SrvExecuteRows(batch, results)
           ELSE UNCHANGED executed
        /\ CASE outcome # "ok" -> Fail("roundtrip")
             [] outcome = "ok" /\ HasFailure(results) ->
                  /\ result' = Result("results", MixErrors(results, ErrorsOf(batch, results)))
                  /\ response' = <<>> /\ NotStreaming
             [] outcome = "ok" /\ ~HasFailure(results) /\ ~values.ok -> Fail("parts")
             [] OTHER -> Respond(values.values, st.type)
  BY Zenon DEF ExecuteParameterRows
<1>2. /\ IsSequence(executed) /\ IsSequence(batch) /\ Different(batch)
      /\ Ids(executed) \cap Ids(batch) = {}
      /\ Len(asked) = Len(batch) /\ \A k \in DOMAIN batch : batch[k].id = asked[k]
      /\ IsSequence(asked)
  BY DEF StatementInv, SequenceTypes, RowsInv, AskedInv
<1>3. DOMAIN batch = 1..Len(batch) /\ DOMAIN asked = DOMAIN batch
  BY <1>2, SequenceDomain
<1> DEFINE set == {i \in DOMAIN batch : results[i] # ExecFailure}
<1>4. set \in SUBSET (DOMAIN batch)
  OBVIOUS
<1>5. CASE Fail("roundtrip") \/ Fail("parts")
  <2>1. result'.kind = "err"
    BY <1>5 DEF Fail, Result
  <2> QED BY <2>1
<1>6. CASE /\ outcome = "ok" /\ HasFailure(results)
           /\ result' = Result("results", MixErrors(results, ErrorsOf(batch, results)))
  <2> DEFINE mixed == MixErrors(results, ErrorsOf(batch, results))
  <2>1. result'.kind = "results" /\ result'.val = mixed
    BY <1>6 DEF Result
  <2>2. SrvExecuteRows(batch, results)
    BY <1>1, <1>6
  <2>3. PICK done \in Orders(set) :
          executed' = executed \o [k \in DOMAIN done |-> batch[done[k]]]
    BY <2>2 DEF SrvExecuteRows
  <2>4. /\ Len(mixed) = Len(batch)
        /\ \A k \in DOMAIN batch :
             /\ mixed[k].result = results[k]
             /\ results[k] = ExecFailure => mixed[k].error = batch[k].id
    BY <1>2, ErrorsAreMixed
  <2> HIDE DEF mixed, set
  <2>5. \A k \in DOMAIN batch : batch[k].id \in Ids(executed') <=> k \in set
    <3>1. executed' = RowsDone(executed, batch, done)
      BY <2>3 DEF RowsDone
    <3> QED BY <1>2, <1>4, <3>1, RowsSucceedInPart
  <2>6. \A k \in DOMAIN batch : k \in set <=> results[k] # ExecFailure
    BY DEF set
  <2>7. Ids(executed)' = Ids(executed')
    BY DEF Ids
  <2>8. BatchFailsInPart
    <3>1. Len(result'.val) = Len(asked)
      BY <1>2, <2>1, <2>4
    <3>2. ASSUME NEW k \in DOMAIN asked
          PROVE  IF result'.val[k].result = ExecFailure
                 THEN result'.val[k].error = asked[k] /\ asked[k] \notin Ids(executed')
                 ELSE asked[k] \in Ids(executed')
      <4>1. k \in DOMAIN batch /\ batch[k].id = asked[k]
        BY <1>2, <1>3
      <4>2. result'.val[k].result = results[k]
        BY <2>1, <2>4, <4>1
      <4>3. asked[k] \in Ids(executed') <=> results[k] # ExecFailure
        BY <2>5, <2>6, <4>1
      <4>4. CASE results[k] = ExecFailure
        <5>1. result'.val[k].error = asked[k]
          BY <2>1, <2>4, <4>1, <4>4
        <5> QED BY <4>2, <4>3, <4>4, <5>1
      <4>5. CASE results[k] # ExecFailure
        BY <4>2, <4>3, <4>5
      <4> QED BY <4>4, <4>5
    <3> QED BY <3>1, <3>2, Zenon DEF BatchFailsInPart
  <2> QED BY <2>1, <2>8
<1>7. CASE outcome = "ok" /\ ~HasFailure(results) /\ values.ok /\ Respond(values.values, st.type)
  <2>1. /\ result'.kind \in {"ok", "err"}
        /\ result'.kind = "ok" => HdbResponse(values.values, st.type).ok
    <3>1. result' = Result(IF HdbResponse(values.values, st.type).ok THEN "ok" ELSE "err", "response")
      BY <1>7, Zenon DEF Respond
    <3> HIDE DEF values
    <3> QED BY <3>1 DEF Result
  <2>2. ASSUME result'.kind = "ok" PROVE BatchSucceeds
    <3>1. ~wantsLobs
      <4>1. SUFFICES ASSUME wantsLobs PROVE FALSE
        OBVIOUS
      <4>2. parts = <<Value("wlr", 0)>>
        BY <4>1
      <4> HIDE DEF parts
      <4> QED BY <1>7, <2>1, <2>2, <4>2, LobsNoResponse
    <3>2. SrvExecuteRows(batch, results)
      BY <1>1, <1>7, <3>1 DEF Arrives
    <3>3. set = DOMAIN batch
      BY <1>7 DEF HasFailure
    <3>4. PICK done \in Orders(DOMAIN batch) :
            executed' = executed \o [k \in DOMAIN done |-> batch[done[k]]]
      BY <3>2, <3>3 DEF SrvExecuteRows
    <3>5. executed' = RowsDone(executed, batch, done)
      BY <3>4 DEF RowsDone
    <3>6. /\ Len(executed') = Len(executed) + Len(batch)
          /\ \A k \in DOMAIN batch : executed'[Len(executed) + k] = batch[k]
      BY <1>2, <3>5, RowsSucceed
    <3>7. /\ Len(executed') = Len(executed) + Len(asked)
          /\ \A k \in DOMAIN asked : executed'[Len(executed) + k].id = asked[k]
      BY <1>2, <1>3, <3>6
    <3> QED BY <3>7 DEF BatchSucceeds
  <2> QED BY <2>1, <2>2
<1> QED
  BY <1>1, <1>5, <1>6, <1>7

\* A step that takes the batch.
LEMMA BatchTakenBy ==
  ASSUME StatementInv, AskedInv, Next, asked # <<>>, asked' = <<>>
  PROVE  ExecuteBatch
<1>1. ASSUME NEW values, AddRow(values) PROVE FALSE
  <2>1. asked' = asked \/ asked' = Append(asked, Len(given'))
    BY <1>1 DEF AddRow, history
  <2>2. IsSequence(asked)
    BY DEF AskedInv
  <2>3. Append(asked, Len(given')) # <<>>
    BY <2>2, SequenceAppended, IsSequenceEmpty
  <2> QED BY <2>1, <2>3
<1>2. \A outcome : Prepare(outcome) \/ Drop(outcome) => asked' = asked
  BY DEF Prepare, Drop, history
<1>3. \A values : Execute(values) \/ ExecuteRow(values) => asked' = asked
  BY Zenon DEF Execute, ExecuteRow
<1>4. ExecuteEmptyBatch \/ Step \/ (\E kind \in Kinds : GetValue(kind) \/ IntoValue(kind)) => asked' = asked
  BY DEF ExecuteEmptyBatch, Step, NewWriter, ReaderFails, Flush, Finish, Copy, GetValue,
         IntoValue, history
<1> QED
  BY <1>1, <1>2, <1>3, <1>4 DEF Next

\* A step that takes the batch tells what became of it.
LEMMA BatchStep ==
  ASSUME StatementInv, AskedInv, [Next]_vars
  PROVE  [asked # <<>> /\ asked' = <<>> =>
            /\ result'.kind = "ok" => BatchSucceeds
            /\ result'.kind = "results" => BatchFailsInPart]_vars
<1> SUFFICES ASSUME Next, asked # <<>>, asked' = <<>>
             PROVE  /\ result'.kind = "ok" => BatchSucceeds
                    /\ result'.kind = "results" => BatchFailsInPart
  OBVIOUS
<1>1. ExecuteBatch
  BY BatchTakenBy
<1>2. handle = "alive"
  BY <1>1 DEF ExecuteBatch, Ready
<1>3. CASE Fail("size")
  <2>1. result'.kind = "err"
    BY <1>3 DEF Fail, Result
  <2> QED BY <2>1
<1>4. CASE ExecuteParameterRows(batch)
  BY <1>2, <1>4, BatchIsExecuted
<1> QED
  BY <1>1, <1>3, <1>4 DEF ExecuteBatch

-----------------------------------------------------------------------------
(* Replies.                                                                *)

\* hdb_response.rs:320, sync_prepared_statement.rs:341: the batch is what was
\* asked for, and the response, with what was taken out of it and what is still
\* to come, has what the server has sent.
THEOREM ReplyInvariant == Spec => []ReplyInv
<1>1. Init => AskedInv
  BY IsSequenceEmpty DEF Init, AskedInv
<1>2. Init => StatementInv /\ ReplyInv
  BY <1>1, StatementInit, ResultsInit DEF ReplyInv
<1>3. (StatementInv /\ ReplyInv) /\ [Next]_vars => (StatementInv /\ ReplyInv)'
  BY StatementStep, AskedStep, ResultsStep DEF ReplyInv
<1> QED
  BY <1>2, <1>3, PTL DEF Spec

\* hdb_response.rs:320: result sets and output parameters come in the order in
\* which the server has sent them, and none gets lost.
THEOREM ResultsOrdered == Spec => []ResultsInOrder
<1>1. ReplyInv => ResultsInOrder
  BY DEF ReplyInv, ResultsInv
<1> QED
  BY <1>1, ReplyInvariant, PTL

\* sync_prepared_statement.rs:341, reply.rs:145: what the program is told about
\* the rows of a batch is what became of them.
THEOREM BatchExact == Spec => BatchIsExact
<1>1. StatementInv /\ ReplyInv /\ [Next]_vars =>
        [asked # <<>> /\ asked' = <<>> =>
           /\ result'.kind = "ok" => BatchSucceeds
           /\ result'.kind = "results" => BatchFailsInPart]_vars
  BY BatchStep DEF ReplyInv
<1> QED
  BY <1>1, StatementInvariant, ReplyInvariant, PTL DEF Spec, BatchIsExact

=============================================================================
