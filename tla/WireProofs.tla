----------------------------- MODULE WireProofs -----------------------------
(***************************************************************************)
(* Requests arrive: rows, options and texts, the bodies of the parts, the  *)
(* parts with their headers, the message with its own.  For each of them   *)
(* there is a lemma that says what the client writes, how many bytes it has*)
(* and what the database takes it for, whatever is behind it.  Then what   *)
(* can be written at all: a request is written to its end, or nothing of it*)
(* is, but for what FailsHalfway says.  And at last the invariant.         *)
(***************************************************************************)
EXTENDS ValueProofs
-----------------------------------------------------------------------------
(* Readers that read one thing after the other.                            *)
IsStreams(ss) == IsSeq(ss) /\ \A i \in 1..Len(ss) : IsStream(ss[i])

\* What is left of ss \o rest when i things were read.
Left(ss, rest, i) == From(ss, i) \o rest

\* What is left to read after i things.
LEMMA LeftIs ==
  ASSUME NEW ss, IsStreams(ss), NEW rest, IsStream(rest)
  PROVE  /\ Left(ss, rest, 0) = Flat(ss) \o rest /\ Left(ss, rest, Len(ss)) = rest
         /\ \A i \in 0..Len(ss) : IsStream(Left(ss, rest, i))
         /\ \A i \in 1..Len(ss) : Left(ss, rest, i - 1) = ss[i] \o Left(ss, rest, i)
         /\ IsStream(Flat(ss)) /\ IsSeqs(ss) /\ Len(ss) \in Nat
<1>1. IsStream(Flat(ss)) /\ IsSeqs(ss) /\ Len(ss) \in Nat
  <2>1. IsSeq(ss) /\ \A i \in 1..Len(ss) : IsStream(ss[i])
    BY DEF IsStreams
  <2> QED
    BY <2>1, FlatStream, SeqFacts
<1>2. /\ From(ss, 0) = Flat(ss) /\ From(ss, Len(ss)) = <<>>
      /\ \A i \in 0..Len(ss) : IsSeq(From(ss, i))
      /\ \A i \in 1..Len(ss) : From(ss, i - 1) = ss[i] \o From(ss, i)
  BY <1>1, FromIs
<1>3. <<>> \o rest = rest
  BY NothingJoined DEF IsStream
<1>4. ASSUME NEW i \in 0..Len(ss) PROVE IsStream(From(ss, i))
  <2> DEFINE t == [k \in 1..(Len(ss) - i) |-> ss[i + k]]
  <2>1. IsSeqs(t) /\ Len(t) = Len(ss) - i
    BY <1>1, PieceIs
  <2>2. ASSUME NEW k \in 1..Len(t) PROVE IsStream(t[k])
    <3>1. k \in 1..(Len(ss) - i) /\ i + k \in 1..Len(ss)
      BY <1>1, <2>1
    <3>2. t[k] = ss[i + k]
      BY <3>1
    <3> QED
      BY <3>1, <3>2 DEF IsStreams
  <2>3. From(ss, i) = Flat(t)
    BY DEF From
  <2> HIDE DEF t
  <2>4. IsStream(Flat(t))
    BY <2>1, <2>2, FlatStream DEF IsSeqs
  <2> QED
    BY <2>3, <2>4
<1>5. ASSUME NEW i \in 0..Len(ss) PROVE IsStream(Left(ss, rest, i))
  BY <1>4, StreamJoined DEF Left
<1>6. ASSUME NEW i \in 1..Len(ss) PROVE Left(ss, rest, i - 1) = ss[i] \o Left(ss, rest, i)
  <2>1. IsSeq(ss[i]) /\ IsSeq(From(ss, i)) /\ IsSeq(rest)
    <3>1. IsStream(ss[i]) /\ i \in 0..Len(ss)
      BY <1>1 DEF IsStreams
    <3> QED
      BY <1>2, <3>1 DEF IsStream
  <2> DEFINE a == ss[i]
             b == From(ss, i)
  <2> HIDE DEF a, b
  <2>2. (a \o b) \o rest = a \o (b \o rest)
    <3>1. IsSeq(a) /\ IsSeq(b) /\ IsSeq(rest)
      BY <2>1 DEF a, b
    <3> QED
      BY <3>1, Joined
  <2>3. (ss[i] \o From(ss, i)) \o rest = ss[i] \o (From(ss, i) \o rest)
    BY <2>2 DEF a, b
  <2> QED
    BY <1>2, <2>3 DEF Left
<1> QED
  BY <1>1, <1>2, <1>3, <1>5, <1>6 DEF Left

\* Values that are taken one by one are taken as a row.
LEMMA RowIsTaken ==
  ASSUME NEW ds, NEW vs, IsSeq(vs), NEW ss, IsStreams(ss), Len(ss) = Len(vs), Len(ds) = Len(vs),
         NEW rest, IsStream(rest), \A i \in 1..Len(vs) : IsTakenAs(ds[i], ss[i], vs[i])
  PROVE  TakeRow(ds, Flat(ss) \o rest) = Done(vs, rest)
<1> DEFINE n == Len(vs)
           in == Flat(ss) \o rest
           at(i) == Left(ss, rest, i)
           acc(i) == Upto(vs, i)
           P(i, s) == TakeParameter(ds[i], s)
           Step(x, i) == Then(x, LAMBDA a, s : Then(P(i, s), LAMBDA v, t : Done(Append(a, v), t)))
           r == [i \in 0..n |-> Done(acc(i), at(i))]
           Is(f) == f = [i \in 0..n |-> IF i = 0 THEN Done(<<>>, in) ELSE Step(f[i - 1], i)]
<1>1. /\ at(0) = in /\ at(n) = rest /\ \A i \in 0..n : IsStream(at(i))
      /\ \A i \in 1..n : at(i - 1) = ss[i] \o at(i)
  <2>1. /\ Left(ss, rest, 0) = Flat(ss) \o rest /\ Left(ss, rest, Len(ss)) = rest
        /\ \A i \in 0..Len(ss) : IsStream(Left(ss, rest, i))
        /\ \A i \in 1..Len(ss) : Left(ss, rest, i - 1) = ss[i] \o Left(ss, rest, i)
    BY LeftIs, ZenonT(60)
  <2> QED
    BY <2>1
<1>2. /\ acc(0) = <<>> /\ acc(n) = vs /\ n \in Nat
      /\ \A i \in 1..n : Append(acc(i - 1), vs[i]) = acc(i)
  BY UptoIs, SeqFacts
<1>3. ASSUME NEW i \in 1..n PROVE P(i, at(i - 1)) = Done(vs[i], at(i))
  <2>1. IsTakenAs(ds[i], ss[i], vs[i]) /\ IsStream(at(i)) /\ at(i - 1) = ss[i] \o at(i)
    BY <1>1, <1>2
  <2> HIDE DEF at
  <2> QED
    BY <2>1 DEF IsTakenAs
<1>4. TakeRow(ds, in) = (CHOOSE f : Is(f))[n]
  <2> HIDE DEF in
  <2> QED
    BY DEF TakeRow, RdEach, RdFold
<1>5. ASSUME NEW i, NEW a, NEW s, NEW v, NEW t, P(i, s) = Done(v, t)
      PROVE  Step(Done(a, s), i) = Done(Append(a, v), t)
  <2> DEFINE x == Done(a, s)
             y == P(i, s)
  <2>1. x.ok /\ x.v = a /\ x.in = s
    BY DEF Done
  <2>2. y.ok /\ y.v = v /\ y.in = t
    BY <1>5 DEF Done
  <2>3. Step(x, i) = IF x.ok THEN (IF P(i, x.in).ok THEN Done(Append(x.v, P(i, x.in).v), P(i, x.in).in)
                                                    ELSE P(i, x.in)) ELSE x
    <3> HIDE DEF x, P
    <3> QED
      BY DEF Then
  <2>4. P(i, x.in) = y
    <3> HIDE DEF x, P
    <3> QED
      BY <2>1
  <2>5. Step(x, i) = Done(Append(a, v), t)
    <3> HIDE DEF x, y, P, Step
    <3> QED
      BY <2>1, <2>2, <2>3, <2>4
  <2> HIDE DEF P, Step
  <2> QED
    BY <2>5
<1> HIDE DEF P, Step, in, at, acc, n
<1>6. ASSUME NEW i \in 1..n PROVE Step(r[i - 1], i) = r[i]
  <2>1. i - 1 \in 0..n /\ i \in 0..n
    BY <1>2
  <2>2. r[i - 1] = Done(acc(i - 1), at(i - 1)) /\ r[i] = Done(acc(i), at(i))
    BY <2>1
  <2> HIDE DEF r
  <2> DEFINE s == at(i - 1)
             t == at(i)
             a == acc(i - 1)
  <2>4. P(i, s) = Done(vs[i], t)
    BY <1>3
  <2> HIDE DEF s, t, a
  <2>5. Step(Done(a, s), i) = Done(Append(a, vs[i]), t)
    BY <1>5, <2>4
  <2>3. Step(Done(acc(i - 1), at(i - 1)), i) = Done(Append(acc(i - 1), vs[i]), at(i))
    BY <2>5 DEF s, t, a
  <2> QED
    BY <1>2, <2>2, <2>3
<1>7. Is(r)
  <2>1. \A i \in 0..n : r[i] = IF i = 0 THEN Done(<<>>, in) ELSE Step(r[i - 1], i)
    <3> TAKE i \in 0..n
    <3>1. CASE i = 0
      BY <1>1, <1>2, <3>1
    <3>2. CASE i # 0
      <4>1. i \in 1..n
        BY <1>2, <3>2
      <4> HIDE DEF r
      <4> QED
        BY <1>6, <3>2, <4>1
    <3> QED
      BY <3>1, <3>2
  <2>2. r = [i \in 0..n |-> r[i]]
    OBVIOUS
  <2> HIDE DEF r
  <2> QED
    BY <2>1, <2>2
<1> DEFINE f == CHOOSE g : Is(g)
<1>8. Is(f)
  <2> HIDE DEF Is
  <2> QED
    BY <1>7, Zenon
<1>9. f[n] = r[n]
  <2> DEFINE T == {k \in Nat : k <= n => f[k] = r[k]}
  <2>1. f[0] = r[0]
    <3>1. 0 \in 0..n
      BY <1>2
    <3> HIDE DEF r, f
    <3> QED
      BY <1>7, <1>8, <3>1
  <2>2. ASSUME NEW k \in Nat, k + 1 <= n, f[k] = r[k] PROVE f[k + 1] = r[k + 1]
    <3>1. k + 1 \in 0..n /\ k + 1 # 0 /\ (k + 1) - 1 = k
      BY <1>2, <2>2
    <3> HIDE DEF r, f
    <3>2. f[k + 1] = Step(f[k], k + 1) /\ r[k + 1] = Step(r[k], k + 1)
      BY <1>7, <1>8, <3>1
    <3> QED
      BY <2>2, <3>2
  <2> HIDE DEF f, r
  <2>3. 0 \in T /\ \A k \in Nat : k \in T => k + 1 \in T
    <3>1. 0 \in T
      BY <1>2, <2>1
    <3>2. ASSUME NEW k \in Nat, k \in T PROVE k + 1 \in T
      <4>1. k <= n => f[k] = r[k]
        BY <3>2
      <4>2. ASSUME k + 1 <= n PROVE f[k + 1] = r[k + 1]
        <5>1. k <= n
          BY <1>2, <4>2
        <5> QED
          BY <2>2, <4>1, <4>2, <5>1
      <4> QED
        BY <4>2
    <3> QED
      BY <3>1, <3>2
  <2> HIDE DEF T
  <2>4. n \in T
    BY <1>2, <2>3, AllNumbers
  <2> QED
    BY <1>2, <2>4 DEF T
<1>10. r[n] = Done(vs, rest)
  <2>1. n \in 0..n
    BY <1>2
  <2> QED
    BY <1>1, <1>2, <2>1
<1> QED
  BY <1>4, <1>9, <1>10 DEF in
-----------------------------------------------------------------------------
\* The width of streams that are joined.
LEMMA WidthFlat ==
  ASSUME NEW ss, IsStreams(ss), NEW ws, Numbers(ws), Len(ws) = Len(ss),
         \A i \in 1..Len(ss) : Width(ss[i]) = ws[i]
  PROVE  IsStream(Flat(ss)) /\ Width(Flat(ss)) = Total(ws)
<1> DEFINE n == Len(ss)
           A(i) == Flat(Upto(ss, i))
           B(i) == Total(Upto(ws, i))
           T == {i \in Nat : i <= n => IsStream(A(i)) /\ Width(A(i)) = B(i)}
<1>1. IsSeq(ss) /\ n \in Nat /\ IsSeqs(ss) /\ (\A i \in 1..n : IsStream(ss[i]) /\ IsSeq(ss[i]))
      /\ IsSeq(ws) /\ (\A i \in 1..n : ws[i] \in Nat)
  BY LeftIs, StreamNothing DEF IsStreams, IsStream, Numbers
<1>2. /\ Upto(ss, 0) = <<>> /\ Upto(ss, n) = ss
      /\ \A i \in 0..n : IsSeq(Upto(ss, i)) /\ Len(Upto(ss, i)) = i
      /\ \A i \in 1..n : Append(Upto(ss, i - 1), ss[i]) = Upto(ss, i)
  BY <1>1, UptoIs
<1>3. /\ Upto(ws, 0) = <<>> /\ Upto(ws, n) = ws
      /\ \A i \in 0..n : IsSeq(Upto(ws, i)) /\ Len(Upto(ws, i)) = i
      /\ \A i \in 1..n : Append(Upto(ws, i - 1), ws[i]) = Upto(ws, i)
  <2>1. /\ Upto(ws, 0) = <<>> /\ Upto(ws, Len(ws)) = ws
        /\ \A i \in 0..Len(ws) : IsSeq(Upto(ws, i)) /\ Len(Upto(ws, i)) = i
        /\ \A i \in 1..Len(ws) : Append(Upto(ws, i - 1), ws[i]) = Upto(ws, i)
    BY <1>1, UptoIs
  <2> QED
    BY <2>1
<1>4. \A i \in 0..n : Numbers(Upto(ws, i))
  <2> TAKE i \in 0..n
  <2>1. \A k \in 1..i : Upto(ws, i)[k] = ws[k]
    BY DEF Upto
  <2>2. \A k \in 1..i : k \in 1..n
    BY <1>1
  <2> HIDE DEF n
  <2> QED
    BY <1>1, <1>3, <2>1, <2>2 DEF Numbers
<1>5. \A i \in 0..n : IsSeqs(Upto(ss, i))
  <2> TAKE i \in 0..n
  <2>1. \A k \in 1..i : Upto(ss, i)[k] = ss[k]
    BY DEF Upto
  <2>2. \A k \in 1..i : k \in 1..n
    BY <1>1
  <2> HIDE DEF n
  <2> QED
    BY <1>1, <1>2, <2>1, <2>2 DEF IsSeqs
<1>6. 0 \in T
  <2>1. A(0) = <<>> /\ B(0) = 0
    BY <1>2, <1>3, FlatNothing, TotalEmpty
  <2> QED
    BY <2>1, StreamNothing, WidthNothing
<1>7. ASSUME NEW k \in Nat, k \in T PROVE k + 1 \in T
  <2>1. ASSUME k + 1 <= n PROVE IsStream(A(k + 1)) /\ Width(A(k + 1)) = B(k + 1)
    <3>1. k \in 0..n /\ k + 1 \in 1..n /\ k <= n
      BY <1>1, <2>1
    <3>2. IsStream(A(k)) /\ Width(A(k)) = B(k)
      BY <1>7, <3>1
    <3>3. Upto(ss, k + 1) = Append(Upto(ss, k), ss[k + 1]) /\ Upto(ws, k + 1) = Append(Upto(ws, k), ws[k + 1])
      <4>1. (k + 1) - 1 = k
        OBVIOUS
      <4> QED
        BY <1>2, <1>3, <3>1, <4>1
    <3>4. A(k + 1) = A(k) \o ss[k + 1]
      <4> DEFINE u == Upto(ss, k)
                 x == ss[k + 1]
      <4>1. IsSeqs(u) /\ IsSeq(u) /\ IsSeq(x)
        BY <1>1, <1>2, <1>5, <3>1
      <4>2. A(k + 1) = Flat(Append(u, x))
        BY <3>3
      <4> HIDE DEF u, x, A
      <4>3. Append(u, x) = u \o <<x>>
        BY <4>1, AppendSeq
      <4>4. Flat(u \o <<x>>) = Flat(u) \o x
        <5>1. IsSeqs(<<x>>) /\ Flat(<<x>>) = x
          BY <4>1, FlatSingle
        <5> DEFINE y == <<x>>
        <5> HIDE DEF y
        <5>2. Flat(u \o y) = Flat(u) \o Flat(y)
          BY <4>1, <5>1, FlatJoined DEF y
        <5> QED
          BY <5>1, <5>2 DEF y
      <4> QED
        BY <4>2, <4>3, <4>4 DEF A, u, x
    <3>5. B(k + 1) = B(k) + ws[k + 1]
      <4> DEFINE u == Upto(ws, k)
                 x == ws[k + 1]
      <4>1. Numbers(u) /\ x \in Nat
        BY <1>1, <1>4, <3>1
      <4>2. B(k + 1) = Total(Append(u, x))
        BY <3>3
      <4> HIDE DEF u, x, B
      <4>3. Total(Append(u, x)) = Total(u) + x
        BY <4>1, TotalAppend
      <4> QED
        BY <4>2, <4>3 DEF B, u, x
    <3>6. IsStream(ss[k + 1]) /\ Width(ss[k + 1]) = ws[k + 1]
      BY <1>1, <3>1
    <3> HIDE DEF A, B, n
    <3>7. IsStream(A(k) \o ss[k + 1]) /\ Width(A(k) \o ss[k + 1]) = Width(A(k)) + Width(ss[k + 1])
      BY <3>2, <3>6, StreamJoined, WidthJoined
    <3> QED
      BY <3>2, <3>4, <3>5, <3>6, <3>7
  <2> QED
    BY <2>1
<1> HIDE DEF T
<1>8. n \in T
  BY <1>1, <1>6, <1>7, AllNumbers
<1> QED
  BY <1>1, <1>2, <1>3, <1>8 DEF T
-----------------------------------------------------------------------------
(* Writers.                                                                *)
LEMMA EachIsWritten ==
  ASSUME NEW ws, IsSeq(ws), NEW ss, IsSeq(ss), Len(ss) = Len(ws),
         \A i \in 1..Len(ws) : ws[i].ok /\ ws[i].in = ss[i]
  PROVE  WriteEach(ws) = Done(<<>>, Flat(ss))
<1> DEFINE failed == {i \in DOMAIN ws : ~ws[i].ok}
<1>1. DOMAIN ws = 1..Len(ws) /\ Len(ws) \in Nat /\ DOMAIN ss = 1..Len(ss)
  BY SeqFacts
<1>2. failed = {}
  BY <1>1
<1>3. ss = [i \in 1..Len(ws) |-> ws[i].in]
  <2>1. ss = [i \in 1..Len(ss) |-> ss[i]]
    BY SeqFacts
  <2> QED
    BY <2>1
<1>4. WriteEach(ws) = [ok |-> failed = {}, v |-> <<>>,
        in |-> Flat([i \in 1..(IF failed = {} THEN Len(ws) ELSE CHOOSE i \in failed : \A j \in failed : i <= j)
                        |-> ws[i].in])]
  BY DEF WriteEach
<1> HIDE DEF failed
<1>5. WriteEach(ws) = [ok |-> TRUE, v |-> <<>>, in |-> Flat([i \in 1..Len(ws) |-> ws[i].in])]
  BY <1>2, <1>4
<1> QED
  BY <1>3, <1>5 DEF Done

\* Writing succeeds if every part of it does.
LEMMA EachSucceeds ==
  ASSUME NEW ws, IsSeq(ws)
  PROVE  WriteEach(ws).ok <=> \A i \in 1..Len(ws) : ws[i].ok
<1> DEFINE failed == {i \in DOMAIN ws : ~ws[i].ok}
<1>1. DOMAIN ws = 1..Len(ws)
  BY SeqFacts
<1>2. WriteEach(ws).ok <=> failed = {}
  BY DEF WriteEach
<1> QED
  BY <1>1, <1>2

\* What is the same after each number is the same in the end.
LEMMA SameInTheEnd ==
  ASSUME NEW n \in Nat, NEW f, NEW g, f[0] = g[0],
         \A k \in 0..(n - 1) : f[k] = g[k] => f[k + 1] = g[k + 1]
  PROVE  f[n] = g[n]
<1> DEFINE T == {k \in Nat : k <= n => f[k] = g[k]}
<1>1. 0 \in T
  OBVIOUS
<1>2. ASSUME NEW k \in Nat, k \in T PROVE k + 1 \in T
  <2>1. ASSUME k + 1 <= n PROVE f[k + 1] = g[k + 1]
    <3>1. k <= n /\ k \in 0..(n - 1)
      BY <2>1
    <3> QED
      BY <1>2, <3>1
  <2> QED
    BY <2>1
<1> HIDE DEF T
<1>3. n \in T
  BY <1>1, <1>2, AllNumbers
<1> QED
  BY <1>3 DEF T
-----------------------------------------------------------------------------
IsRowAs(ds, b, v) ==
    IsStream(b) /\ \A s : IsStream(s) => TakeRow(ds, b \o s) = Done(v, s)

RowsTaken(columns, n, in) == RdEach(LAMBDA i, s : TakeRow(columns, s), n, in)

\* Rows that are taken one by one are taken together.
LEMMA RowsAreTaken ==
  ASSUME NEW ds, NEW vs, IsSeq(vs), NEW ss, IsStreams(ss), Len(ss) = Len(vs),
         NEW rest, IsStream(rest), \A i \in 1..Len(vs) : IsRowAs(ds, ss[i], vs[i])
  PROVE  RowsTaken(ds, Len(vs), Flat(ss) \o rest) = Done(vs, rest)
<1> DEFINE n == Len(vs)
           in == Flat(ss) \o rest
           at(i) == Left(ss, rest, i)
           acc(i) == Upto(vs, i)
           P(i, s) == TakeRow(ds, s)
           Step(x, i) == Then(x, LAMBDA a, s : Then(P(i, s), LAMBDA v, t : Done(Append(a, v), t)))
           r == [i \in 0..n |-> Done(acc(i), at(i))]
           Is(f) == f = [i \in 0..n |-> IF i = 0 THEN Done(<<>>, in) ELSE Step(f[i - 1], i)]
<1>1. /\ at(0) = in /\ at(n) = rest /\ \A i \in 0..n : IsStream(at(i))
      /\ \A i \in 1..n : at(i - 1) = ss[i] \o at(i)
  <2>1. /\ Left(ss, rest, 0) = Flat(ss) \o rest /\ Left(ss, rest, Len(ss)) = rest
        /\ \A i \in 0..Len(ss) : IsStream(Left(ss, rest, i))
        /\ \A i \in 1..Len(ss) : Left(ss, rest, i - 1) = ss[i] \o Left(ss, rest, i)
    BY LeftIs, ZenonT(60)
  <2> QED
    BY <2>1
<1>2. /\ acc(0) = <<>> /\ acc(n) = vs /\ n \in Nat
      /\ \A i \in 1..n : Append(acc(i - 1), vs[i]) = acc(i)
  BY UptoIs, SeqFacts
<1>3. ASSUME NEW i \in 1..n PROVE P(i, at(i - 1)) = Done(vs[i], at(i))
  <2>1. IsRowAs(ds, ss[i], vs[i]) /\ IsStream(at(i)) /\ at(i - 1) = ss[i] \o at(i)
    BY <1>1, <1>2
  <2> HIDE DEF at
  <2> QED
    BY <2>1 DEF IsRowAs
<1>4. RowsTaken(ds, Len(vs), in) = (CHOOSE f : Is(f))[n]
  <2> HIDE DEF in
  <2> QED
    BY DEF RowsTaken, RdEach, RdFold
<1>5. ASSUME NEW i, NEW a, NEW s, NEW v, NEW t, P(i, s) = Done(v, t)
      PROVE  Step(Done(a, s), i) = Done(Append(a, v), t)
  <2> DEFINE x == Done(a, s)
             y == P(i, s)
  <2>1. x.ok /\ x.v = a /\ x.in = s
    BY DEF Done
  <2>2. y.ok /\ y.v = v /\ y.in = t
    BY <1>5 DEF Done
  <2>3. Step(x, i) = IF x.ok THEN (IF P(i, x.in).ok THEN Done(Append(x.v, P(i, x.in).v), P(i, x.in).in)
                                                    ELSE P(i, x.in)) ELSE x
    <3> HIDE DEF x, P
    <3> QED
      BY DEF Then
  <2>4. P(i, x.in) = y
    <3> HIDE DEF x, P
    <3> QED
      BY <2>1
  <2>5. Step(x, i) = Done(Append(a, v), t)
    <3> HIDE DEF x, y, P, Step
    <3> QED
      BY <2>1, <2>2, <2>3, <2>4
  <2> HIDE DEF P, Step
  <2> QED
    BY <2>5
<1> HIDE DEF P, Step, in, at, acc, n
<1>6. ASSUME NEW i \in 1..n PROVE Step(r[i - 1], i) = r[i]
  <2>1. i - 1 \in 0..n /\ i \in 0..n
    BY <1>2
  <2>2. r[i - 1] = Done(acc(i - 1), at(i - 1)) /\ r[i] = Done(acc(i), at(i))
    BY <2>1
  <2> HIDE DEF r
  <2> DEFINE s == at(i - 1)
             t == at(i)
             a == acc(i - 1)
  <2>4. P(i, s) = Done(vs[i], t)
    BY <1>3
  <2> HIDE DEF s, t, a
  <2>5. Step(Done(a, s), i) = Done(Append(a, vs[i]), t)
    BY <1>5, <2>4
  <2>3. Step(Done(acc(i - 1), at(i - 1)), i) = Done(Append(acc(i - 1), vs[i]), at(i))
    BY <2>5 DEF s, t, a
  <2> QED
    BY <1>2, <2>2, <2>3
<1>7. Is(r)
  <2>1. \A i \in 0..n : r[i] = IF i = 0 THEN Done(<<>>, in) ELSE Step(r[i - 1], i)
    <3> TAKE i \in 0..n
    <3>1. CASE i = 0
      BY <1>1, <1>2, <3>1
    <3>2. CASE i # 0
      <4>1. i \in 1..n
        BY <1>2, <3>2
      <4> HIDE DEF r
      <4> QED
        BY <1>6, <3>2, <4>1
    <3> QED
      BY <3>1, <3>2
  <2>2. r = [i \in 0..n |-> r[i]]
    OBVIOUS
  <2> HIDE DEF r
  <2> QED
    BY <2>1, <2>2
<1> DEFINE f == CHOOSE g : Is(g)
<1>8. Is(f)
  <2> HIDE DEF Is
  <2> QED
    BY <1>7, Zenon
<1>9. f[n] = r[n]
  <2> DEFINE T == {k \in Nat : k <= n => f[k] = r[k]}
  <2>1. f[0] = r[0]
    <3>1. 0 \in 0..n
      BY <1>2
    <3> HIDE DEF r, f
    <3> QED
      BY <1>7, <1>8, <3>1
  <2>2. ASSUME NEW k \in Nat, k + 1 <= n, f[k] = r[k] PROVE f[k + 1] = r[k + 1]
    <3>1. k + 1 \in 0..n /\ k + 1 # 0 /\ (k + 1) - 1 = k
      BY <1>2, <2>2
    <3> HIDE DEF r, f
    <3>2. f[k + 1] = Step(f[k], k + 1) /\ r[k + 1] = Step(r[k], k + 1)
      BY <1>7, <1>8, <3>1
    <3> QED
      BY <2>2, <3>2
  <2> HIDE DEF f, r
  <2>3. 0 \in T /\ \A k \in Nat : k \in T => k + 1 \in T
    <3>1. 0 \in T
      BY <1>2, <2>1
    <3>2. ASSUME NEW k \in Nat, k \in T PROVE k + 1 \in T
      <4>1. k <= n => f[k] = r[k]
        BY <3>2
      <4>2. ASSUME k + 1 <= n PROVE f[k + 1] = r[k + 1]
        <5>1. k <= n
          BY <1>2, <4>2
        <5> QED
          BY <2>2, <4>1, <4>2, <5>1
      <4> QED
        BY <4>2
    <3> QED
      BY <3>1, <3>2
  <2> HIDE DEF T
  <2>4. n \in T
    BY <1>2, <2>3, AllNumbers
  <2> QED
    BY <1>2, <2>4 DEF T
<1>10. r[n] = Done(vs, rest)
  <2>1. n \in 0..n
    BY <1>2
  <2> QED
    BY <1>1, <1>2, <2>1
<1> QED
  BY <1>4, <1>9, <1>10 DEF in

IsOptionAs(b, v) ==
    IsStream(b) /\ \A i, s : IsStream(s) => TakeOption(i, b \o s) = Done(v, s)

\* Options are.
LEMMA OptionsAreTaken ==
  ASSUME NEW vs, IsSeq(vs), NEW ss, IsStreams(ss), Len(ss) = Len(vs),
         NEW rest, IsStream(rest), \A i \in 1..Len(vs) : IsOptionAs(ss[i], vs[i])
  PROVE  RdEach(TakeOption, Len(vs), Flat(ss) \o rest) = Done(vs, rest)
<1> DEFINE n == Len(vs)
           in == Flat(ss) \o rest
           at(i) == Left(ss, rest, i)
           acc(i) == Upto(vs, i)
           P(i, s) == TakeOption(i, s)
           Step(x, i) == Then(x, LAMBDA a, s : Then(P(i, s), LAMBDA v, t : Done(Append(a, v), t)))
           r == [i \in 0..n |-> Done(acc(i), at(i))]
           Is(f) == f = [i \in 0..n |-> IF i = 0 THEN Done(<<>>, in) ELSE Step(f[i - 1], i)]
<1>1. /\ at(0) = in /\ at(n) = rest /\ \A i \in 0..n : IsStream(at(i))
      /\ \A i \in 1..n : at(i - 1) = ss[i] \o at(i)
  <2>1. /\ Left(ss, rest, 0) = Flat(ss) \o rest /\ Left(ss, rest, Len(ss)) = rest
        /\ \A i \in 0..Len(ss) : IsStream(Left(ss, rest, i))
        /\ \A i \in 1..Len(ss) : Left(ss, rest, i - 1) = ss[i] \o Left(ss, rest, i)
    BY LeftIs, ZenonT(60)
  <2> QED
    BY <2>1
<1>2. /\ acc(0) = <<>> /\ acc(n) = vs /\ n \in Nat
      /\ \A i \in 1..n : Append(acc(i - 1), vs[i]) = acc(i)
  BY UptoIs, SeqFacts
<1>3. ASSUME NEW i \in 1..n PROVE P(i, at(i - 1)) = Done(vs[i], at(i))
  <2>1. IsOptionAs(ss[i], vs[i]) /\ IsStream(at(i)) /\ at(i - 1) = ss[i] \o at(i)
    BY <1>1, <1>2
  <2> HIDE DEF at
  <2> QED
    BY <2>1 DEF IsOptionAs
<1>4. RdEach(TakeOption, Len(vs), in) = (CHOOSE f : Is(f))[n]
  <2> HIDE DEF in
  <2> QED
    BY DEF RdEach, RdFold
<1>5. ASSUME NEW i, NEW a, NEW s, NEW v, NEW t, P(i, s) = Done(v, t)
      PROVE  Step(Done(a, s), i) = Done(Append(a, v), t)
  <2> DEFINE x == Done(a, s)
             y == P(i, s)
  <2>1. x.ok /\ x.v = a /\ x.in = s
    BY DEF Done
  <2>2. y.ok /\ y.v = v /\ y.in = t
    BY <1>5 DEF Done
  <2>3. Step(x, i) = IF x.ok THEN (IF P(i, x.in).ok THEN Done(Append(x.v, P(i, x.in).v), P(i, x.in).in)
                                                    ELSE P(i, x.in)) ELSE x
    <3> HIDE DEF x, P
    <3> QED
      BY DEF Then
  <2>4. P(i, x.in) = y
    <3> HIDE DEF x, P
    <3> QED
      BY <2>1
  <2>5. Step(x, i) = Done(Append(a, v), t)
    <3> HIDE DEF x, y, P, Step
    <3> QED
      BY <2>1, <2>2, <2>3, <2>4
  <2> HIDE DEF P, Step
  <2> QED
    BY <2>5
<1> HIDE DEF P, Step, in, at, acc, n
<1>6. ASSUME NEW i \in 1..n PROVE Step(r[i - 1], i) = r[i]
  <2>1. i - 1 \in 0..n /\ i \in 0..n
    BY <1>2
  <2>2. r[i - 1] = Done(acc(i - 1), at(i - 1)) /\ r[i] = Done(acc(i), at(i))
    BY <2>1
  <2> HIDE DEF r
  <2> DEFINE s == at(i - 1)
             t == at(i)
             a == acc(i - 1)
  <2>4. P(i, s) = Done(vs[i], t)
    BY <1>3
  <2> HIDE DEF s, t, a
  <2>5. Step(Done(a, s), i) = Done(Append(a, vs[i]), t)
    BY <1>5, <2>4
  <2>3. Step(Done(acc(i - 1), at(i - 1)), i) = Done(Append(acc(i - 1), vs[i]), at(i))
    BY <2>5 DEF s, t, a
  <2> QED
    BY <1>2, <2>2, <2>3
<1>7. Is(r)
  <2>1. \A i \in 0..n : r[i] = IF i = 0 THEN Done(<<>>, in) ELSE Step(r[i - 1], i)
    <3> TAKE i \in 0..n
    <3>1. CASE i = 0
      BY <1>1, <1>2, <3>1
    <3>2. CASE i # 0
      <4>1. i \in 1..n
        BY <1>2, <3>2
      <4> HIDE DEF r
      <4> QED
        BY <1>6, <3>2, <4>1
    <3> QED
      BY <3>1, <3>2
  <2>2. r = [i \in 0..n |-> r[i]]
    OBVIOUS
  <2> HIDE DEF r
  <2> QED
    BY <2>1, <2>2
<1> DEFINE f == CHOOSE g : Is(g)
<1>8. Is(f)
  <2> HIDE DEF Is
  <2> QED
    BY <1>7, Zenon
<1>9. f[n] = r[n]
  <2> DEFINE T == {k \in Nat : k <= n => f[k] = r[k]}
  <2>1. f[0] = r[0]
    <3>1. 0 \in 0..n
      BY <1>2
    <3> HIDE DEF r, f
    <3> QED
      BY <1>7, <1>8, <3>1
  <2>2. ASSUME NEW k \in Nat, k + 1 <= n, f[k] = r[k] PROVE f[k + 1] = r[k + 1]
    <3>1. k + 1 \in 0..n /\ k + 1 # 0 /\ (k + 1) - 1 = k
      BY <1>2, <2>2
    <3> HIDE DEF r, f
    <3>2. f[k + 1] = Step(f[k], k + 1) /\ r[k + 1] = Step(r[k], k + 1)
      BY <1>7, <1>8, <3>1
    <3> QED
      BY <2>2, <3>2
  <2> HIDE DEF f, r
  <2>3. 0 \in T /\ \A k \in Nat : k \in T => k + 1 \in T
    <3>1. 0 \in T
      BY <1>2, <2>1
    <3>2. ASSUME NEW k \in Nat, k \in T PROVE k + 1 \in T
      <4>1. k <= n => f[k] = r[k]
        BY <3>2
      <4>2. ASSUME k + 1 <= n PROVE f[k + 1] = r[k + 1]
        <5>1. k <= n
          BY <1>2, <4>2
        <5> QED
          BY <2>2, <4>1, <4>2, <5>1
      <4> QED
        BY <4>2
    <3> QED
      BY <3>1, <3>2
  <2> HIDE DEF T
  <2>4. n \in T
    BY <1>2, <2>3, AllNumbers
  <2> QED
    BY <1>2, <2>4 DEF T
<1>10. r[n] = Done(vs, rest)
  <2>1. n \in 0..n
    BY <1>2
  <2> QED
    BY <1>1, <1>2, <2>1
<1> QED
  BY <1>4, <1>9, <1>10 DEF in

IsTextAs(b, v) ==
    IsStream(b) /\ \A i, s : IsStream(s) => TakeText(i, b \o s) = Done(v, s)

\* Texts are.
LEMMA TextsAreTaken ==
  ASSUME NEW vs, IsSeq(vs), NEW ss, IsStreams(ss), Len(ss) = Len(vs),
         NEW rest, IsStream(rest), \A i \in 1..Len(vs) : IsTextAs(ss[i], vs[i])
  PROVE  RdEach(TakeText, Len(vs), Flat(ss) \o rest) = Done(vs, rest)
<1> DEFINE n == Len(vs)
           in == Flat(ss) \o rest
           at(i) == Left(ss, rest, i)
           acc(i) == Upto(vs, i)
           P(i, s) == TakeText(i, s)
           Step(x, i) == Then(x, LAMBDA a, s : Then(P(i, s), LAMBDA v, t : Done(Append(a, v), t)))
           r == [i \in 0..n |-> Done(acc(i), at(i))]
           Is(f) == f = [i \in 0..n |-> IF i = 0 THEN Done(<<>>, in) ELSE Step(f[i - 1], i)]
<1>1. /\ at(0) = in /\ at(n) = rest /\ \A i \in 0..n : IsStream(at(i))
      /\ \A i \in 1..n : at(i - 1) = ss[i] \o at(i)
  <2>1. /\ Left(ss, rest, 0) = Flat(ss) \o rest /\ Left(ss, rest, Len(ss)) = rest
        /\ \A i \in 0..Len(ss) : IsStream(Left(ss, rest, i))
        /\ \A i \in 1..Len(ss) : Left(ss, rest, i - 1) = ss[i] \o Left(ss, rest, i)
    BY LeftIs, ZenonT(60)
  <2> QED
    BY <2>1
<1>2. /\ acc(0) = <<>> /\ acc(n) = vs /\ n \in Nat
      /\ \A i \in 1..n : Append(acc(i - 1), vs[i]) = acc(i)
  BY UptoIs, SeqFacts
<1>3. ASSUME NEW i \in 1..n PROVE P(i, at(i - 1)) = Done(vs[i], at(i))
  <2>1. IsTextAs(ss[i], vs[i]) /\ IsStream(at(i)) /\ at(i - 1) = ss[i] \o at(i)
    BY <1>1, <1>2
  <2> HIDE DEF at
  <2> QED
    BY <2>1 DEF IsTextAs
<1>4. RdEach(TakeText, Len(vs), in) = (CHOOSE f : Is(f))[n]
  <2> HIDE DEF in
  <2> QED
    BY DEF RdEach, RdFold
<1>5. ASSUME NEW i, NEW a, NEW s, NEW v, NEW t, P(i, s) = Done(v, t)
      PROVE  Step(Done(a, s), i) = Done(Append(a, v), t)
  <2> DEFINE x == Done(a, s)
             y == P(i, s)
  <2>1. x.ok /\ x.v = a /\ x.in = s
    BY DEF Done
  <2>2. y.ok /\ y.v = v /\ y.in = t
    BY <1>5 DEF Done
  <2>3. Step(x, i) = IF x.ok THEN (IF P(i, x.in).ok THEN Done(Append(x.v, P(i, x.in).v), P(i, x.in).in)
                                                    ELSE P(i, x.in)) ELSE x
    <3> HIDE DEF x, P
    <3> QED
      BY DEF Then
  <2>4. P(i, x.in) = y
    <3> HIDE DEF x, P
    <3> QED
      BY <2>1
  <2>5. Step(x, i) = Done(Append(a, v), t)
    <3> HIDE DEF x, y, P, Step
    <3> QED
      BY <2>1, <2>2, <2>3, <2>4
  <2> HIDE DEF P, Step
  <2> QED
    BY <2>5
<1> HIDE DEF P, Step, in, at, acc, n
<1>6. ASSUME NEW i \in 1..n PROVE Step(r[i - 1], i) = r[i]
  <2>1. i - 1 \in 0..n /\ i \in 0..n
    BY <1>2
  <2>2. r[i - 1] = Done(acc(i - 1), at(i - 1)) /\ r[i] = Done(acc(i), at(i))
    BY <2>1
  <2> HIDE DEF r
  <2> DEFINE s == at(i - 1)
             t == at(i)
             a == acc(i - 1)
  <2>4. P(i, s) = Done(vs[i], t)
    BY <1>3
  <2> HIDE DEF s, t, a
  <2>5. Step(Done(a, s), i) = Done(Append(a, vs[i]), t)
    BY <1>5, <2>4
  <2>3. Step(Done(acc(i - 1), at(i - 1)), i) = Done(Append(acc(i - 1), vs[i]), at(i))
    BY <2>5 DEF s, t, a
  <2> QED
    BY <1>2, <2>2, <2>3
<1>7. Is(r)
  <2>1. \A i \in 0..n : r[i] = IF i = 0 THEN Done(<<>>, in) ELSE Step(r[i - 1], i)
    <3> TAKE i \in 0..n
    <3>1. CASE i = 0
      BY <1>1, <1>2, <3>1
    <3>2. CASE i # 0
      <4>1. i \in 1..n
        BY <1>2, <3>2
      <4> HIDE DEF r
      <4> QED
        BY <1>6, <3>2, <4>1
    <3> QED
      BY <3>1, <3>2
  <2>2. r = [i \in 0..n |-> r[i]]
    OBVIOUS
  <2> HIDE DEF r
  <2> QED
    BY <2>1, <2>2
<1> DEFINE f == CHOOSE g : Is(g)
<1>8. Is(f)
  <2> HIDE DEF Is
  <2> QED
    BY <1>7, Zenon
<1>9. f[n] = r[n]
  <2> DEFINE T == {k \in Nat : k <= n => f[k] = r[k]}
  <2>1. f[0] = r[0]
    <3>1. 0 \in 0..n
      BY <1>2
    <3> HIDE DEF r, f
    <3> QED
      BY <1>7, <1>8, <3>1
  <2>2. ASSUME NEW k \in Nat, k + 1 <= n, f[k] = r[k] PROVE f[k + 1] = r[k + 1]
    <3>1. k + 1 \in 0..n /\ k + 1 # 0 /\ (k + 1) - 1 = k
      BY <1>2, <2>2
    <3> HIDE DEF r, f
    <3>2. f[k + 1] = Step(f[k], k + 1) /\ r[k + 1] = Step(r[k], k + 1)
      BY <1>7, <1>8, <3>1
    <3> QED
      BY <2>2, <3>2
  <2> HIDE DEF f, r
  <2>3. 0 \in T /\ \A k \in Nat : k \in T => k + 1 \in T
    <3>1. 0 \in T
      BY <1>2, <2>1
    <3>2. ASSUME NEW k \in Nat, k \in T PROVE k + 1 \in T
      <4>1. k <= n => f[k] = r[k]
        BY <3>2
      <4>2. ASSUME k + 1 <= n PROVE f[k + 1] = r[k + 1]
        <5>1. k <= n
          BY <1>2, <4>2
        <5> QED
          BY <2>2, <4>1, <4>2, <5>1
      <4> QED
        BY <4>2
    <3> QED
      BY <3>1, <3>2
  <2> HIDE DEF T
  <2>4. n \in T
    BY <1>2, <2>3, AllNumbers
  <2> QED
    BY <1>2, <2>4 DEF T
<1>10. r[n] = Done(vs, rest)
  <2>1. n \in 0..n
    BY <1>2
  <2> QED
    BY <1>1, <1>2, <2>1
<1> QED
  BY <1>4, <1>9, <1>10 DEF in

IsAuthFieldAs(b, v) ==
    IsStream(b) /\ \A i, s : IsStream(s) => TakeAuthField(i, b \o s) = Done(v, s)

\* Fields of an authentication are.
LEMMA AuthFieldsAreTaken ==
  ASSUME NEW vs, IsSeq(vs), NEW ss, IsStreams(ss), Len(ss) = Len(vs),
         NEW rest, IsStream(rest), \A i \in 1..Len(vs) : IsAuthFieldAs(ss[i], vs[i])
  PROVE  RdEach(TakeAuthField, Len(vs), Flat(ss) \o rest) = Done(vs, rest)
<1> DEFINE n == Len(vs)
           in == Flat(ss) \o rest
           at(i) == Left(ss, rest, i)
           acc(i) == Upto(vs, i)
           P(i, s) == TakeAuthField(i, s)
           Step(x, i) == Then(x, LAMBDA a, s : Then(P(i, s), LAMBDA v, t : Done(Append(a, v), t)))
           r == [i \in 0..n |-> Done(acc(i), at(i))]
           Is(f) == f = [i \in 0..n |-> IF i = 0 THEN Done(<<>>, in) ELSE Step(f[i - 1], i)]
<1>1. /\ at(0) = in /\ at(n) = rest /\ \A i \in 0..n : IsStream(at(i))
      /\ \A i \in 1..n : at(i - 1) = ss[i] \o at(i)
  <2>1. /\ Left(ss, rest, 0) = Flat(ss) \o rest /\ Left(ss, rest, Len(ss)) = rest
        /\ \A i \in 0..Len(ss) : IsStream(Left(ss, rest, i))
        /\ \A i \in 1..Len(ss) : Left(ss, rest, i - 1) = ss[i] \o Left(ss, rest, i)
    BY LeftIs, ZenonT(60)
  <2> QED
    BY <2>1
<1>2. /\ acc(0) = <<>> /\ acc(n) = vs /\ n \in Nat
      /\ \A i \in 1..n : Append(acc(i - 1), vs[i]) = acc(i)
  BY UptoIs, SeqFacts
<1>3. ASSUME NEW i \in 1..n PROVE P(i, at(i - 1)) = Done(vs[i], at(i))
  <2>1. IsAuthFieldAs(ss[i], vs[i]) /\ IsStream(at(i)) /\ at(i - 1) = ss[i] \o at(i)
    BY <1>1, <1>2
  <2> HIDE DEF at
  <2> QED
    BY <2>1 DEF IsAuthFieldAs
<1>4. RdEach(TakeAuthField, Len(vs), in) = (CHOOSE f : Is(f))[n]
  <2> HIDE DEF in
  <2> QED
    BY DEF RdEach, RdFold
<1>5. ASSUME NEW i, NEW a, NEW s, NEW v, NEW t, P(i, s) = Done(v, t)
      PROVE  Step(Done(a, s), i) = Done(Append(a, v), t)
  <2> DEFINE x == Done(a, s)
             y == P(i, s)
  <2>1. x.ok /\ x.v = a /\ x.in = s
    BY DEF Done
  <2>2. y.ok /\ y.v = v /\ y.in = t
    BY <1>5 DEF Done
  <2>3. Step(x, i) = IF x.ok THEN (IF P(i, x.in).ok THEN Done(Append(x.v, P(i, x.in).v), P(i, x.in).in)
                                                    ELSE P(i, x.in)) ELSE x
    <3> HIDE DEF x, P
    <3> QED
      BY DEF Then
  <2>4. P(i, x.in) = y
    <3> HIDE DEF x, P
    <3> QED
      BY <2>1
  <2>5. Step(x, i) = Done(Append(a, v), t)
    <3> HIDE DEF x, y, P, Step
    <3> QED
      BY <2>1, <2>2, <2>3, <2>4
  <2> HIDE DEF P, Step
  <2> QED
    BY <2>5
<1> HIDE DEF P, Step, in, at, acc, n
<1>6. ASSUME NEW i \in 1..n PROVE Step(r[i - 1], i) = r[i]
  <2>1. i - 1 \in 0..n /\ i \in 0..n
    BY <1>2
  <2>2. r[i - 1] = Done(acc(i - 1), at(i - 1)) /\ r[i] = Done(acc(i), at(i))
    BY <2>1
  <2> HIDE DEF r
  <2> DEFINE s == at(i - 1)
             t == at(i)
             a == acc(i - 1)
  <2>4. P(i, s) = Done(vs[i], t)
    BY <1>3
  <2> HIDE DEF s, t, a
  <2>5. Step(Done(a, s), i) = Done(Append(a, vs[i]), t)
    BY <1>5, <2>4
  <2>3. Step(Done(acc(i - 1), at(i - 1)), i) = Done(Append(acc(i - 1), vs[i]), at(i))
    BY <2>5 DEF s, t, a
  <2> QED
    BY <1>2, <2>2, <2>3
<1>7. Is(r)
  <2>1. \A i \in 0..n : r[i] = IF i = 0 THEN Done(<<>>, in) ELSE Step(r[i - 1], i)
    <3> TAKE i \in 0..n
    <3>1. CASE i = 0
      BY <1>1, <1>2, <3>1
    <3>2. CASE i # 0
      <4>1. i \in 1..n
        BY <1>2, <3>2
      <4> HIDE DEF r
      <4> QED
        BY <1>6, <3>2, <4>1
    <3> QED
      BY <3>1, <3>2
  <2>2. r = [i \in 0..n |-> r[i]]
    OBVIOUS
  <2> HIDE DEF r
  <2> QED
    BY <2>1, <2>2
<1> DEFINE f == CHOOSE g : Is(g)
<1>8. Is(f)
  <2> HIDE DEF Is
  <2> QED
    BY <1>7, Zenon
<1>9. f[n] = r[n]
  <2> DEFINE T == {k \in Nat : k <= n => f[k] = r[k]}
  <2>1. f[0] = r[0]
    <3>1. 0 \in 0..n
      BY <1>2
    <3> HIDE DEF r, f
    <3> QED
      BY <1>7, <1>8, <3>1
  <2>2. ASSUME NEW k \in Nat, k + 1 <= n, f[k] = r[k] PROVE f[k + 1] = r[k + 1]
    <3>1. k + 1 \in 0..n /\ k + 1 # 0 /\ (k + 1) - 1 = k
      BY <1>2, <2>2
    <3> HIDE DEF r, f
    <3>2. f[k + 1] = Step(f[k], k + 1) /\ r[k + 1] = Step(r[k], k + 1)
      BY <1>7, <1>8, <3>1
    <3> QED
      BY <2>2, <3>2
  <2> HIDE DEF f, r
  <2>3. 0 \in T /\ \A k \in Nat : k \in T => k + 1 \in T
    <3>1. 0 \in T
      BY <1>2, <2>1
    <3>2. ASSUME NEW k \in Nat, k \in T PROVE k + 1 \in T
      <4>1. k <= n => f[k] = r[k]
        BY <3>2
      <4>2. ASSUME k + 1 <= n PROVE f[k + 1] = r[k + 1]
        <5>1. k <= n
          BY <1>2, <4>2
        <5> QED
          BY <2>2, <4>1, <4>2, <5>1
      <4> QED
        BY <4>2
    <3> QED
      BY <3>1, <3>2
  <2> HIDE DEF T
  <2>4. n \in T
    BY <1>2, <2>3, AllNumbers
  <2> QED
    BY <1>2, <2>4 DEF T
<1>10. r[n] = Done(vs, rest)
  <2>1. n \in 0..n
    BY <1>2
  <2> QED
    BY <1>1, <1>2, <2>1
<1> QED
  BY <1>4, <1>9, <1>10 DEF in
-----------------------------------------------------------------------------
(* The order in which the entries of a hash map are written.               *)
LEMMA OrderOfMap ==
  ASSUME NEW M, IsFiniteSet(M)
  PROVE  /\ IsSeq(InSomeOrder(M)) /\ Len(InSomeOrder(M)) = Cardinality(M) /\ Cardinality(M) \in Nat
         /\ \A i \in 1..Cardinality(M) : InSomeOrder(M)[i] \in M
         /\ \A x \in M : \E i \in 1..Cardinality(M) : InSomeOrder(M)[i] = x
<1> DEFINE n == Cardinality(M)
           ids == InSomeOrder(M)
           Is(f) == f \in [1..n -> M] /\ \A a, b \in DOMAIN f : f[a] = f[b] => a = b
<1>1. n \in Nat /\ ExistsBijection(1..n, M)
  BY FS_CardinalityType
<1>2. ids = CHOOSE f \in [1..n -> M] : \A a, b \in DOMAIN f : f[a] = f[b] => a = b
  <2>1. S!Cardinality(M) = Cardinality(M)
    BY DEF S!Cardinality, Cardinality
  <2>2. ids = CHOOSE f \in [1..S!Cardinality(M) -> M] : \A a, b \in DOMAIN f : f[a] = f[b] => a = b
    BY DEF InSomeOrder, S!SetToSeq, S!IsInjective
  <2> HIDE DEF ids
  <2> QED
    BY <2>1, <2>2
<1>3. \E f : Is(f)
  BY <1>1 DEF ExistsBijection, Bijection, Injection, IsInjective
<1>4. ids \in [1..n -> M] /\ \A a, b \in 1..n : ids[a] = ids[b] => a = b
  BY <1>2, <1>3
<1> HIDE DEF ids, n
<1>5. ids \in Surjection(1..n, M)
  <2>1. ids \in Injection(1..n, M)
    BY <1>4 DEF Injection, IsInjective
  <2>2. Cardinality(1..n) = n
    BY <1>1, FS_Interval
  <2>3. Cardinality(1..n) = Cardinality(M)
    BY <2>2 DEF n
  <2> QED
    BY <2>1, <2>3, FS_Injection
<1>6. IsSeq(ids) /\ Len(ids) = n
  BY <1>1, <1>4, FunctionIs
<1> QED
  BY <1>1, <1>4, <1>5, <1>6 DEF Surjection, ids, n
-----------------------------------------------------------------------------
(* Options.                                                                *)

\* The types of options, and their widths.
LEMMA OptionTypesAre ==
  /\ DOMAIN OptionWidth = {"INT", "BIGINT", "DOUBLE", "BOOLEAN"}
  /\ OptionType["INT"] = 3 /\ OptionType["BIGINT"] = 4 /\ OptionType["DOUBLE"] = 7
  /\ OptionType["BOOLEAN"] = 28 /\ OptionType["STRING"] = 29 /\ OptionType["BSTRING"] = 33
  /\ OptionWidth["INT"] = 4 /\ OptionWidth["BIGINT"] = 8 /\ OptionWidth["DOUBLE"] = 8
  /\ OptionWidth["BOOLEAN"] = 1
<1> QED
  BY DEF OptionType, OptionWidth

\* How many bytes the database reads behind the type of an option.
FieldWidth(type) == CASE type = 3 -> 4 [] type \in {4, 7} -> 8 [] type = 28 -> 1 [] OTHER -> 2

\* The width that the database expects behind the type of an option.
LEMMA FieldWidthIs ==
  /\ FieldWidth(3) = 4 /\ FieldWidth(4) = 8 /\ FieldWidth(7) = 8 /\ FieldWidth(28) = 1
  /\ FieldWidth(29) = 2 /\ FieldWidth(33) = 2
<1> QED
  BY DEF FieldWidth

\* An option that is a number is read.
LEMMA TakeNumberOption ==
  ASSUME NEW i, NEW id, NEW type, NEW n, NEW in, NEW s, NEW t,
         Rd(<<1, 1>>, in) = Done(<<id, type>>, s), Rd1(FieldWidth(type), s) = Done(n, t),
         type \notin {29, 33}
  PROVE  TakeOption(i, in) = Done(<<id, type, n>>, t)
<1> DEFINE r == Rd(<<1, 1>>, in)
           X(h, a) == Rd1(FieldWidth(h[2]), a)
           Z(m, u) == RdBytes(m, u)
           Y(h, x) == IF h[2] \notin {29, 33} THEN Done(<<h[1], h[2], x.v>>, x.in)
                      ELSE IF Z(x.v, x.in).ok THEN Done(h \o Z(x.v, x.in).v, Z(x.v, x.in).in) ELSE Z(x.v, x.in)
<1>1. TakeOption(i, in) = IF r.ok THEN (IF X(r.v, r.in).ok THEN Y(r.v, X(r.v, r.in)) ELSE X(r.v, r.in)) ELSE r
  <2> HIDE DEF r
  <2>1. TakeOption(i, in) =
          Then(r, LAMBDA h, a :
            Then(X(h, a), LAMBDA m, u :
              IF h[2] \notin {29, 33} THEN Done(<<h[1], h[2], m>>, u)
              ELSE Then(Z(m, u), LAMBDA c, over : Done(h \o c, over))))
    BY DEF TakeOption, FieldWidth, r
  <2> HIDE DEF X, Z
  <2> QED
    BY <2>1 DEF Then
<1>2. r.ok /\ r.v = <<id, type>> /\ r.in = s
  BY DEF Done
<1> DEFINE x == X(<<id, type>>, s)
<1>3. x.ok /\ x.v = n /\ x.in = t
  <2>1. x = Done(n, t)
    OBVIOUS
  <2> HIDE DEF x
  <2> QED
    BY <2>1 DEF Done
<1>4. TakeOption(i, in) = Y(<<id, type>>, x)
  <2> HIDE DEF r, X, Y
  <2> QED
    BY <1>1, <1>2, <1>3
<1>5. Y(<<id, type>>, x) = IF type \notin {29, 33} THEN Done(<<id, type, x.v>>, x.in)
                      ELSE IF Z(x.v, x.in).ok THEN Done(<<id, type>> \o Z(x.v, x.in).v, Z(x.v, x.in).in) ELSE Z(x.v, x.in)
  <2> HIDE DEF x, X, Z
  <2> QED
    OBVIOUS
<1> HIDE DEF x, r, X, Y
<1> QED
  BY <1>3, <1>4, <1>5

\* An option that is a text is read with its length.
LEMMA TakeTextOption ==
  ASSUME NEW i, NEW id, NEW type, NEW n, NEW in, NEW s, NEW t, NEW b, NEW rest,
         Rd(<<1, 1>>, in) = Done(<<id, type>>, s), Rd1(FieldWidth(type), s) = Done(n, t),
         type \in {29, 33}, RdBytes(n, t) = Done(b, rest)
  PROVE  TakeOption(i, in) = Done(<<id, type>> \o b, rest)
<1> DEFINE r == Rd(<<1, 1>>, in)
           X(h, a) == Rd1(FieldWidth(h[2]), a)
           Z(m, u) == RdBytes(m, u)
           Y(h, x) == IF h[2] \notin {29, 33} THEN Done(<<h[1], h[2], x.v>>, x.in)
                      ELSE IF Z(x.v, x.in).ok THEN Done(h \o Z(x.v, x.in).v, Z(x.v, x.in).in) ELSE Z(x.v, x.in)
<1>1. TakeOption(i, in) = IF r.ok THEN (IF X(r.v, r.in).ok THEN Y(r.v, X(r.v, r.in)) ELSE X(r.v, r.in)) ELSE r
  <2> HIDE DEF r
  <2>1. TakeOption(i, in) =
          Then(r, LAMBDA h, a :
            Then(X(h, a), LAMBDA m, u :
              IF h[2] \notin {29, 33} THEN Done(<<h[1], h[2], m>>, u)
              ELSE Then(Z(m, u), LAMBDA c, over : Done(h \o c, over))))
    BY DEF TakeOption, FieldWidth, r
  <2> HIDE DEF X, Z
  <2> QED
    BY <2>1 DEF Then
<1>2. r.ok /\ r.v = <<id, type>> /\ r.in = s
  BY DEF Done
<1> DEFINE x == X(<<id, type>>, s)
<1>3. x.ok /\ x.v = n /\ x.in = t
  <2>1. x = Done(n, t)
    OBVIOUS
  <2> HIDE DEF x
  <2> QED
    BY <2>1 DEF Done
<1>4. TakeOption(i, in) = Y(<<id, type>>, x)
  <2> HIDE DEF r, X, Y
  <2> QED
    BY <1>1, <1>2, <1>3
<1>5. Y(<<id, type>>, x) = IF type \notin {29, 33} THEN Done(<<id, type, x.v>>, x.in)
                      ELSE IF Z(x.v, x.in).ok THEN Done(<<id, type>> \o Z(x.v, x.in).v, Z(x.v, x.in).in) ELSE Z(x.v, x.in)
  <2> HIDE DEF x, X, Z
  <2> QED
    OBVIOUS
<1> DEFINE z == Z(x.v, x.in)
           h == <<id, type>>
<1>6. z.ok /\ z.v = b /\ z.in = rest
  <2>1. z = Done(b, rest)
    BY <1>3
  <2> HIDE DEF z
  <2> QED
    BY <2>1 DEF Done
<1>7. Y(h, x) = IF type \notin {29, 33} THEN Done(<<id, type, x.v>>, x.in)
                ELSE IF z.ok THEN Done(h \o z.v, z.in) ELSE z
  BY <1>5
<1> HIDE DEF x, r, X, Y, z
<1>8. Y(h, x) = Done(h \o b, rest)
  BY <1>6, <1>7
<1> HIDE DEF h
<1> QED
  BY <1>4, <1>8 DEF h
-----------------------------------------------------------------------------
\* One more element behind two.
LEMMA OneMore ==
  ASSUME NEW a, NEW b, NEW c
  PROVE  <<a, b>> \o <<c>> = <<a, b, c>>
<1> DEFINE p == <<a, b>>
           q == <<c>>
           r == <<a, b, c>>
<1>1. IsSeq(p) /\ Len(p) = 2 /\ p[1] = a /\ p[2] = b
  BY TwoAre
<1>2. IsSeq(q) /\ Len(q) = 1 /\ q[1] = c
  BY OneIsSeq
<1>3. IsSeq(r) /\ Len(r) = 3 /\ r[1] = a /\ r[2] = b /\ r[3] = c
  BY ThreeAre
<1> HIDE DEF p, q, r
<1>4. /\ IsSeq(p \o q) /\ Len(p \o q) = Len(p) + Len(q)
      /\ \A i \in 1..Len(p) : (p \o q)[i] = p[i]
      /\ \A i \in 1..Len(q) : (p \o q)[Len(p) + i] = q[i]
  <2>1. IsSeq(p) /\ IsSeq(q)
    BY <1>1, <1>2
  <2>2. AreJoined(p \o q, p, q)
    BY <2>1, ConcatSeq
  <2> QED
    BY <2>2 DEF AreJoined
<1>5. Len(p \o q) = 3 /\ (p \o q)[1] = a /\ (p \o q)[2] = b /\ (p \o q)[3] = c
  BY <1>1, <1>2, <1>4
<1>6. p \o q = r
  <2>1. \A i \in 1..Len(p \o q) : (p \o q)[i] = r[i]
    BY <1>3, <1>5
  <2> DEFINE u == p \o q
  <2> HIDE DEF u
  <2>2. IsSeq(u) /\ Len(u) = Len(r) /\ \A i \in 1..Len(u) : u[i] = r[i]
    BY <1>3, <1>4, <1>5, <2>1 DEF u
  <2> QED
    BY <1>3, <2>2, SameSeq DEF u
<1> QED
  BY <1>6 DEF p, q, r

\* Two bytes before something.
LEMMA TwoBytesBefore ==
  ASSUME NEW a, NEW b, NEW x, IsStream(x), NEW s, IsStream(s)
  PROVE  /\ IsStream((Put(1, a) \o Put(1, b)) \o x) /\ Width((Put(1, a) \o Put(1, b)) \o x) = 2 + Width(x)
         /\ Rd(<<1, 1>>, ((Put(1, a) \o Put(1, b)) \o x) \o s) = Done(<<a, b>>, x \o s)
<1> DEFINE ws == <<1, 1>>
           vs == <<a, b>>
           h == Put(1, a) \o Put(1, b)
           o == 1
<1>0. TwoFields(ws, vs, o, o, a, b) /\ o = 1
  BY DEF TwoFields
<1>1. Widths(ws) /\ Len(ws) = 2 /\ IsSeq(vs) /\ Len(vs) = 2
  <2>1. IsSeq(ws) /\ Len(ws) = 2 /\ ws[1] = 1 /\ ws[2] = 1
    BY TwoAre
  <2>2. IsSeq(vs) /\ Len(vs) = 2
    BY TwoAre
  <2> HIDE DEF ws, vs
  <2> QED
    BY <2>1, <2>2 DEF Widths
<1>2. PutAll(ws, vs) = h
  <2> HIDE DEF ws, vs, h, o
  <2>1. PutAll(ws, vs) = Put(o, a) \o Put(o, b)
    BY <1>0, PutTwo
  <2> QED
    BY <1>0, <2>1 DEF h
<1>3. IsStream(h) /\ Width(h) = 2
  <2>1. IsStream(Put(1, a)) /\ IsStream(Put(1, b)) /\ Width(Put(1, a)) = 1 /\ Width(Put(1, b)) = 1
    BY PutStream, WidthPut
  <2> DEFINE p == Put(1, a)
             q == Put(1, b)
  <2> HIDE DEF p, q
  <2>2. IsStream(p \o q) /\ Width(p \o q) = Width(p) + Width(q)
    BY <2>1, StreamJoined, WidthJoined DEF p, q
  <2> QED
    BY <2>1, <2>2 DEF p, q
<1>4. IsStream(x \o s)
  BY StreamJoined
<1> HIDE DEF ws, vs, h
<1>5. (h \o x) \o s = h \o (x \o s)
  BY <1>3, Joined, SMTT(60) DEF IsStream
<1>6. Rd(ws, PutAll(ws, vs) \o (x \o s)) = Done(vs, x \o s)
  BY <1>1, <1>4, RdPutAll
<1>7. IsStream(h \o x) /\ Width(h \o x) = 2 + Width(x)
  BY <1>3, StreamJoined, WidthJoined
<1> QED
  BY <1>2, <1>5, <1>6, <1>7 DEF ws, vs, h

\* An option is taken as what it was, and has the size that was computed.
LEMMA OptionIsTaken ==
  ASSUME NEW id, NEW val, IsOption(val)
  PROVE  /\ IsOptionAs(EmitOption(id, val), <<id, OptionType[val.t]>> \o val.v)
         /\ Width(EmitOption(id, val)) = 1 + OptionSize(val) /\ OptionSize(val) \in Nat
<1> DEFINE ty == OptionType[val.t]
           b == EmitOption(id, val)
           v == <<id, ty>> \o val.v
<1>1. CASE val.t \notin {"STRING", "BSTRING"}
  <2> DEFINE w == OptionWidth[val.t]
             n == val.v[1]
             x == Put(w, n)
  <2>1. w \in Nat \ {0} /\ w = FieldWidth(ty) /\ ty \notin {29, 33} /\ val.t \in DOMAIN OptionWidth
    BY <1>1, OptionTypesAre, FieldWidthIs DEF IsOption, OptionTypes
  <2>2. b = (Put(1, id) \o Put(1, ty)) \o x
    BY <2>1 DEF EmitOption
  <2>3. OptionSize(val) = 1 + w
    BY <2>1 DEF OptionSize
  <2>4. val.v = <<n>>
    BY <1>1 DEF IsOption
  <2>5. v = <<id, ty, n>>
    <3> HIDE DEF ty, n
    <3>1. <<id, ty>> \o <<n>> = <<id, ty, n>>
      BY OneMore
    <3> QED
      BY <2>4, <3>1
  <2> HIDE DEF ty, w, n
  <2>6. IsStream(x) /\ Width(x) = w
    BY <2>1, PutStream, WidthPut
  <2> HIDE DEF b, v
  <2>7. ASSUME NEW i, NEW s, IsStream(s) PROVE TakeOption(i, b \o s) = Done(v, s)
    <3>1. Rd1(w, x \o s) = Done(n, s)
      BY <2>1, <2>7, Rd1Put
    <3> HIDE DEF x
    <3>2. Rd(<<1, 1>>, b \o s) = Done(<<id, ty>>, x \o s)
      BY <2>2, <2>6, <2>7, TwoBytesBefore
    <3> DEFINE in == b \o s
               t == x \o s
    <3> HIDE DEF in, t
    <3>3. Rd(<<1, 1>>, in) = Done(<<id, ty>>, t) /\ Rd1(FieldWidth(ty), t) = Done(n, s)
      BY <2>1, <3>1, <3>2 DEF in, t
    <3>4. TakeOption(i, in) = Done(<<id, ty, n>>, s)
      BY <2>1, <3>3, TakeNumberOption
    <3> QED
      BY <2>5, <3>4 DEF in
  <2>8. IsStream(b) /\ Width(b) = 2 + w
    <3> HIDE DEF x
    <3>1. IsStream(<<>>)
      BY StreamNothing
    <3> QED
      BY <2>2, <2>6, <3>1, TwoBytesBefore, ZenonT(60)
  <2>9. IsOptionAs(b, v)
    BY <2>7, <2>8 DEF IsOptionAs
  <2> QED
    BY <2>1, <2>3, <2>8, <2>9 DEF b, v, ty
<1>2. CASE val.t \in {"STRING", "BSTRING"}
  <2> DEFINE l == val.v[2]
             c == Put(l, val.v[1])
             x == Put(2, l) \o c
  <2>1. ty \in {29, 33} /\ FieldWidth(ty) = 2 /\ val.t \notin DOMAIN OptionWidth
    BY <1>2, OptionTypesAre, FieldWidthIs
  <2>2. b = (Put(1, id) \o Put(1, ty)) \o x
    BY <2>1 DEF EmitOption
  <2>3. OptionSize(val) = 1 + (l + 2)
    BY <2>1 DEF OptionSize
  <2>4. IsBytes(val.v)
    BY <1>2 DEF IsOption
  <2>5. l \in Nat
    BY <2>4 DEF IsBytes
  <2>6. IsStream(c) /\ Width(c) = l /\ IsStream(Put(2, l)) /\ Width(Put(2, l)) = 2
    BY <2>5, PutStream, WidthPut
  <2> DEFINE p == Put(2, l)
  <2> HIDE DEF c, p, l, ty
  <2>7. IsStream(x) /\ Width(x) = 2 + l
    <3>1. IsStream(p \o c) /\ Width(p \o c) = Width(p) + Width(c)
      BY <2>6, StreamJoined, WidthJoined DEF p
    <3> QED
      BY <2>6, <3>1 DEF p
  <2> HIDE DEF b, v
  <2>8. ASSUME NEW i, NEW s, IsStream(s) PROVE TakeOption(i, b \o s) = Done(v, s)
    <3>1. Rd(<<1, 1>>, b \o s) = Done(<<id, ty>>, x \o s)
      <4> HIDE DEF x
      <4> QED
        BY <2>2, <2>7, <2>8, TwoBytesBefore
    <3>2. x \o s = p \o (c \o s) /\ IsStream(c \o s)
      <4>1. (p \o c) \o s = p \o (c \o s)
        BY <2>6, <2>8, Joined DEF IsStream, p
      <4> QED
        BY <2>6, <2>8, <4>1, StreamJoined DEF p
    <3> DEFINE u == c \o s
    <3> HIDE DEF u
    <3>3. Rd1(2, Put(2, l) \o u) = Done(l, u)
      <4>1. IsStream(u)
        BY <3>2 DEF u
      <4> QED
        BY <4>1, Rd1Put
    <3>4. RdBytes(l, u) = Done(val.v, s)
      BY <2>4, <2>8, RdBytesPut DEF u, c, l
    <3> DEFINE in == b \o s
               t == x \o s
    <3>5. t = Put(2, l) \o u
      BY <3>2 DEF p, u
    <3> HIDE DEF in, t, x
    <3>6. Rd(<<1, 1>>, in) = Done(<<id, ty>>, t) /\ Rd1(FieldWidth(ty), t) = Done(l, u)
      BY <2>1, <3>1, <3>3, <3>5 DEF in, t
    <3>7. TakeOption(i, in) = Done(<<id, ty>> \o val.v, s)
      BY <2>1, <3>4, <3>6, TakeTextOption
    <3> QED
      BY <3>7 DEF in, v
  <2>9. IsStream(b) /\ Width(b) = 2 + (2 + l)
    <3> HIDE DEF x
    <3>1. IsStream(<<>>)
      BY StreamNothing
    <3> QED
      BY <2>2, <2>7, <3>1, TwoBytesBefore, ZenonT(60)
  <2>10. IsOptionAs(b, v)
    BY <2>8, <2>9 DEF IsOptionAs
  <2> QED
    BY <2>3, <2>5, <2>9, <2>10 DEF b, v, ty
<1> QED
  BY <1>1, <1>2
-----------------------------------------------------------------------------
(* Parts, by their kind.                                                   *)
LEMMA KindsAre ==
  /\ OptionKinds = {"ClientContext", "CommandInfo", "ConnectOptions", "LobFlags", "SessionContext",
                    "StatementContext", "TransactionFlags", "XatOptions"}
  /\ \A kind \in OptionKinds : PartKind[kind] \in {27, 29, 34, 39, 42, 64, 68, 70}
  /\ PartKind["Command"] = 3 /\ PartKind["StatementId"] = 10 /\ PartKind["ResultSetId"] = 13
  /\ PartKind["FetchSize"] = 45 /\ PartKind["ReadLobRequest"] = 17 /\ PartKind["WriteLobRequest"] = 28
  /\ PartKind["Parameters"] = 32 /\ PartKind["Authentication"] = 33 /\ PartKind["ClientInfo"] = 57
<1>1. OptionKinds = {"ClientContext", "CommandInfo", "ConnectOptions", "LobFlags", "SessionContext",
                    "StatementContext", "TransactionFlags", "XatOptions"}
  BY DEF OptionKinds
<1>2. /\ PartKind["ClientContext"] = 29 /\ PartKind["CommandInfo"] = 27 /\ PartKind["ConnectOptions"] = 42
      /\ PartKind["LobFlags"] = 68 /\ PartKind["SessionContext"] = 34 /\ PartKind["StatementContext"] = 39
      /\ PartKind["TransactionFlags"] = 64 /\ PartKind["XatOptions"] = 70
  BY DEF PartKind
<1>3. \A kind \in OptionKinds : PartKind[kind] \in {27, 29, 34, 39, 42, 64, 68, 70}
  BY <1>1, <1>2
<1> QED
  BY <1>1, <1>3 DEF PartKind

RowsWritten(rows, ds) == WriteEach([i \in DOMAIN rows |-> EmitRow(rows[i], ds)])

\* What Part::emit_body writes, kind by kind.
LEMMA BodyIs ==
  ASSUME NEW part, NEW ds
  PROVE  /\ part.kind \in OptionKinds => EmitBody(part, ds) = Done(<<>>, EmitOptions(part.options))
         /\ part.kind = "Authentication" => EmitBody(part, ds) =
                [WriteEach([i \in DOMAIN part.fields |-> EmitAuthField(part.fields[i])])
                    EXCEPT !.in = Put(2, Len(part.fields)) \o @]
         /\ part.kind = "ClientInfo" => LET texts == ClientInfoTexts(part.info) IN
                EmitBody(part, ds) = Done(<<>>, Flat([i \in DOMAIN texts |-> EmitText(texts[i])]))
         /\ part.kind = "Command" => EmitBody(part, ds) = Done(<<>>, Put(part.text[2], part.text[1]))
         /\ part.kind = "FetchSize" => EmitBody(part, ds) = Done(<<>>, Put(4, part.n))
         /\ part.kind = "Parameters" => EmitBody(part, ds) = RowsWritten(part.rows, ds)
         /\ part.kind = "ReadLobRequest" => EmitBody(part, ds) =
                Done(<<>>, PutAll(<<8, 8, 4, 4>>, <<part.locator, part.offset, part.length, 0>>))
         /\ part.kind = "WriteLobRequest" => EmitBody(part, ds) =
                Done(<<>>, PutAll(<<8, 1, 8, 4>>, <<part.locator, IF part.last THEN 6 ELSE 2,
                                                    part.offset, part.data[2]>>)
                           \o Put(part.data[2], part.data[1]))
         /\ part.kind \in {"ResultSetId", "StatementId"} => EmitBody(part, ds) = Done(<<>>, Put(8, part.n))
<1> DEFINE texts == ClientInfoTexts(part.info)
           X1 == Done(<<>>, EmitOptions(part.options))
           X2 == [WriteEach([i \in DOMAIN part.fields |-> EmitAuthField(part.fields[i])])
                    EXCEPT !.in = Put(2, Len(part.fields)) \o @]
           X3 == Done(<<>>, Flat([i \in DOMAIN texts |-> EmitText(texts[i])]))
           X4 == Done(<<>>, Put(part.text[2], part.text[1]))
           X5 == Done(<<>>, Put(4, part.n))
           X6 == RowsWritten(part.rows, ds)
           X7 == Done(<<>>, PutAll(<<8, 8, 4, 4>>, <<part.locator, part.offset, part.length, 0>>))
           X8 == Done(<<>>, PutAll(<<8, 1, 8, 4>>, <<part.locator, IF part.last THEN 6 ELSE 2,
                                                    part.offset, part.data[2]>>)
                           \o Put(part.data[2], part.data[1]))
           X9 == Done(<<>>, Put(8, part.n))
<1>1. EmitBody(part, ds) =
        CASE part.kind \in OptionKinds -> X1
          [] part.kind = "Authentication" -> X2
          [] part.kind = "ClientInfo" -> X3
          [] part.kind = "Command" -> X4
          [] part.kind = "FetchSize" -> X5
          [] part.kind = "Parameters" -> X6
          [] part.kind = "ReadLobRequest" -> X7
          [] part.kind = "WriteLobRequest" -> X8
          [] part.kind \in {"ResultSetId", "StatementId"} -> X9
  BY DEF EmitBody, RowsWritten
<1> HIDE DEF X1, X2, X3, X4, X5, X6, X7, X8, X9
<1>2. /\ part.kind \in OptionKinds => EmitBody(part, ds) = X1
      /\ part.kind = "Authentication" => EmitBody(part, ds) = X2
      /\ part.kind = "ClientInfo" => EmitBody(part, ds) = X3
      /\ part.kind = "Command" => EmitBody(part, ds) = X4
      /\ part.kind = "FetchSize" => EmitBody(part, ds) = X5
      /\ part.kind = "Parameters" => EmitBody(part, ds) = X6
      /\ part.kind = "ReadLobRequest" => EmitBody(part, ds) = X7
      /\ part.kind = "WriteLobRequest" => EmitBody(part, ds) = X8
      /\ part.kind \in {"ResultSetId", "StatementId"} => EmitBody(part, ds) = X9
  BY <1>1, KindsAre
<1> QED
  BY <1>2 DEF X1, X2, X3, X4, X5, X6, X7, X8, X9

\* What Part::size says, kind by kind.
LEMMA BodySizeIs ==
  ASSUME NEW part, NEW ds
  PROVE  /\ part.kind \in OptionKinds => BodySize(part, ds) = SizeOfOptions(part.options)
         /\ part.kind = "Authentication" => BodySize(part, ds) =
                2 + Total([i \in DOMAIN part.fields |-> AuthFieldSize(part.fields[i])])
         /\ part.kind = "ClientInfo" => LET texts == ClientInfoTexts(part.info) IN
                BodySize(part, ds) = Total([i \in DOMAIN texts |-> BinaryLength(texts[i][2])])
         /\ part.kind = "Command" => BodySize(part, ds) = part.text[2]
         /\ part.kind = "FetchSize" => BodySize(part, ds) = 4
         /\ part.kind = "Parameters" => BodySize(part, ds) =
                Total([i \in DOMAIN part.rows |-> RowSize(part.rows[i], ds)])
         /\ part.kind = "ReadLobRequest" => BodySize(part, ds) = 24
         /\ part.kind = "WriteLobRequest" => BodySize(part, ds) = 21 + part.data[2]
         /\ part.kind \in {"ResultSetId", "StatementId"} => BodySize(part, ds) = 8
<1> DEFINE texts == ClientInfoTexts(part.info)
           X1 == SizeOfOptions(part.options)
           X2 == Total([i \in DOMAIN part.fields |-> AuthFieldSize(part.fields[i])])
           X3 == Total([i \in DOMAIN texts |-> BinaryLength(texts[i][2])])
           X4 == part.text[2]
           X6 == Total([i \in DOMAIN part.rows |-> RowSize(part.rows[i], ds)])
           X8 == 21 + part.data[2]
           Y2 == 2 + X2
<1>1. BodySize(part, ds) =
        CASE part.kind \in OptionKinds -> X1
          [] part.kind = "Authentication" -> Y2
          [] part.kind = "ClientInfo" -> X3
          [] part.kind = "Command" -> X4
          [] part.kind = "FetchSize" -> 4
          [] part.kind = "Parameters" -> X6
          [] part.kind = "ReadLobRequest" -> 24
          [] part.kind = "WriteLobRequest" -> X8
          [] part.kind \in {"ResultSetId", "StatementId"} -> 8
  BY DEF BodySize, Sum
<1> HIDE DEF X1, Y2, X3, X4, X6, X8
<1>2. /\ part.kind \in OptionKinds => BodySize(part, ds) = X1
      /\ part.kind = "Authentication" => BodySize(part, ds) = Y2
      /\ part.kind = "ClientInfo" => BodySize(part, ds) = X3
      /\ part.kind = "Command" => BodySize(part, ds) = X4
      /\ part.kind = "FetchSize" => BodySize(part, ds) = 4
      /\ part.kind = "Parameters" => BodySize(part, ds) = X6
      /\ part.kind = "ReadLobRequest" => BodySize(part, ds) = 24
      /\ part.kind = "WriteLobRequest" => BodySize(part, ds) = X8
      /\ part.kind \in {"ResultSetId", "StatementId"} => BodySize(part, ds) = 8
  BY <1>1, KindsAre
<1> QED
  BY <1>2 DEF X1, Y2, X3, X4, X6, X8

\* What Part::count says, kind by kind.
LEMMA CountOfPart ==
  ASSUME NEW part
  PROVE  /\ part.kind \in OptionKinds => Count(part) = Cardinality(DOMAIN part.options)
         /\ part.kind = "ClientInfo" => Count(part) = 2 * Cardinality(DOMAIN part.info)
         /\ part.kind = "Parameters" => Count(part) = Len(part.rows)
         /\ part.kind \in {"Command", "StatementId", "ResultSetId", "FetchSize", "ReadLobRequest",
                           "WriteLobRequest", "Authentication"} => Count(part) = 1
<1> DEFINE X1 == Cardinality(DOMAIN part.options)
           X2 == 2 * Cardinality(DOMAIN part.info)
           X3 == Len(part.rows)
<1>1. Count(part) = CASE part.kind \in OptionKinds -> X1 [] part.kind = "ClientInfo" -> X2
                      [] part.kind = "Parameters" -> X3 [] OTHER -> 1
  BY DEF Count
<1> HIDE DEF X1, X2, X3
<1>2. /\ part.kind \in OptionKinds => Count(part) = X1
      /\ part.kind = "ClientInfo" => Count(part) = X2
      /\ part.kind = "Parameters" => Count(part) = X3
      /\ part.kind \in {"Command", "StatementId", "ResultSetId", "FetchSize", "ReadLobRequest",
                           "WriteLobRequest", "Authentication"} => Count(part) = 1
  BY <1>1, KindsAre
<1> QED
  BY <1>2 DEF X1, X2, X3

\* What is to be understood of a part, kind by kind.
LEMMA UnderstoodIs ==
  ASSUME NEW part, NEW is, NEW ds
  PROVE  /\ part.kind \in OptionKinds => (Understood(part, is, ds) <=> SameOptions(part.options, is))
         /\ part.kind = "Command" => (Understood(part, is, ds) <=> is = part.text)
         /\ part.kind \in {"FetchSize", "StatementId", "ResultSetId"} =>
                (Understood(part, is, ds) <=> is = <<part.n>>)
         /\ part.kind = "ReadLobRequest" =>
                (Understood(part, is, ds) <=> is = <<part.locator, part.offset, part.length, 0>>)
         /\ part.kind = "WriteLobRequest" =>
                (Understood(part, is, ds) <=>
                    is = <<part.locator, IF part.last THEN 6 ELSE 2, part.offset, part.data[2], part.data[1]>>)
         /\ part.kind = "Authentication" => (Understood(part, is, ds) <=> is = part.fields)
         /\ part.kind = "ClientInfo" =>
                (Understood(part, is, ds) <=>
                    /\ Len(is) = 2 * Cardinality(DOMAIN part.info)
                    /\ \A key \in DOMAIN part.info : \E i \in 1..(Len(is) \div 2) :
                          is[2 * i - 1] = ClientInfoKey[key] /\ is[2 * i] = part.info[key])
         /\ part.kind = "Parameters" =>
                (Understood(part, is, ds) <=>
                    is = [i \in DOMAIN part.rows |->
                             [j \in DOMAIN part.rows[i] |-> Told(part.rows[i][j], IterIn(ds)[j])]])
<1> DEFINE X1 == SameOptions(part.options, is)
           X2 == is = part.text
           X3 == is = <<part.n>>
           X4 == is = <<part.locator, part.offset, part.length, 0>>
           X5 == is = <<part.locator, IF part.last THEN 6 ELSE 2, part.offset, part.data[2], part.data[1]>>
           X6 == is = part.fields
           X7 == /\ Len(is) = 2 * Cardinality(DOMAIN part.info)
                 /\ \A key \in DOMAIN part.info : \E i \in 1..(Len(is) \div 2) :
                       is[2 * i - 1] = ClientInfoKey[key] /\ is[2 * i] = part.info[key]
           X8 == is = [i \in DOMAIN part.rows |->
                             [j \in DOMAIN part.rows[i] |-> Told(part.rows[i][j], IterIn(ds)[j])]]
<1>1. Understood(part, is, ds) =
        CASE part.kind \in OptionKinds -> X1
          [] part.kind = "Command" -> X2
          [] part.kind \in {"FetchSize", "StatementId", "ResultSetId"} -> X3
          [] part.kind = "ReadLobRequest" -> X4
          [] part.kind = "WriteLobRequest" -> X5
          [] part.kind = "Authentication" -> X6
          [] part.kind = "ClientInfo" -> X7
          [] part.kind = "Parameters" -> X8
  BY DEF Understood
<1> HIDE DEF X1, X2, X3, X4, X5, X6, X7, X8
<1>2. /\ part.kind \in OptionKinds => Understood(part, is, ds) = X1
      /\ part.kind = "Command" => Understood(part, is, ds) = X2
      /\ part.kind \in {"FetchSize", "StatementId", "ResultSetId"} => Understood(part, is, ds) = X3
      /\ part.kind = "ReadLobRequest" => Understood(part, is, ds) = X4
      /\ part.kind = "WriteLobRequest" => Understood(part, is, ds) = X5
      /\ part.kind = "Authentication" => Understood(part, is, ds) = X6
      /\ part.kind = "ClientInfo" => Understood(part, is, ds) = X7
      /\ part.kind = "Parameters" => Understood(part, is, ds) = X8
  BY <1>1, KindsAre
<1> QED
  BY <1>2 DEF X1, X2, X3, X4, X5, X6, X7, X8
-----------------------------------------------------------------------------
WriteLobTaken(in) ==
    Then(Rd(<<8, 1, 8, 4>>, in), LAMBDA h, s :
        Then(Rd1(h[4], s), LAMBDA d, rest : Done(Append(h, d), rest)))
AuthTaken(in) == Then(Rd1(2, in), LAMBDA c, s : RdEach(TakeAuthField, c, s))

\* How the database takes the body of a part, kind by kind.
LEMMA TakeBodyIs ==
  ASSUME NEW kind, NEW n, NEW bytes, NEW columns, NEW in
  PROVE  /\ kind \in {27, 29, 34, 39, 42, 64, 68, 70} =>
                TakeBody(kind, n, bytes, columns, in) = RdEach(TakeOption, n, in)
         /\ kind = 3 => TakeBody(kind, n, bytes, columns, in) = RdBytes(bytes, in)
         /\ kind \in {10, 13} => TakeBody(kind, n, bytes, columns, in) = Rd(<<8>>, in)
         /\ kind = 45 => TakeBody(kind, n, bytes, columns, in) = Rd(<<4>>, in)
         /\ kind = 17 => TakeBody(kind, n, bytes, columns, in) = Rd(<<8, 8, 4, 4>>, in)
         /\ kind = 28 => TakeBody(kind, n, bytes, columns, in) = WriteLobTaken(in)
         /\ kind = 32 => TakeBody(kind, n, bytes, columns, in) = RowsTaken(columns, n, in)
         /\ kind = 33 => TakeBody(kind, n, bytes, columns, in) = AuthTaken(in)
         /\ kind = 57 => TakeBody(kind, n, bytes, columns, in) = RdEach(TakeText, n, in)
<1> DEFINE X1 == RdEach(TakeOption, n, in)
           X2 == RdBytes(bytes, in)
           X3 == Rd(<<8>>, in)
           X4 == Rd(<<4>>, in)
           X5 == Rd(<<8, 8, 4, 4>>, in)
           X6 == WriteLobTaken(in)
           X7 == RowsTaken(columns, n, in)
           X8 == AuthTaken(in)
           X9 == RdEach(TakeText, n, in)
           X0 == Fail(in)
           r == TakeBody(kind, n, bytes, columns, in)
<1>1. r = CASE kind \in {27, 29, 34, 39, 42, 64, 68, 70} -> X1
            [] kind = 3 -> X2
            [] kind \in {10, 13} -> X3
            [] kind = 45 -> X4
            [] kind = 17 -> X5
            [] kind = 28 -> X6
            [] kind = 32 -> X7
            [] kind = 33 -> X8
            [] kind = 57 -> X9
            [] OTHER -> X0
  BY DEF TakeBody, WriteLobTaken, RowsTaken, AuthTaken
<1> HIDE DEF X1, X2, X3, X4, X5, X6, X7, X8, X9, X0, r
<1>2. /\ kind \in {27, 29, 34, 39, 42, 64, 68, 70} => r = X1
      /\ kind = 3 => r = X2
      /\ kind \in {10, 13} => r = X3
      /\ kind = 45 => r = X4
      /\ kind = 17 => r = X5
      /\ kind = 28 => r = X6
      /\ kind = 32 => r = X7
      /\ kind = 33 => r = X8
      /\ kind = 57 => r = X9
  BY <1>1
<1> QED
  BY <1>2 DEF X1, X2, X3, X4, X5, X6, X7, X8, X9, r

\* What a part writes is what its size says, and what the database takes from
\* it is what was meant.
IsBody(part, ds, b, is) ==
    /\ EmitBody(part, ds) = Done(<<>>, b) /\ IsStream(b) /\ Width(b) = BodySize(part, ds)
    /\ TakeBody(PartKind[part.kind], Count(part), Width(b), IterIn(ds), b) = Done(is, <<>>)
    /\ Understood(part, is, ds)

\* The body of a command is taken.
LEMMA CommandIsTaken ==
  ASSUME NEW part, NEW ds, part.kind = "Command", IsBytes(part.text)
  PROVE  \E b, is : IsBody(part, ds, b, is)
<1> DEFINE text == part.text
           b == Put(text[2], text[1])
           n == Count(part)
           columns == IterIn(ds)
<1>1. /\ EmitBody(part, ds) = Done(<<>>, b) /\ BodySize(part, ds) = text[2]
      /\ Understood(part, text, ds) /\ PartKind[part.kind] = 3
  <2>1. EmitBody(part, ds) = Done(<<>>, b)
    BY BodyIs
  <2>2. BodySize(part, ds) = text[2]
    BY BodySizeIs
  <2>3. Understood(part, text, ds)
    BY UnderstoodIs
  <2> QED
    BY <2>1, <2>2, <2>3, KindsAre
<1> HIDE DEF text, n, columns
<1>2. IsBytes(text) /\ text[2] \in Nat
  BY DEF text, IsBytes
<1>3. IsStream(b) /\ Width(b) = text[2]
  BY <1>2, PutStream, WidthPut
<1>4. RdBytes(text[2], b) = Done(text, <<>>)
  <2>1. RdBytes(text[2], b \o <<>>) = Done(text, <<>>)
    BY <1>2, StreamNothing, RdBytesPut
  <2> HIDE DEF b
  <2>2. b \o <<>> = b
    BY <1>3, NothingJoined DEF IsStream
  <2> QED
    BY <2>1, <2>2
<1> HIDE DEF b
<1>5. TakeBody(3, n, text[2], columns, b) = RdBytes(text[2], b)
  BY TakeBodyIs
<1>6. TakeBody(PartKind[part.kind], n, Width(b), columns, b) = Done(text, <<>>)
  BY <1>1, <1>3, <1>4, <1>5
<1> QED
  BY <1>1, <1>3, <1>6 DEF IsBody, n, columns

\* One field is read as it was written.
LEMMA OneField ==
  ASSUME NEW w \in Nat \ {0}, NEW x
  PROVE  /\ IsStream(Put(w, x)) /\ Width(Put(w, x)) = w
         /\ Rd(<<w>>, Put(w, x)) = Done(<<x>>, <<>>)
<1> DEFINE ws == <<w>>
           vs == <<x>>
           b == PutAll(ws, vs)
<1>1. IsSeq(ws) /\ Len(ws) = 1 /\ ws[1] = w /\ IsSeq(vs) /\ Len(vs) = 1 /\ vs[1] = x
  BY OneIsSeq
<1>2. IsStream(Put(w, x)) /\ Width(Put(w, x)) = w
  BY PutStream, WidthPut
<1>3. b = Put(w, x)
  BY DEF PutAll, Put
<1> HIDE DEF ws, vs, b
<1>4. Widths(ws)
  BY <1>1 DEF Widths
<1>5. Rd(ws, b \o <<>>) = Done(vs, <<>>)
  BY <1>1, <1>4, StreamNothing, RdPutAll DEF b
<1>6. b \o <<>> = b
  BY <1>2, <1>3, NothingJoined DEF IsStream
<1> QED
  BY <1>2, <1>3, <1>5, <1>6 DEF ws, vs

\* The bodies that are one number are taken.
LEMMA NumberPartIsTaken ==
  ASSUME NEW part, NEW ds, part.kind \in {"FetchSize", "StatementId", "ResultSetId"}
  PROVE  \E b, is : IsBody(part, ds, b, is)
<1> DEFINE w == IF part.kind = "FetchSize" THEN 4 ELSE 8
           b == Put(w, part.n)
           is == <<part.n>>
           n == Count(part)
           columns == IterIn(ds)
<1>1. /\ EmitBody(part, ds) = Done(<<>>, b) /\ BodySize(part, ds) = w
      /\ Understood(part, is, ds) /\ w \in Nat \ {0}
  <2>1. EmitBody(part, ds) = Done(<<>>, b)
    BY BodyIs
  <2>2. BodySize(part, ds) = w
    BY BodySizeIs
  <2>3. Understood(part, is, ds)
    BY UnderstoodIs
  <2> QED
    BY <2>1, <2>2, <2>3
<1>2. /\ part.kind = "FetchSize" => PartKind[part.kind] = 45 /\ w = 4
      /\ part.kind # "FetchSize" => PartKind[part.kind] \in {10, 13} /\ w = 8
  BY KindsAre
<1> HIDE DEF w, is, n, columns
<1>3. IsStream(b) /\ Width(b) = w /\ Rd(<<w>>, b) = Done(is, <<>>)
  BY <1>1, OneField DEF is
<1> HIDE DEF b
<1>4. TakeBody(PartKind[part.kind], n, w, columns, b) = Rd(<<w>>, b)
  BY <1>2, TakeBodyIs
<1> QED
  BY <1>1, <1>3, <1>4 DEF IsBody, n, columns

\* Four elements are a sequence.
LEMMA FourAre ==
  ASSUME NEW a, NEW b, NEW c, NEW d
  PROVE  /\ IsSeq(<<a, b, c, d>>) /\ Len(<<a, b, c, d>>) = 4
         /\ <<a, b, c, d>>[1] = a /\ <<a, b, c, d>>[2] = b
         /\ <<a, b, c, d>>[3] = c /\ <<a, b, c, d>>[4] = d
<1> DEFINE s == <<a, b, c, d>>
<1>1. s \in Seq({a, b, c, d})
  OBVIOUS
<1>2. IsSeq(s)
  BY <1>1, SeqIs
<1> QED
  BY <1>2

\* A sum of four.
LEMMA TotalFour ==
  ASSUME NEW a \in Nat, NEW b \in Nat, NEW c \in Nat, NEW d \in Nat
  PROVE  Numbers(<<a, b, c, d>>) /\ Total(<<a, b, c, d>>) = a + b + c + d
<1> DEFINE s == <<a, b, c, d>>
           f == [i \in 0..4 |-> CASE i = 0 -> 0 [] i = 1 -> a [] i = 2 -> a + b [] i = 3 -> a + b + c
                                  [] OTHER -> a + b + c + d]
<1>1. IsSeq(s) /\ Len(s) = 4 /\ s[1] = a /\ s[2] = b /\ s[3] = c /\ s[4] = d
  BY FourAre
<1> HIDE DEF s
<1>2. Numbers(s)
  BY <1>1 DEF Numbers
<1>3. f[0] = 0 /\ f[1] = a /\ f[2] = a + b /\ f[3] = a + b + c /\ f[4] = a + b + c + d
  OBVIOUS
<1>4. DOMAIN f = 0..4 /\ f = [i \in 0..4 |-> f[i]]
  OBVIOUS
<1> HIDE DEF f
<1>5. \A i \in 0..4 : f[i] = IF i = 0 THEN 0 ELSE f[i - 1] + s[i]
  <2> TAKE i \in 0..4
  <2>1. i = 0 \/ i = 1 \/ i = 2 \/ i = 3 \/ i = 4
    OBVIOUS
  <2> QED
    BY <1>1, <1>3, <2>1
<1>6. Sums(s, f)
  BY <1>1, <1>4, <1>5 DEF Sums
<1>7. Total(s) = f[Len(s)]
  BY <1>2, <1>6, TotalIs
<1> QED
  BY <1>1, <1>2, <1>3, <1>7 DEF s

\* Four fields and what comes behind them.
LEMMA FourFields ==
  ASSUME NEW a \in Nat \ {0}, NEW b \in Nat \ {0}, NEW c \in Nat \ {0}, NEW d \in Nat \ {0},
         NEW vs, IsSeq(vs), Len(vs) = 4, NEW s, IsStream(s)
  PROVE  /\ IsStream(PutAll(<<a, b, c, d>>, vs)) /\ Width(PutAll(<<a, b, c, d>>, vs)) = a + b + c + d
         /\ Rd(<<a, b, c, d>>, PutAll(<<a, b, c, d>>, vs) \o s) = Done(vs, s)
<1> DEFINE ws == <<a, b, c, d>>
<1>1. IsSeq(ws) /\ Len(ws) = 4 /\ ws[1] = a /\ ws[2] = b /\ ws[3] = c /\ ws[4] = d
  BY FourAre
<1>2. Total(ws) = a + b + c + d
  BY TotalFour
<1> HIDE DEF ws
<1>3. Widths(ws)
  BY <1>1 DEF Widths
<1>4. Rd(ws, PutAll(ws, vs) \o s) = Done(vs, s)
  BY <1>1, <1>3, RdPutAll
<1>5. IsStream(PutAll(ws, vs)) /\ Width(PutAll(ws, vs)) = Total(ws)
  BY <1>3, PutAllIs, WidthPutAll
<1> QED
  BY <1>2, <1>4, <1>5 DEF ws

\* One more element behind four.
LEMMA FourMore ==
  ASSUME NEW a, NEW b, NEW c, NEW d, NEW e
  PROVE  Append(<<a, b, c, d>>, e) = <<a, b, c, d, e>>
<1> DEFINE V == {a, b, c, d, e}
           s == <<a, b, c, d>>
           t == <<a, b, c, d, e>>
<1>1. s \in Seq(V) /\ t \in Seq(V) /\ e \in V /\ Len(s) = 4 /\ Len(t) = 5
  OBVIOUS
<1>2. /\ s[1] = a /\ s[2] = b /\ s[3] = c /\ s[4] = d
      /\ t[1] = a /\ t[2] = b /\ t[3] = c /\ t[4] = d /\ t[5] = e
  OBVIOUS
<1> HIDE DEF s, t, V
<1> DEFINE u == Append(s, e)
<1>3. u \in Seq(V) /\ Len(u) = 5 /\ u[5] = e /\ \A i \in 1..4 : u[i] = s[i]
  <2>1. IsSeq(s)
    BY <1>1, SeqIs
  <2>2. /\ Len(u) = Len(s) + 1 /\ \A i \in 1..Len(s) : u[i] = s[i]
        /\ u[Len(s) + 1] = e
    BY <2>1, AppendSeq
  <2>3. u \in Seq(V)
    BY <1>1
  <2> HIDE DEF u
  <2> QED
    BY <1>1, <2>2, <2>3
<1> HIDE DEF u
<1>4. \A i \in 1..Len(u) : u[i] = t[i]
  <2> TAKE i \in 1..Len(u)
  <2>1. i = 1 \/ i = 2 \/ i = 3 \/ i = 4 \/ i = 5
    BY <1>3
  <2> QED
    BY <1>2, <1>3, <2>1
<1>5. IsSeq(u) /\ IsSeq(t)
  BY <1>1, <1>3, SeqIs
<1>6. u = t
  BY <1>1, <1>3, <1>4, <1>5, SameSeq
<1> QED
  BY <1>6 DEF u, s, t

\* The body of a request for a LOB's data is taken.
LEMMA ReadLobIsTaken ==
  ASSUME NEW part, NEW ds, part.kind = "ReadLobRequest"
  PROVE  \E b, is : IsBody(part, ds, b, is)
<1> DEFINE is == <<part.locator, part.offset, part.length, 0>>
           b == PutAll(<<8, 8, 4, 4>>, is)
           n == Count(part)
           columns == IterIn(ds)
<1>1. /\ EmitBody(part, ds) = Done(<<>>, b) /\ BodySize(part, ds) = 24
      /\ Understood(part, is, ds) /\ PartKind[part.kind] = 17
  <2>1. EmitBody(part, ds) = Done(<<>>, b)
    BY BodyIs
  <2>2. BodySize(part, ds) = 24
    BY BodySizeIs
  <2>3. Understood(part, is, ds)
    BY UnderstoodIs
  <2> QED
    BY <2>1, <2>2, <2>3, KindsAre
<1>2. IsSeq(is) /\ Len(is) = 4
  BY FourAre
<1> HIDE DEF is, n, columns
<1>3. IsStream(b) /\ Width(b) = 24 /\ Rd(<<8, 8, 4, 4>>, b \o <<>>) = Done(is, <<>>)
  <2>1. IsStream(b) /\ Width(b) = 8 + 8 + 4 + 4 /\ Rd(<<8, 8, 4, 4>>, b \o <<>>) = Done(is, <<>>)
    <3> DEFINE e == <<>>
    <3>1. IsStream(e)
      BY StreamNothing
    <3> HIDE DEF e
    <3>2. IsStream(b) /\ Width(b) = 8 + 8 + 4 + 4 /\ Rd(<<8, 8, 4, 4>>, b \o e) = Done(is, e)
      BY <1>2, <3>1, FourFields
    <3> QED
      BY <3>2 DEF e
  <2> HIDE DEF b
  <2> QED
    BY <2>1
<1> HIDE DEF b
<1>4. b \o <<>> = b
  BY <1>3, NothingJoined DEF IsStream
<1>5. TakeBody(17, n, 24, columns, b) = Rd(<<8, 8, 4, 4>>, b)
  BY TakeBodyIs
<1> QED
  BY <1>1, <1>3, <1>4, <1>5 DEF IsBody, n, columns

\* The body with a LOB's data is taken.
LEMMA WriteLobIsTaken ==
  ASSUME NEW part, NEW ds, part.kind = "WriteLobRequest", IsBytes(part.data)
  PROVE  \E b, is : IsBody(part, ds, b, is)
<1> DEFINE data == part.data
           size == data[2]
           h == <<part.locator, IF part.last THEN 6 ELSE 2, part.offset, size>>
           x == PutAll(<<8, 1, 8, 4>>, h)
           y == Put(size, data[1])
           b == x \o y
           is == <<part.locator, IF part.last THEN 6 ELSE 2, part.offset, size, data[1]>>
           n == Count(part)
           columns == IterIn(ds)
<1>1. /\ EmitBody(part, ds) = Done(<<>>, b) /\ BodySize(part, ds) = 21 + size
      /\ Understood(part, is, ds) /\ PartKind[part.kind] = 28
  <2>1. EmitBody(part, ds) = Done(<<>>, b)
    BY BodyIs
  <2>2. BodySize(part, ds) = 21 + size
    BY BodySizeIs
  <2>3. Understood(part, is, ds)
    BY UnderstoodIs
  <2> QED
    BY <2>1, <2>2, <2>3, KindsAre
<1>2. IsSeq(h) /\ Len(h) = 4 /\ h[4] = size
  BY FourAre
<1>3. Append(h, data[1]) = is
  BY FourMore
<1>4. size \in Nat /\ (size = 0 => data[1] = Garbage)
  BY DEF IsBytes
<1> HIDE DEF data, size, h, is, n, columns
<1>5. IsStream(y) /\ Width(y) = size /\ Rd1(size, y \o <<>>) = Done(data[1], <<>>)
  BY <1>4, PutStream, WidthPut, StreamNothing, Rd1Put
<1> HIDE DEF y
<1>6. y \o <<>> = y
  BY <1>5, NothingJoined DEF IsStream
<1>7. IsStream(x) /\ Width(x) = 21 /\ Rd(<<8, 1, 8, 4>>, x \o y) = Done(h, y)
  <2>1. IsStream(x) /\ Width(x) = 8 + 1 + 8 + 4 /\ Rd(<<8, 1, 8, 4>>, x \o y) = Done(h, y)
    BY <1>2, <1>5, FourFields
  <2> HIDE DEF x
  <2> QED
    BY <2>1
<1> HIDE DEF x
<1>8. IsStream(b) /\ Width(b) = 21 + size
  BY <1>5, <1>7, StreamJoined, WidthJoined
<1>9. WriteLobTaken(b) = Done(is, <<>>)
  <2> DEFINE r == Rd(<<8, 1, 8, 4>>, b)
             q == Rd1(h[4], y)
  <2>1. r.ok /\ r.v = h /\ r.in = y
    BY <1>7 DEF Done
  <2>2. q.ok /\ q.v = data[1] /\ q.in = <<>>
    BY <1>2, <1>5, <1>6 DEF Done
  <2>3. WriteLobTaken(b) = IF r.ok THEN Then(Rd1(r.v[4], r.in), LAMBDA d, rest : Done(Append(r.v, d), rest)) ELSE r
    BY DEF WriteLobTaken, Then
  <2> HIDE DEF r
  <2>4. WriteLobTaken(b) = IF q.ok THEN Done(Append(h, q.v), q.in) ELSE q
    BY <2>1, <2>3 DEF Then
  <2> HIDE DEF q
  <2> QED
    BY <2>2, <2>4, <1>3
<1> HIDE DEF b
<1>10. TakeBody(28, n, Width(b), columns, b) = WriteLobTaken(b)
  BY TakeBodyIs
<1> QED
  BY <1>1, <1>8, <1>9, <1>10 DEF IsBody, n, columns
-----------------------------------------------------------------------------
\* What the database takes from an option is its id, its type, and its value.
LEMMA OptionHead ==
  ASSUME NEW id, NEW type, NEW v, IsSeq(v)
  PROVE  (<<id, type>> \o v)[1] = id
<1> DEFINE p == <<id, type>>
<1>1. IsSeq(p) /\ Len(p) = 2 /\ p[1] = id
  BY TwoAre
<1> HIDE DEF p
<1>2. \A i \in 1..Len(p) : (p \o v)[i] = p[i]
  <2>1. AreJoined(p \o v, p, v)
    BY <1>1, ConcatSeq
  <2> QED
    BY <2>1 DEF AreJoined
<1> QED
  BY <1>1, <1>2 DEF p

\* The content of an option is a sequence.
LEMMA OptionIsSeq ==
  ASSUME NEW val, IsOption(val)
  PROVE  IsSeq(val.v)
<1>1. CASE val.t \in {"STRING", "BSTRING"}
  <2>1. val.v = <<val.v[1], val.v[2]>>
    BY <1>1 DEF IsOption, IsBytes
  <2> QED
    BY <2>1, TwoAre
<1>2. CASE val.t \notin {"STRING", "BSTRING"}
  <2>1. val.v = <<val.v[1]>>
    BY <1>2 DEF IsOption
  <2> QED
    BY <2>1, OneIsSeq
<1> QED
  BY <1>1, <1>2

\* Options in any order are the same options.
LEMMA OptionsAreSame ==
  ASSUME NEW options, IsOptions(options), NEW ids, IsSeq(ids), NEW is, IsSeq(is),
         Len(is) = Cardinality(DOMAIN options), Len(ids) = Len(is),
         \A i \in 1..Len(is) : /\ ids[i] \in DOMAIN options
                               /\ is[i] = <<ids[i], OptionType[options[ids[i]].t]>> \o options[ids[i]].v
  PROVE  SameOptions(options, is)
<1>1. DOMAIN is = 1..Len(is)
  BY SeqFacts
<1>2. ASSUME NEW i \in 1..Len(is)
      PROVE  /\ is[i][1] \in DOMAIN options
             /\ is[i] = <<is[i][1], OptionType[options[is[i][1]].t]>> \o options[is[i][1]].v
  <2> DEFINE id == ids[i]
             type == OptionType[options[id].t]
             v == options[id].v
  <2>1. id \in DOMAIN options /\ is[i] = <<id, type>> \o v
    OBVIOUS
  <2>2. IsSeq(v)
    BY <2>1, OptionIsSeq DEF IsOptions
  <2> HIDE DEF id, type, v
  <2>3. (<<id, type>> \o v)[1] = id
    BY <2>2, OptionHead
  <2>4. is[i][1] = id
    BY <2>1, <2>3
  <2> QED
    BY <2>1, <2>4 DEF type, v
<1> QED
  BY <1>1, <1>2 DEF SameOptions

\* The body of a part with options is taken.
LEMMA OptionsPartIsTaken ==
  ASSUME NEW part, NEW ds, part.kind \in OptionKinds, IsOptions(part.options)
  PROVE  \E b, is : IsBody(part, ds, b, is)
<1> DEFINE options == part.options
           M == DOMAIN options
           ids == InSomeOrder(M)
           n == Cardinality(M)
           ss == [i \in DOMAIN ids |-> EmitOption(ids[i], options[ids[i]])]
           vs == [i \in DOMAIN ids |-> <<ids[i], OptionType[options[ids[i]].t]>> \o options[ids[i]].v]
           ws == [i \in DOMAIN ids |-> 1 + OptionSize(options[ids[i]])]
           columns == IterIn(ds)
<1>1. /\ EmitBody(part, ds) = Done(<<>>, EmitOptions(options))
      /\ BodySize(part, ds) = SizeOfOptions(options)
      /\ Count(part) = n
      /\ PartKind[part.kind] \in {27, 29, 34, 39, 42, 64, 68, 70}
  <2>1. EmitBody(part, ds) = Done(<<>>, EmitOptions(options))
    BY BodyIs
  <2>2. BodySize(part, ds) = SizeOfOptions(options)
    BY BodySizeIs
  <2>3. Count(part) = n
    BY CountOfPart
  <2> QED
    BY <2>1, <2>2, <2>3, KindsAre, SMTT(60)
<1>2. \A is : Understood(part, is, ds) <=> SameOptions(options, is)
  BY UnderstoodIs
<1>3. IsOptions(options)
  OBVIOUS
<1> HIDE DEF options
<1>4. IsFiniteSet(M)
  BY <1>3 DEF IsOptions
<1> HIDE DEF M
<1>5. /\ IsSeq(ids) /\ Len(ids) = n /\ n \in Nat
      /\ \A i \in 1..n : ids[i] \in M
  BY <1>4, OrderOfMap
<1> HIDE DEF ids, n
<1>6. DOMAIN ids = 1..n
  BY <1>5, SeqFacts
<1>7. \A i \in 1..n :
        /\ IsOptionAs(ss[i], vs[i]) /\ Width(ss[i]) = ws[i] /\ ws[i] \in Nat
  <2> TAKE i \in 1..n
  <2> DEFINE id == ids[i]
             val == options[id]
  <2>1. IsOption(val)
    BY <1>3, <1>5 DEF IsOptions, M
  <2>2. ss[i] = EmitOption(id, val) /\ vs[i] = <<id, OptionType[val.t]>> \o val.v /\ ws[i] = 1 + OptionSize(val)
    BY <1>6
  <2> HIDE DEF id, val, ss, vs, ws
  <2>3. /\ IsOptionAs(EmitOption(id, val), <<id, OptionType[val.t]>> \o val.v)
        /\ Width(EmitOption(id, val)) = 1 + OptionSize(val) /\ OptionSize(val) \in Nat
    BY <2>1, OptionIsTaken
  <2> QED
    BY <2>2, <2>3
<1>8. IsSeq(ss) /\ Len(ss) = n /\ IsSeq(vs) /\ Len(vs) = n /\ IsSeq(ws) /\ Len(ws) = n
  <2>1. ss \in [1..n -> {ss[i] : i \in 1..n}] /\ vs \in [1..n -> {vs[i] : i \in 1..n}]
        /\ ws \in [1..n -> {ws[i] : i \in 1..n}]
    BY <1>6
  <2> HIDE DEF ss, vs, ws
  <2> QED
    BY <1>5, <2>1, FunctionIs
<1>9. /\ EmitOptions(options) = Flat(ss) /\ SizeOfOptions(options) = Total(ws)
  BY DEF EmitOptions, SizeOfOptions, IdsInOrder, ids, M
<1>10. \A i \in 1..n : /\ ids[i] \in DOMAIN options
                       /\ vs[i] = <<ids[i], OptionType[options[ids[i]].t]>> \o options[ids[i]].v
  BY <1>5, <1>6 DEF M
<1> HIDE DEF ss, vs, ws
<1>11. IsStreams(ss)
  BY <1>7, <1>8 DEF IsStreams, IsOptionAs
<1>12. Numbers(ws)
  BY <1>7, <1>8 DEF Numbers
<1> DEFINE b == Flat(ss)
<1>13. IsStream(b) /\ Width(b) = Total(ws)
  BY <1>7, <1>8, <1>11, <1>12, WidthFlat
<1>14. RdEach(TakeOption, n, b) = Done(vs, <<>>)
  <2> DEFINE e == <<>>
  <2>1. IsStream(e)
    BY StreamNothing
  <2>2. b \o e = b
    BY <1>13, NothingJoined DEF IsStream
  <2> HIDE DEF e
  <2>3. \A i \in 1..Len(vs) : IsOptionAs(ss[i], vs[i])
    BY <1>7, <1>8
  <2>4. RdEach(TakeOption, Len(vs), Flat(ss) \o e) = Done(vs, e)
    BY <1>8, <1>11, <2>1, <2>3, OptionsAreTaken
  <2> QED
    BY <1>8, <2>2, <2>4 DEF e
<1>15. SameOptions(options, vs)
  <2>1. Len(vs) = Cardinality(DOMAIN options) /\ Len(ids) = Len(vs)
    BY <1>5, <1>8 DEF n, M
  <2>2. \A i \in 1..Len(vs) : /\ ids[i] \in DOMAIN options
                       /\ vs[i] = <<ids[i], OptionType[options[ids[i]].t]>> \o options[ids[i]].v
    BY <1>8, <1>10
  <2> QED
    BY <1>3, <1>5, <1>8, <2>1, <2>2, OptionsAreSame
<1> HIDE DEF b, columns
<1>16. TakeBody(PartKind[part.kind], n, Width(b), columns, b) = RdEach(TakeOption, n, b)
  BY <1>1, TakeBodyIs
<1>17. EmitBody(part, ds) = Done(<<>>, b) /\ BodySize(part, ds) = Width(b)
  BY <1>1, <1>9, <1>13 DEF b
<1>18. Understood(part, vs, ds)
  BY <1>2, <1>15
<1> QED
  BY <1>1, <1>13, <1>14, <1>16, <1>17, <1>18 DEF IsBody, columns
-----------------------------------------------------------------------------
\* Pairs behind one another.
Pairs(ps, qs, n) == [i \in 1..n |-> <<ps[i], qs[i]>>]
ArePairs(t, ps, qs, n) ==
    /\ IsSeq(t) /\ Len(t) = 2 * n
    /\ \A i \in 1..n : t[2 * i - 1] = ps[i] /\ t[2 * i] = qs[i]

\* Pairs are flattened to a sequence in which they alternate.
LEMMA PairsAre ==
  ASSUME NEW ps, NEW qs, NEW n \in Nat
  PROVE  ArePairs(Flat(Pairs(ps, qs, n)), ps, qs, n)
<1> DEFINE T == {m \in Nat : ArePairs(Flat(Pairs(ps, qs, m)), ps, qs, m)}
<1>1. 0 \in T
  <2> DEFINE e == <<>>
  <2>1. Pairs(ps, qs, 0) = e
    BY DEF Pairs
  <2>2. Flat(e) = e
    BY FlatNothing
  <2>3. IsSeq(e) /\ Len(e) = 0
    BY EmptyIsSeq
  <2> HIDE DEF e
  <2> QED
    BY <2>1, <2>2, <2>3 DEF ArePairs
<1>2. ASSUME NEW m \in Nat, m \in T
      PROVE  m + 1 \in T
  <2> DEFINE s == Pairs(ps, qs, m)
             x == <<ps[m + 1], qs[m + 1]>>
             u == Pairs(ps, qs, m + 1)
             t == Flat(s)
             o == <<x>>
  <2>1. /\ IsSeq(s) /\ Len(s) = m /\ \A i \in 1..m : s[i] = <<ps[i], qs[i]>>
        /\ IsSeq(u) /\ Len(u) = m + 1 /\ \A i \in 1..(m + 1) : u[i] = <<ps[i], qs[i]>>
    <3>1. /\ \A i \in 1..m : s[i] = <<ps[i], qs[i]>>
          /\ \A i \in 1..(m + 1) : u[i] = <<ps[i], qs[i]>>
      BY DEF Pairs
    <3>2. s \in [1..m -> {s[i] : i \in 1..m}] /\ u \in [1..(m + 1) -> {u[i] : i \in 1..(m + 1)}]
      BY DEF Pairs
    <3> HIDE DEF s, u
    <3>3. m + 1 \in Nat
      OBVIOUS
    <3> QED
      BY <3>1, <3>2, <3>3, FunctionIs
  <2>2. IsSeq(x) /\ Len(x) = 2 /\ x[1] = ps[m + 1] /\ x[2] = qs[m + 1]
    BY TwoAre
  <2>3. IsSeq(o) /\ Len(o) = 1 /\ o[1] = x
    BY OneIsSeq
  <2>4. \A i \in 1..m : IsSeq(s[i])
    <3> TAKE i \in 1..m
    <3>1. s[i] = <<ps[i], qs[i]>>
      BY <2>1
    <3> HIDE DEF s
    <3> QED
      BY <3>1, TwoAre
  <2>5. u[m + 1] = x
    BY <2>1
  <2> HIDE DEF s, u, x, o
  <2>6. IsSeqs(s) /\ IsSeqs(o) /\ Flat(o) = x
    BY <2>1, <2>2, <2>3, <2>4, FlatSingle DEF IsSeqs, o
  <2>7. u = s \o o
    <3>1. /\ IsSeq(s \o o) /\ Len(s \o o) = Len(s) + Len(o)
          /\ \A i \in 1..Len(s) : (s \o o)[i] = s[i]
          /\ \A i \in 1..Len(o) : (s \o o)[Len(s) + i] = o[i]
      <4>1. IsSeq(s) /\ IsSeq(o)
        BY <2>1, <2>3
      <4>2. AreJoined(s \o o, s, o)
        BY <4>1, ConcatSeq
      <4> QED
        BY <4>2 DEF AreJoined
    <3> DEFINE w == s \o o
    <3>2. IsSeq(w) /\ Len(w) = m + 1 /\ (\A i \in 1..m : w[i] = s[i]) /\ w[m + 1] = x
      BY <2>1, <2>3, <3>1
    <3> HIDE DEF w
    <3>3. \A i \in 1..Len(u) : u[i] = w[i]
      <4> TAKE i \in 1..Len(u)
      <4>1. CASE i \in 1..m
        BY <2>1, <3>2, <4>1
      <4>2. CASE i = m + 1
        BY <2>5, <3>2, <4>2
      <4> QED
        BY <2>1, <4>1, <4>2
    <3>4. u = w
      BY <2>1, <3>2, <3>3, SameSeq
    <3> QED
      BY <3>4 DEF w
  <2>8. Flat(u) = t \o x
    BY <2>6, <2>7, FlatJoined
  <2>9. ArePairs(t, ps, qs, m)
    BY <1>2 DEF s
  <2> HIDE DEF t
  <2>10. /\ IsSeq(t \o x) /\ Len(t \o x) = Len(t) + 2
         /\ \A i \in 1..Len(t) : (t \o x)[i] = t[i]
         /\ \A i \in 1..2 : (t \o x)[Len(t) + i] = x[i]
    <3>1. IsSeq(t)
      BY <2>9 DEF ArePairs
    <3>2. /\ IsSeq(t \o x) /\ Len(t \o x) = Len(t) + Len(x)
          /\ \A i \in 1..Len(t) : (t \o x)[i] = t[i]
          /\ \A i \in 1..Len(x) : (t \o x)[Len(t) + i] = x[i]
      <4>1. IsSeq(t) /\ IsSeq(x)
        BY <2>2, <3>1
      <4>2. AreJoined(t \o x, t, x)
        BY <4>1, ConcatSeq
      <4> QED
        BY <4>2 DEF AreJoined
    <3> QED
      BY <2>2, <3>2
  <2> DEFINE w == t \o x
  <2>11. /\ IsSeq(w) /\ Len(w) = 2 * m + 2 /\ \A i \in 1..(2 * m) : w[i] = t[i]
         /\ w[2 * m + 1] = x[1] /\ w[2 * m + 2] = x[2]
    BY <2>9, <2>10 DEF ArePairs
  <2> HIDE DEF w
  <2>12. \A i \in 1..(m + 1) : w[2 * i - 1] = ps[i] /\ w[2 * i] = qs[i]
    <3> TAKE i \in 1..(m + 1)
    <3>1. CASE i \in 1..m
      <4>1. 2 * i - 1 \in 1..(2 * m) /\ 2 * i \in 1..(2 * m)
        BY <3>1
      <4> QED
        BY <2>9, <2>11, <3>1, <4>1 DEF ArePairs
    <3>2. CASE i = m + 1
      <4>1. 2 * i - 1 = 2 * m + 1 /\ 2 * i = 2 * m + 2
        BY <3>2
      <4> QED
        BY <2>2, <2>11, <3>2, <4>1
    <3> QED
      BY <3>1, <3>2
  <2>13. ArePairs(w, ps, qs, m + 1)
    BY <2>11, <2>12 DEF ArePairs
  <2> QED
    <3>1. ArePairs(Flat(Pairs(ps, qs, m + 1)), ps, qs, m + 1)
      BY <2>8, <2>13 DEF w, u
    <3>2. m + 1 \in Nat
      OBVIOUS
    <3> QED
      BY <3>1, <3>2
<1> HIDE DEF T
<1>3. Nat \subseteq T
  BY <1>1, <1>2, AllNumbers
<1> QED
  BY <1>3 DEF T
-----------------------------------------------------------------------------
\* The names in the client info are texts.
LEMMA ClientInfoKeysAre == \A key \in DOMAIN ClientInfoKey : IsBytes(ClientInfoKey[key])
<1>1. DOMAIN ClientInfoKey = {"APPLICATION", "APPLICATIONVERSION", "APPLICATIONSOURCE", "APPLICATIONUSER",
                              "DRIVER", "DRIVERINFO", "DRIVERVERSION"}
  BY DEF ClientInfoKey
<1>2. /\ ClientInfoKey["APPLICATION"] = <<41, 11>> /\ ClientInfoKey["APPLICATIONVERSION"] = <<42, 18>>
      /\ ClientInfoKey["APPLICATIONSOURCE"] = <<43, 17>> /\ ClientInfoKey["APPLICATIONUSER"] = <<44, 15>>
      /\ ClientInfoKey["DRIVER"] = <<45, 6>> /\ ClientInfoKey["DRIVERINFO"] = <<46, 10>>
      /\ ClientInfoKey["DRIVERVERSION"] = <<47, 13>>
  BY DEF ClientInfoKey
<1>3. \A a, l \in Nat \ {0} : IsBytes(<<a, l>>)
  BY DEF IsBytes
<1> QED
  BY <1>1, <1>2, <1>3

\* A text is taken with its length.
LEMMA TextIsTaken ==
  ASSUME NEW text, IsBytes(text)
  PROVE  /\ IsTextAs(EmitText(text), text) /\ Width(EmitText(text)) = BinaryLength(text[2])
         /\ BinaryLength(text[2]) \in Nat
<1> DEFINE b == EmitLengthAndBytes(text[2], text[1])
<1>1. IsStream(b) /\ Width(b) = BinaryLength(text[2]) /\ text[2] \in Nat
  BY LengthAndBytesAre
<1>2. \A s : IsStream(s) => TakeBytes(b \o s) = Done(text, s)
  BY BytesAreTaken
<1>3. BinaryLength(text[2]) \in Nat
  BY <1>1 DEF BinaryLength
<1>4. EmitText(text) = b
  BY DEF EmitText
<1> HIDE DEF b
<1> QED
  BY <1>1, <1>2, <1>3, <1>4 DEF IsTextAs, TakeText

\* The body with the client info is taken.
LEMMA ClientInfoIsTaken ==
  ASSUME NEW part, NEW ds, part.kind = "ClientInfo", IsInfo(part.info)
  PROVE  \E b, is : IsBody(part, ds, b, is)
<1> DEFINE info == part.info
           M == DOMAIN info
           keys == InSomeOrder(M)
           n == Cardinality(M)
           ps == [i \in 1..n |-> ClientInfoKey[keys[i]]]
           qs == [i \in 1..n |-> info[keys[i]]]
           texts == ClientInfoTexts(info)
           ss == [i \in DOMAIN texts |-> EmitText(texts[i])]
           ws == [i \in DOMAIN texts |-> BinaryLength(texts[i][2])]
           columns == IterIn(ds)
<1>1. /\ EmitBody(part, ds) = Done(<<>>, Flat(ss))
      /\ BodySize(part, ds) = Total(ws)
      /\ Count(part) = 2 * n
      /\ PartKind[part.kind] = 57
  <2>1. EmitBody(part, ds) = Done(<<>>, Flat(ss))
    BY BodyIs
  <2>2. BodySize(part, ds) = Total(ws)
    BY BodySizeIs
  <2>3. Count(part) = 2 * n
    BY CountOfPart
  <2> QED
    BY <2>1, <2>2, <2>3, KindsAre
<1>2. \A is : Understood(part, is, ds) <=>
                /\ Len(is) = 2 * n
                /\ \A key \in M : \E i \in 1..(Len(is) \div 2) :
                      is[2 * i - 1] = ClientInfoKey[key] /\ is[2 * i] = info[key]
  BY UnderstoodIs
<1>3. IsInfo(info)
  OBVIOUS
<1> HIDE DEF info
<1>4. IsFiniteSet(M)
  BY <1>3 DEF IsInfo
<1>5. /\ IsSeq(keys) /\ Len(keys) = n /\ n \in Nat
      /\ \A i \in 1..n : keys[i] \in M
      /\ \A x \in M : \E i \in 1..n : keys[i] = x
  <2> HIDE DEF M
  <2> QED
    BY <1>4, OrderOfMap
<1>6. texts = Flat(Pairs(ps, qs, n))
  <2>1. DOMAIN keys = 1..n
    <3> HIDE DEF keys, n
    <3> QED
      BY <1>5, SeqFacts
  <2>2. [i \in DOMAIN keys |-> <<ClientInfoKey[keys[i]], info[keys[i]]>>] = Pairs(ps, qs, n)
    <3> HIDE DEF keys, n, info
    <3> QED
      BY <2>1 DEF Pairs
  <2> QED
    BY <2>2 DEF ClientInfoTexts
<1>7. \A i \in 1..n : ps[i] = ClientInfoKey[keys[i]] /\ qs[i] = info[keys[i]]
  OBVIOUS
<1> HIDE DEF keys, n, ps, qs, texts
<1>8. IsSeq(texts) /\ Len(texts) = 2 * n
      /\ \A i \in 1..n : texts[2 * i - 1] = ps[i] /\ texts[2 * i] = qs[i]
  BY <1>5, <1>6, PairsAre, SMTT(60) DEF ArePairs
<1>9. \A i \in 1..n : IsBytes(ps[i]) /\ IsBytes(qs[i])
  BY <1>3, <1>5, <1>7, ClientInfoKeysAre DEF IsInfo
<1>10. \A j \in 1..(2 * n) : IsBytes(texts[j])
  <2> TAKE j \in 1..(2 * n)
  <2>1. \E i \in 1..n : j = 2 * i - 1 \/ j = 2 * i
    <3>1. CASE j % 2 = 0
      <4>1. (j \div 2) \in 1..n /\ j = 2 * (j \div 2)
        BY <1>5, <3>1
      <4> QED
        BY <4>1
    <3>2. CASE j % 2 = 1
      <4>1. ((j + 1) \div 2) \in 1..n /\ j = 2 * ((j + 1) \div 2) - 1
        BY <1>5, <3>2
      <4> QED
        BY <4>1
    <3> QED
      BY <1>5, <3>1, <3>2
  <2> QED
    BY <1>8, <1>9, <2>1
<1> DEFINE m == 2 * n
<1>11. m \in Nat /\ DOMAIN texts = 1..m /\ Len(texts) = m
  <2>1. DOMAIN texts = 1..Len(texts)
    BY <1>8, SeqFacts
  <2> QED
    BY <1>5, <1>8, <2>1
<1> HIDE DEF m
<1>12. \A i \in 1..m :
        /\ IsTextAs(ss[i], texts[i]) /\ Width(ss[i]) = ws[i] /\ ws[i] \in Nat
  <2> TAKE i \in 1..m
  <2> DEFINE text == texts[i]
  <2>1. IsBytes(text)
    BY <1>10 DEF m
  <2>2. ss[i] = EmitText(text) /\ ws[i] = BinaryLength(text[2])
    BY <1>11
  <2> HIDE DEF text, ss, ws
  <2>3. /\ IsTextAs(EmitText(text), text) /\ Width(EmitText(text)) = BinaryLength(text[2])
        /\ BinaryLength(text[2]) \in Nat
    BY <2>1, TextIsTaken
  <2> QED
    BY <2>2, <2>3 DEF text
<1>13. IsSeq(ss) /\ Len(ss) = m /\ IsSeq(ws) /\ Len(ws) = m
  <2>1. ss \in [1..m -> {ss[i] : i \in 1..m}] /\ ws \in [1..m -> {ws[i] : i \in 1..m}]
    BY <1>11
  <2> HIDE DEF ss, ws
  <2> QED
    BY <1>11, <2>1, FunctionIs
<1> HIDE DEF ss, ws
<1>14. IsStreams(ss)
  BY <1>12, <1>13 DEF IsStreams, IsTextAs
<1>15. Numbers(ws)
  BY <1>12, <1>13 DEF Numbers
<1> DEFINE b == Flat(ss)
<1>16. IsStream(b) /\ Width(b) = Total(ws)
  BY <1>12, <1>13, <1>14, <1>15, WidthFlat
<1>17. RdEach(TakeText, m, b) = Done(texts, <<>>)
  <2> DEFINE e == <<>>
  <2>1. IsStream(e)
    BY StreamNothing
  <2>2. b \o e = b
    BY <1>16, NothingJoined DEF IsStream
  <2> HIDE DEF e
  <2>3. \A i \in 1..Len(texts) : IsTextAs(ss[i], texts[i])
    BY <1>11, <1>12
  <2>4. Len(ss) = Len(texts)
    BY <1>11, <1>13
  <2>5. RdEach(TakeText, Len(texts), Flat(ss) \o e) = Done(texts, e)
    BY <1>8, <1>14, <2>1, <2>3, <2>4, TextsAreTaken
  <2> QED
    BY <1>11, <2>2, <2>5 DEF e
<1>18. Understood(part, texts, ds)
  <2>1. Len(texts) \div 2 = n
    BY <1>5, <1>8
  <2>2. \A key \in M : \E i \in 1..n : texts[2 * i - 1] = ClientInfoKey[key] /\ texts[2 * i] = info[key]
    <3> TAKE key \in M
    <3> HIDE DEF M
    <3>1. PICK i \in 1..n : keys[i] = key
      BY <1>5
    <3>2. texts[2 * i - 1] = ClientInfoKey[key] /\ texts[2 * i] = info[key]
      BY <1>7, <1>8, <3>1
    <3> QED
      BY <3>2
  <2> QED
    BY <1>2, <1>8, <2>1, <2>2
<1> HIDE DEF b, columns
<1>19. TakeBody(57, m, Width(b), columns, b) = RdEach(TakeText, m, b)
  BY TakeBodyIs
<1>20. EmitBody(part, ds) = Done(<<>>, b) /\ BodySize(part, ds) = Width(b)
  BY <1>1, <1>16 DEF b
<1>21. TakeBody(PartKind[part.kind], Count(part), Width(b), columns, b) = Done(texts, <<>>)
  BY <1>1, <1>17, <1>19 DEF m
<1> QED
  BY <1>16, <1>18, <1>20, <1>21 DEF IsBody, columns
-----------------------------------------------------------------------------
\* The fields of an authentication, short enough for a length of one byte.
AreFields(fields) ==
    IsSeq(fields) /\ \A i \in 1..Len(fields) : IsBytes(fields[i]) /\ fields[i][2] <= 250

\* A field of no more than 250 bytes is taken, and has the size that was computed.
LEMMA AuthFieldIsTaken ==
  ASSUME NEW f, IsBytes(f), f[2] <= 250
  PROVE  \E b : /\ EmitAuthField(f) = Done(<<>>, b) /\ IsAuthFieldAs(b, f)
                /\ Width(b) = AuthFieldSize(f) /\ AuthFieldSize(f) \in Nat
<1> DEFINE l == f[2]
           p == Put(1, l)
           x == Put(l, f[1])
           b == p \o x
<1>1. l \in Nat /\ l <= 250 /\ (l = 0 => f[1] = Garbage)
  BY DEF IsBytes
<1>2. EmitAuthField(f) = Done(<<>>, b)
  BY <1>1 DEF EmitAuthField
<1>3. AuthFieldSize(f) = 1 + l /\ AuthFieldSize(f) \in Nat
  BY <1>1 DEF AuthFieldSize
<1>4. \A s : IsStream(s) => RdBytes(l, x \o s) = Done(f, s)
  BY RdBytesPut
<1>5. IsBytes(f)
  OBVIOUS
<1> HIDE DEF l
<1>6. IsStream(x) /\ Width(x) = l
  BY <1>1, PutStream, WidthPut
<1>7. IsStream(p) /\ Width(p) = 1
  <2>1. 1 \in Nat
    OBVIOUS
  <2> QED
    BY <2>1, PutStream, WidthPut
<1>8. \A s : IsStream(s) => Rd1(1, p \o s) = Done(l, s)
  <2> TAKE s
  <2> HAVE IsStream(s)
  <2>1. 1 \in Nat /\ (1 = 0 => l = Garbage)
    OBVIOUS
  <2> QED
    BY <2>1, Rd1Put
<1> HIDE DEF p, x
<1>9. IsStream(b) /\ Width(b) = 1 + l
  BY <1>6, <1>7, StreamJoined, WidthJoined
<1>10. ASSUME NEW i, NEW s, IsStream(s)
       PROVE  TakeAuthField(i, b \o s) = Done(f, s)
  <2> DEFINE u == x \o s
             in == b \o s
             r == Rd1(1, in)
             q == RdBytes(l, u)
  <2>1. IsStream(u)
    BY <1>6, <1>10, StreamJoined
  <2>2. in = p \o u
    BY <1>6, <1>7, <1>10, Joined DEF IsStream
  <2> HIDE DEF in
  <2>3. r = Done(l, u)
    <3> HIDE DEF u, r
    <3>1. Rd1(1, p \o u) = Done(l, u)
      BY <1>8, <2>1
    <3> QED
      BY <2>2, <3>1 DEF r
  <2>4. q = Done(f, s)
    BY <1>4, <1>10
  <2>5. r.ok /\ r.v = l /\ r.in = u
    BY <2>3 DEF Done
  <2>6. q.ok /\ q.v = f /\ q.in = s
    BY <2>4 DEF Done
  <2> DEFINE inner == Then(r, LAMBDA l8, t : IF l8 = 255 THEN Rd1(2, t) ELSE Done(l8, t))
  <2>7. inner = Done(l, u)
    <3>1. inner = IF r.ok THEN (IF r.v = 255 THEN Rd1(2, r.in) ELSE Done(r.v, r.in)) ELSE r
      BY DEF Then
    <3> HIDE DEF r, inner, u
    <3>2. l # 255
      BY <1>1
    <3> QED
      BY <2>5, <3>1, <3>2
  <2>8. TakeAuthField(i, in) = Then(inner, LAMBDA k, t : RdBytes(k, t))
    BY DEF TakeAuthField
  <2> HIDE DEF inner, u, r
  <2>9. inner.ok /\ inner.v = l /\ inner.in = u
    BY <2>7 DEF Done
  <2>10. Then(inner, LAMBDA k, t : RdBytes(k, t)) = q
    BY <2>9 DEF Then
  <2> QED
    BY <2>4, <2>8, <2>10 DEF in
<1>11. IsAuthFieldAs(b, f)
  BY <1>9, <1>10 DEF IsAuthFieldAs
<1> HIDE DEF b
<1> QED
  BY <1>2, <1>3, <1>9, <1>11
-----------------------------------------------------------------------------
\* The body with the fields of an authentication is taken.
LEMMA AuthenticationIsTaken ==
  ASSUME NEW part, NEW ds, part.kind = "Authentication", AreFields(part.fields)
  PROVE  \E b, is : IsBody(part, ds, b, is)
<1> DEFINE vs == part.fields
           n == Len(vs)
           es == [i \in DOMAIN vs |-> EmitAuthField(vs[i])]
           ss == [i \in 1..n |-> CHOOSE b : /\ EmitAuthField(vs[i]) = Done(<<>>, b) /\ IsAuthFieldAs(b, vs[i])
                                            /\ Width(b) = AuthFieldSize(vs[i])]
           ws == [i \in DOMAIN vs |-> AuthFieldSize(vs[i])]
           h == Put(2, n)
           x == Flat(ss)
           b == h \o x
           columns == IterIn(ds)
<1>1. /\ EmitBody(part, ds) = [WriteEach(es) EXCEPT !.in = h \o @]
      /\ BodySize(part, ds) = 2 + Total(ws)
      /\ PartKind[part.kind] = 33
  <2>1. EmitBody(part, ds) = [WriteEach(es) EXCEPT !.in = h \o @]
    BY BodyIs
  <2>2. BodySize(part, ds) = 2 + Total(ws)
    BY BodySizeIs
  <2> QED
    BY <2>1, <2>2, KindsAre
<1>2. Understood(part, vs, ds)
  BY UnderstoodIs
<1>3. AreFields(vs)
  OBVIOUS
<1> HIDE DEF vs
<1>4. IsSeq(vs) /\ n \in Nat /\ DOMAIN vs = 1..n
      /\ \A i \in 1..n : IsBytes(vs[i]) /\ vs[i][2] <= 250
  <2>1. IsSeq(vs)
    BY <1>3 DEF AreFields
  <2> QED
    BY <1>3, <2>1, SeqFacts DEF AreFields
<1> HIDE DEF n
<1>5. \A i \in 1..n :
        /\ EmitAuthField(vs[i]) = Done(<<>>, ss[i]) /\ IsAuthFieldAs(ss[i], vs[i])
        /\ Width(ss[i]) = ws[i] /\ ws[i] \in Nat
  <2> TAKE i \in 1..n
  <2> DEFINE f == vs[i]
  <2>1. IsBytes(f) /\ f[2] <= 250
    BY <1>4
  <2>2. /\ ss[i] = CHOOSE c : /\ EmitAuthField(f) = Done(<<>>, c) /\ IsAuthFieldAs(c, f)
                              /\ Width(c) = AuthFieldSize(f)
        /\ ws[i] = AuthFieldSize(f)
    BY <1>4
  <2> HIDE DEF f, ss, ws
  <2>3. \E c : /\ EmitAuthField(f) = Done(<<>>, c) /\ IsAuthFieldAs(c, f)
                /\ Width(c) = AuthFieldSize(f) /\ AuthFieldSize(f) \in Nat
    BY <2>1, AuthFieldIsTaken
  <2>4. /\ EmitAuthField(f) = Done(<<>>, ss[i]) /\ IsAuthFieldAs(ss[i], f)
        /\ Width(ss[i]) = AuthFieldSize(f) /\ AuthFieldSize(f) \in Nat
    BY <2>2, <2>3
  <2> QED
    BY <2>2, <2>4 DEF f
<1>6. IsSeq(es) /\ Len(es) = n /\ IsSeq(ss) /\ Len(ss) = n /\ IsSeq(ws) /\ Len(ws) = n
  <2>1. es \in [1..n -> {es[i] : i \in 1..n}] /\ ss \in [1..n -> {ss[i] : i \in 1..n}]
        /\ ws \in [1..n -> {ws[i] : i \in 1..n}]
    <3>1. es \in [1..n -> {es[i] : i \in 1..n}]
      BY <1>4
    <3>2. ss \in [1..n -> {ss[i] : i \in 1..n}]
      OBVIOUS
    <3>3. ws \in [1..n -> {ws[i] : i \in 1..n}]
      BY <1>4
    <3> QED
      BY <3>1, <3>2, <3>3
  <2> HIDE DEF es, ss, ws
  <2> QED
    BY <1>4, <2>1, FunctionIs
<1>7. \A i \in 1..n : es[i] = EmitAuthField(vs[i])
  BY <1>4
<1> HIDE DEF es, ss, ws
<1>8. WriteEach(es) = Done(<<>>, x)
  <2>1. \A i \in 1..Len(es) : es[i].ok /\ es[i].in = ss[i]
    <3> TAKE i \in 1..Len(es)
    <3>1. es[i] = Done(<<>>, ss[i])
      BY <1>5, <1>6, <1>7
    <3> QED
      BY <3>1 DEF Done
  <2> QED
    BY <1>6, <2>1, EachIsWritten
<1>9. EmitBody(part, ds) = Done(<<>>, b)
  <2> HIDE DEF h, x
  <2>1. [Done(<<>>, x) EXCEPT !.in = h \o @] = Done(<<>>, h \o x)
    BY PutBefore
  <2> QED
    BY <1>1, <1>8, <2>1
<1>10. IsStreams(ss)
  BY <1>5, <1>6 DEF IsStreams, IsAuthFieldAs
<1>11. Numbers(ws)
  BY <1>5, <1>6 DEF Numbers
<1>12. IsStream(x) /\ Width(x) = Total(ws)
  BY <1>5, <1>6, <1>10, <1>11, WidthFlat
<1>13. IsStream(h) /\ Width(h) = 2 /\ Rd1(2, h \o x) = Done(n, x)
  <2> HIDE DEF x
  <2>1. 2 \in Nat /\ (2 = 0 => n = Garbage)
    OBVIOUS
  <2> QED
    BY <1>12, <2>1, PutStream, WidthPut, Rd1Put
<1>14. RdEach(TakeAuthField, n, x) = Done(vs, <<>>)
  <2> DEFINE e == <<>>
  <2>1. IsStream(e)
    BY StreamNothing
  <2>2. x \o e = x
    BY <1>12, NothingJoined DEF IsStream
  <2> HIDE DEF e
  <2>3. \A i \in 1..Len(vs) : IsAuthFieldAs(ss[i], vs[i])
    BY <1>5 DEF n
  <2>4. Len(ss) = Len(vs)
    BY <1>6 DEF n
  <2>5. RdEach(TakeAuthField, Len(vs), Flat(ss) \o e) = Done(vs, e)
    BY <1>4, <1>10, <2>1, <2>3, <2>4, AuthFieldsAreTaken
  <2> QED
    BY <2>2, <2>5 DEF e, n
<1> HIDE DEF x, h
<1>15. IsStream(b) /\ Width(b) = 2 + Total(ws)
  BY <1>12, <1>13, StreamJoined, WidthJoined
<1>16. AuthTaken(b) = Done(vs, <<>>)
  <2> DEFINE r == Rd1(2, b)
  <2>1. r.ok /\ r.v = n /\ r.in = x
    BY <1>13 DEF Done
  <2>2. AuthTaken(b) = IF r.ok THEN RdEach(TakeAuthField, r.v, r.in) ELSE r
    BY DEF AuthTaken, Then
  <2> HIDE DEF r
  <2> QED
    BY <1>14, <2>1, <2>2
<1> DEFINE c == Count(part)
<1> HIDE DEF b, columns, c
<1>17. TakeBody(33, c, Width(b), columns, b) = AuthTaken(b)
  BY TakeBodyIs
<1> QED
  BY <1>1, <1>2, <1>9, <1>15, <1>16, <1>17 DEF IsBody, columns, c
-----------------------------------------------------------------------------
\* A row whose values all can be sent.
SendsRow(row, ins) ==
    IsSeq(row) /\ IsSeq(ins) /\ Len(row) = Len(ins) /\ \A j \in 1..Len(row) : Sends(row[j], ins[j])
ToldRow(row, ins) == [j \in DOMAIN row |-> Told(row[j], ins[j])]

\* A row is sent with the size that was computed, and taken for its values.
LEMMA RowIsSent ==
  ASSUME NEW row, NEW ds, SendsRow(row, IterIn(ds))
  PROVE  \E b : /\ EmitRow(row, ds) = Done(<<>>, b) /\ IsRowAs(IterIn(ds), b, ToldRow(row, IterIn(ds)))
                /\ Width(b) = RowSize(row, ds) /\ RowSize(row, ds) \in Nat
<1> DEFINE ins == IterIn(ds)
           n == Len(row)
           vs == ToldRow(row, ins)
           es == [i \in DOMAIN row |-> EmitValue(row[i], ins[i])]
           ss == [i \in 1..n |-> CHOOSE b : IsSent(row[i], ins[i], b)]
           ws == [i \in DOMAIN row |-> ValueSize(row[i], ins[i].type)]
           b == Flat(ss)
<1>1. EmitRow(row, ds) = WriteEach(es) /\ RowSize(row, ds) = Total(ws)
  BY DEF EmitRow, RowSize
<1>2. SendsRow(row, ins)
  OBVIOUS
<1> HIDE DEF ins
<1>3. n \in Nat /\ DOMAIN row = 1..n /\ Len(ins) = n
  BY <1>2, SeqFacts DEF SendsRow
<1>4. \A i \in 1..n : Sends(row[i], ins[i])
  BY <1>2 DEF SendsRow
<1> HIDE DEF n
<1>5. \A i \in 1..n : IsSent(row[i], ins[i], ss[i])
  <2> TAKE i \in 1..n
  <2> DEFINE val == row[i]
             d == ins[i]
  <2>1. ss[i] = CHOOSE c : IsSent(val, d, c)
    OBVIOUS
  <2>2. Sends(val, d)
    BY <1>4
  <2> HIDE DEF val, d, ss
  <2>3. \E c : IsSent(val, d, c)
    BY <2>2, ValueIsSent
  <2> QED
    BY <2>1, <2>3 DEF val, d
<1>6. \A i \in 1..n : es[i] = EmitValue(row[i], ins[i]) /\ ws[i] = ValueSize(row[i], ins[i].type)
                      /\ vs[i] = Told(row[i], ins[i])
  BY <1>3 DEF ToldRow
<1>7. IsSeq(es) /\ Len(es) = n /\ IsSeq(ss) /\ Len(ss) = n /\ IsSeq(ws) /\ Len(ws) = n
      /\ IsSeq(vs) /\ Len(vs) = n
  <2>1. es \in [1..n -> {es[i] : i \in 1..n}] /\ ss \in [1..n -> {ss[i] : i \in 1..n}]
        /\ ws \in [1..n -> {ws[i] : i \in 1..n}] /\ vs \in [1..n -> {vs[i] : i \in 1..n}]
    <3>1. es \in [1..n -> {es[i] : i \in 1..n}]
      BY <1>3
    <3>2. ss \in [1..n -> {ss[i] : i \in 1..n}]
      OBVIOUS
    <3>3. ws \in [1..n -> {ws[i] : i \in 1..n}]
      BY <1>3
    <3>4. vs \in [1..n -> {vs[i] : i \in 1..n}]
      BY <1>3 DEF ToldRow
    <3> QED
      BY <3>1, <3>2, <3>3, <3>4
  <2> HIDE DEF es, ss, ws, vs
  <2> QED
    BY <1>3, <2>1, FunctionIs
<1> HIDE DEF es, ss, ws, vs
<1>8. \A i \in 1..n : /\ es[i] = Done(<<>>, ss[i]) /\ IsTakenAs(ins[i], ss[i], vs[i])
                      /\ Width(ss[i]) = ws[i] /\ IsStream(ss[i])
  BY <1>5, <1>6 DEF IsSent, IsTakenAs
<1>9. \A i \in 1..n : ws[i] \in Nat
  BY <1>8, WidthNat
<1>10. WriteEach(es) = Done(<<>>, b)
  <2>1. \A i \in 1..Len(es) : es[i].ok /\ es[i].in = ss[i]
    BY <1>7, <1>8 DEF Done
  <2> QED
    BY <1>7, <2>1, EachIsWritten
<1>11. IsStreams(ss)
  BY <1>7, <1>8 DEF IsStreams
<1>12. Numbers(ws)
  BY <1>7, <1>9 DEF Numbers
<1>13. IsStream(b) /\ Width(b) = Total(ws)
  BY <1>7, <1>8, <1>11, <1>12, WidthFlat
<1>14. \A s : IsStream(s) => TakeRow(ins, b \o s) = Done(vs, s)
  <2> TAKE s
  <2> HAVE IsStream(s)
  <2>1. Len(ss) = Len(vs) /\ Len(ins) = Len(vs)
    BY <1>3, <1>7
  <2>2. \A i \in 1..Len(vs) : IsTakenAs(ins[i], ss[i], vs[i])
    BY <1>7, <1>8
  <2> QED
    BY <1>7, <1>11, <2>1, <2>2, RowIsTaken
<1>15. Total(ws) \in Nat
  BY <1>12, TotalNat
<1> HIDE DEF b
<1> QED
  BY <1>1, <1>10, <1>13, <1>14, <1>15 DEF IsRowAs, vs, ins

\* The body with the rows of parameters is taken.
LEMMA ParametersAreTaken ==
  ASSUME NEW part, NEW ds, part.kind = "Parameters", IsSeq(part.rows),
         \A i \in 1..Len(part.rows) : SendsRow(part.rows[i], IterIn(ds))
  PROVE  \E b, is : IsBody(part, ds, b, is)
<1> DEFINE ins == IterIn(ds)
           rows == part.rows
           n == Len(rows)
           vs == [i \in DOMAIN rows |-> ToldRow(rows[i], ins)]
           es == [i \in DOMAIN rows |-> EmitRow(rows[i], ds)]
           ws == [i \in DOMAIN rows |-> RowSize(rows[i], ds)]
           ss == [i \in 1..n |-> CHOOSE b : /\ EmitRow(rows[i], ds) = Done(<<>>, b)
                                            /\ IsRowAs(ins, b, ToldRow(rows[i], ins))
                                            /\ Width(b) = RowSize(rows[i], ds)]
           b == Flat(ss)
<1>1. /\ EmitBody(part, ds) = WriteEach(es)
      /\ BodySize(part, ds) = Total(ws)
      /\ Count(part) = n
      /\ PartKind[part.kind] = 32
  <2>1. EmitBody(part, ds) = WriteEach(es)
    <3>1. EmitBody(part, ds) = RowsWritten(part.rows, ds)
      BY BodyIs
    <3>2. RowsWritten(rows, ds) = WriteEach(es)
      BY DEF RowsWritten
    <3> QED
      BY <3>1, <3>2
  <2>2. BodySize(part, ds) = Total(ws)
    BY BodySizeIs
  <2>3. Count(part) = n
    BY CountOfPart
  <2> QED
    BY <2>1, <2>2, <2>3, KindsAre
<1>2. Understood(part, vs, ds)
  BY UnderstoodIs DEF ToldRow
<1>3. IsSeq(rows) /\ \A i \in 1..n : SendsRow(rows[i], ins)
  OBVIOUS
<1> HIDE DEF rows, ins
<1>4. n \in Nat /\ DOMAIN rows = 1..n
  BY <1>3, SeqFacts
<1> HIDE DEF n
<1>5. \A i \in 1..n :
        /\ EmitRow(rows[i], ds) = Done(<<>>, ss[i]) /\ IsRowAs(ins, ss[i], ToldRow(rows[i], ins))
        /\ Width(ss[i]) = RowSize(rows[i], ds) /\ RowSize(rows[i], ds) \in Nat
  <2> TAKE i \in 1..n
  <2> DEFINE row == rows[i]
  <2>1. ss[i] = CHOOSE c : /\ EmitRow(row, ds) = Done(<<>>, c) /\ IsRowAs(ins, c, ToldRow(row, ins))
                           /\ Width(c) = RowSize(row, ds)
    OBVIOUS
  <2>2. SendsRow(row, IterIn(ds))
    BY <1>3 DEF ins
  <2> HIDE DEF row, ss
  <2>3. \E c : /\ EmitRow(row, ds) = Done(<<>>, c) /\ IsRowAs(ins, c, ToldRow(row, ins))
                /\ Width(c) = RowSize(row, ds) /\ RowSize(row, ds) \in Nat
    BY <2>2, RowIsSent DEF ins
  <2> QED
    BY <2>1, <2>3 DEF row
<1>6. \A i \in 1..n : es[i] = EmitRow(rows[i], ds) /\ ws[i] = RowSize(rows[i], ds)
                      /\ vs[i] = ToldRow(rows[i], ins)
  BY <1>4
<1>7. IsSeq(es) /\ Len(es) = n /\ IsSeq(ss) /\ Len(ss) = n /\ IsSeq(ws) /\ Len(ws) = n
      /\ IsSeq(vs) /\ Len(vs) = n
  <2>1. es \in [1..n -> {es[i] : i \in 1..n}] /\ ss \in [1..n -> {ss[i] : i \in 1..n}]
        /\ ws \in [1..n -> {ws[i] : i \in 1..n}] /\ vs \in [1..n -> {vs[i] : i \in 1..n}]
    <3>1. es \in [1..n -> {es[i] : i \in 1..n}]
      BY <1>4
    <3>2. ss \in [1..n -> {ss[i] : i \in 1..n}]
      OBVIOUS
    <3>3. ws \in [1..n -> {ws[i] : i \in 1..n}]
      BY <1>4
    <3>4. vs \in [1..n -> {vs[i] : i \in 1..n}]
      BY <1>4
    <3> QED
      BY <3>1, <3>2, <3>3, <3>4
  <2> HIDE DEF es, ss, ws, vs
  <2> QED
    BY <1>4, <2>1, FunctionIs
<1> HIDE DEF es, ss, ws, vs
<1>8. \A i \in 1..n : /\ es[i] = Done(<<>>, ss[i]) /\ IsRowAs(ins, ss[i], vs[i])
                      /\ Width(ss[i]) = ws[i] /\ IsStream(ss[i]) /\ ws[i] \in Nat
  BY <1>5, <1>6 DEF IsRowAs
<1>9. WriteEach(es) = Done(<<>>, b)
  <2>1. \A i \in 1..Len(es) : es[i].ok /\ es[i].in = ss[i]
    BY <1>7, <1>8 DEF Done
  <2> QED
    BY <1>7, <2>1, EachIsWritten
<1>10. IsStreams(ss)
  BY <1>7, <1>8 DEF IsStreams
<1>11. Numbers(ws)
  BY <1>7, <1>8 DEF Numbers
<1>12. IsStream(b) /\ Width(b) = Total(ws)
  BY <1>7, <1>8, <1>10, <1>11, WidthFlat
<1>13. RowsTaken(ins, n, b) = Done(vs, <<>>)
  <2> DEFINE e == <<>>
  <2>1. IsStream(e)
    BY StreamNothing
  <2>2. b \o e = b
    BY <1>12, NothingJoined DEF IsStream
  <2> HIDE DEF e
  <2>3. \A i \in 1..Len(vs) : IsRowAs(ins, ss[i], vs[i])
    BY <1>7, <1>8
  <2>4. Len(ss) = Len(vs)
    BY <1>7
  <2>5. RowsTaken(ins, Len(vs), Flat(ss) \o e) = Done(vs, e)
    BY <1>7, <1>10, <2>1, <2>3, <2>4, RowsAreTaken
  <2> QED
    BY <1>7, <2>2, <2>5 DEF e
<1> HIDE DEF b
<1>14. TakeBody(32, n, Width(b), ins, b) = RowsTaken(ins, n, b)
  BY TakeBodyIs
<1> QED
  BY <1>1, <1>2, <1>9, <1>12, <1>13, <1>14 DEF IsBody, ins, b
-----------------------------------------------------------------------------
\* A part that can be sent, and whose size is the one that is written.
PartFits(part, ds) ==
    /\ part.kind \in OptionKinds \cup OtherKinds
    /\ part.kind \in OptionKinds => IsOptions(part.options)
    /\ part.kind = "Command" => IsBytes(part.text)
    /\ part.kind = "WriteLobRequest" => IsBytes(part.data)
    /\ part.kind = "ClientInfo" => IsInfo(part.info)
    /\ part.kind = "Authentication" => AreFields(part.fields)
    /\ part.kind = "Parameters" =>
          IsSeq(part.rows) /\ \A i \in 1..Len(part.rows) : SendsRow(part.rows[i], IterIn(ds))

\* The body of any part that fits is taken, and has the size that was computed.
LEMMA BodyIsTaken ==
  ASSUME NEW part, NEW ds, PartFits(part, ds)
  PROVE  \E b, is : IsBody(part, ds, b, is)
<1>1. CASE part.kind \in OptionKinds
  <2>1. IsOptions(part.options)
    BY <1>1 DEF PartFits
  <2> QED
    BY <1>1, <2>1, OptionsPartIsTaken
<1>2. CASE part.kind = "Command"
  <2>1. IsBytes(part.text)
    BY <1>2 DEF PartFits
  <2> QED
    BY <1>2, <2>1, CommandIsTaken
<1>3. CASE part.kind \in {"FetchSize", "StatementId", "ResultSetId"}
  BY <1>3, NumberPartIsTaken
<1>4. CASE part.kind = "ReadLobRequest"
  BY <1>4, ReadLobIsTaken
<1>5. CASE part.kind = "WriteLobRequest"
  <2>1. IsBytes(part.data)
    BY <1>5 DEF PartFits
  <2> QED
    BY <1>5, <2>1, WriteLobIsTaken
<1>6. CASE part.kind = "Parameters"
  <2>1. IsSeq(part.rows) /\ \A i \in 1..Len(part.rows) : SendsRow(part.rows[i], IterIn(ds))
    BY <1>6 DEF PartFits
  <2> QED
    BY <1>6, <2>1, ParametersAreTaken
<1>7. CASE part.kind = "Authentication"
  <2>1. AreFields(part.fields)
    BY <1>7 DEF PartFits
  <2> QED
    BY <1>7, <2>1, AuthenticationIsTaken
<1>8. CASE part.kind = "ClientInfo"
  <2>1. IsInfo(part.info)
    BY <1>8 DEF PartFits
  <2> QED
    BY <1>8, <2>1, ClientInfoIsTaken
<1>9. part.kind \in OptionKinds \cup OtherKinds
  BY DEF PartFits
<1> QED
  BY <1>1, <1>2, <1>3, <1>4, <1>5, <1>6, <1>7, <1>8, <1>9 DEF OtherKinds

\* The number of a part's things is one.
LEMMA CountNat ==
  ASSUME NEW part, NEW ds, PartFits(part, ds)
  PROVE  Count(part) \in Nat
<1> DEFINE options == part.options
           info == part.info
           rows == part.rows
<1>1. CASE part.kind \in OptionKinds
  <2>1. IsFiniteSet(DOMAIN options)
    BY <1>1 DEF PartFits, IsOptions
  <2>2. Count(part) = Cardinality(DOMAIN options)
    BY <1>1, CountOfPart
  <2> HIDE DEF options
  <2>3. Cardinality(DOMAIN options) \in Nat
    BY <2>1, OrderOfMap
  <2> QED
    BY <2>2, <2>3
<1>2. CASE part.kind = "ClientInfo"
  <2>1. IsFiniteSet(DOMAIN info)
    BY <1>2 DEF PartFits, IsInfo
  <2>2. Count(part) = 2 * Cardinality(DOMAIN info)
    BY <1>2, CountOfPart
  <2> HIDE DEF info
  <2>3. Cardinality(DOMAIN info) \in Nat
    BY <2>1, OrderOfMap
  <2> QED
    BY <2>2, <2>3
<1>3. CASE part.kind = "Parameters"
  <2>1. IsSeq(rows)
    BY <1>3 DEF PartFits
  <2>2. Count(part) = Len(rows)
    BY <1>3, CountOfPart
  <2> HIDE DEF rows
  <2> QED
    BY <2>1, <2>2, SeqFacts
<1>4. CASE part.kind \in OtherKinds \ {"ClientInfo", "Parameters"}
  <2>1. Count(part) = 1
    BY <1>4, CountOfPart DEF OtherKinds
  <2> QED
    BY <2>1
<1>5. part.kind \in OptionKinds \cup OtherKinds
  BY DEF PartFits
<1> QED
  BY <1>1, <1>2, <1>3, <1>4, <1>5

\* The bytes behind a part are as many as computed.
LEMMA PaddingIs ==
  ASSUME NEW n \in Nat
  PROVE  IsStream(Padding(n)) /\ Width(Padding(n)) = n
<1> DEFINE p == Padding(n)
           s == WidthsOf(p)
           f == [i \in 0..n |-> i]
<1>1. p \in [1..n -> {p[i] : i \in 1..n}] /\ \A i \in 1..n : p[i].w = 1
  BY DEF Padding
<1> HIDE DEF p
<1>2. IsSeq(p) /\ Len(p) = n
  BY <1>1, FunctionIs
<1>3. IsStream(p)
  BY <1>1, <1>2 DEF IsStream
<1>4. /\ Numbers(s) /\ Len(s) = n /\ Width(p) = Total(s) /\ \A i \in 1..n : s[i] = 1
  <2> HIDE DEF s
  <2>1. /\ Numbers(s) /\ Len(s) = Len(p) /\ Width(p) = Total(s)
         /\ \A i \in 1..Len(p) : s[i] = p[i].w
    BY <1>3, WidthsAre DEF s
  <2> QED
    BY <1>1, <1>2, <2>1
<1> HIDE DEF s
<1>5. Sums(s, f)
  BY <1>4 DEF Sums
<1>6. f[n] = n
  OBVIOUS
<1> HIDE DEF f
<1>7. Total(s) = n
  BY <1>4, <1>5, <1>6, TotalIs
<1> QED
  BY <1>3, <1>4, <1>7 DEF p

\* And they are a number.
LEMMA PadSizeIs ==
  ASSUME NEW n \in Nat
  PROVE  PadSize(n) \in Nat
<1>1. CASE n = 0
  BY <1>1 DEF PadSize
<1>2. CASE n # 0
  <2> DEFINE k == (n - 1) % 8
  <2>1. k \in 0..7
    BY <1>2
  <2>2. PadSize(n) = 7 - k
    BY <1>2 DEF PadSize
  <2> HIDE DEF k
  <2> QED
    BY <2>1, <2>2
<1> QED
  BY <1>1, <1>2

\* Six elements are a sequence.
LEMMA SixAre ==
  ASSUME NEW a, NEW b, NEW c, NEW d, NEW e, NEW f
  PROVE  LET s == <<a, b, c, d, e, f>> IN
         /\ IsSeq(s) /\ Len(s) = 6
         /\ s[1] = a /\ s[2] = b /\ s[3] = c /\ s[4] = d /\ s[5] = e /\ s[6] = f
<1> DEFINE s == <<a, b, c, d, e, f>>
<1>1. s \in Seq({a, b, c, d, e, f})
  OBVIOUS
<1>2. IsSeq(s)
  BY <1>1, SeqIs
<1> QED
  BY <1>2

\* The header of a part has 16 bytes.
HeaderWidths == <<1, 1, 2, 4, 4, 4>>

\* The header of a part has 16 bytes.
LEMMA HeaderWidthsAre == Widths(HeaderWidths) /\ Len(HeaderWidths) = 6 /\ Total(HeaderWidths) = 16
<1> DEFINE s == HeaderWidths
           f == [i \in 0..6 |-> CASE i = 0 -> 0 [] i = 1 -> 1 [] i = 2 -> 2 [] i = 3 -> 4 [] i = 4 -> 8
                                  [] i = 5 -> 12 [] OTHER -> 16]
<1>1. IsSeq(s) /\ Len(s) = 6 /\ s[1] = 1 /\ s[2] = 1 /\ s[3] = 2 /\ s[4] = 4 /\ s[5] = 4 /\ s[6] = 4
  BY SixAre DEF HeaderWidths
<1>2. f[0] = 0 /\ f[1] = 1 /\ f[2] = 2 /\ f[3] = 4 /\ f[4] = 8 /\ f[5] = 12 /\ f[6] = 16
  OBVIOUS
<1>3. f = [i \in 0..6 |-> f[i]]
  OBVIOUS
<1> HIDE DEF s, f
<1>4. \A i \in 1..6 : s[i] \in Nat \ {0}
  <2> TAKE i \in 1..6
  <2>1. i = 1 \/ i = 2 \/ i = 3 \/ i = 4 \/ i = 5 \/ i = 6
    OBVIOUS
  <2> QED
    BY <1>1, <2>1
<1>5. Widths(s) /\ Numbers(s)
  BY <1>1, <1>4 DEF Widths, Numbers
<1>6. \A i \in 0..6 : f[i] = IF i = 0 THEN 0 ELSE f[i - 1] + s[i]
  <2> TAKE i \in 0..6
  <2>1. i = 0 \/ i = 1 \/ i = 2 \/ i = 3 \/ i = 4 \/ i = 5 \/ i = 6
    OBVIOUS
  <2> QED
    BY <1>1, <1>2, <2>1
<1>7. Sums(s, f)
  BY <1>1, <1>3, <1>6 DEF Sums
<1>8. Total(s) = f[Len(s)]
  BY <1>5, <1>7, TotalIs
<1> QED
  BY <1>1, <1>2, <1>5, <1>8 DEF s

\* The header of a part is read as it was written.
LEMMA HeaderIs ==
  ASSUME NEW vs, IsSeq(vs), Len(vs) = 6, NEW s, IsStream(s)
  PROVE  /\ IsStream(PutAll(HeaderWidths, vs)) /\ Width(PutAll(HeaderWidths, vs)) = 16
         /\ Rd(HeaderWidths, PutAll(HeaderWidths, vs) \o s) = Done(vs, s)
<1>1. Rd(HeaderWidths, PutAll(HeaderWidths, vs) \o s) = Done(vs, s)
  BY HeaderWidthsAre, RdPutAll
<1>2. IsStream(PutAll(HeaderWidths, vs)) /\ Width(PutAll(HeaderWidths, vs)) = 16
  BY HeaderWidthsAre, PutAllIs, WidthPutAll
<1> QED
  BY <1>1, <1>2
-----------------------------------------------------------------------------
AfterContent(acc, h, content, t) ==
    LET d == Cut(PadSize(h[5]), t) IN
    IF d.ok THEN Done([left  |-> acc.left - 16 - h[5] - PadSize(h[5]),
                       parts |-> Append(acc.parts, [kind |-> h[1], is |-> content])], d.in)
    ELSE d
AfterCut(columns, acc, h, body, t) ==
    LET c == TakeBody(h[1], IF h[3] = -1 THEN h[4] ELSE h[3], h[5], columns, body) IN
    IF c.ok THEN IF c.in # <<>> THEN Fail(Lost) ELSE AfterContent(acc, h, c.v, t) ELSE c
AfterHeader(columns, acc, h, s) ==
    LET b == Cut(h[5], s) IN IF b.ok THEN AfterCut(columns, acc, h, b.v, b.in) ELSE b

NextPart(acc, h, content) ==
    [left  |-> acc.left - 16 - h[5] - PadSize(h[5]),
     parts |-> Append(acc.parts, [kind |-> h[1], is |-> content])]

\* With the header, the database goes on to the body.
LEMMA AfterHeaderIs ==
  ASSUME NEW columns, NEW acc, NEW in, NEW h, NEW s,
         Rd(HeaderWidths, in) = Done(h, s), h[6] = acc.left
  PROVE  TakePart(columns, acc, in) = AfterHeader(columns, acc, h, s)
<1> DEFINE a == Rd(HeaderWidths, in)
<1>1. a.ok /\ a.v = h /\ a.in = s
  BY DEF Done
<1>2. TakePart(columns, acc, in) =
        IF a.ok THEN IF a.v[6] # acc.left THEN Fail(Lost) ELSE AfterHeader(columns, acc, a.v, a.in)
        ELSE a
  BY DEF TakePart, Then, HeaderWidths, AfterHeader, AfterCut, AfterContent
<1> HIDE DEF a
<1> QED
  BY <1>1, <1>2

\* With the body, it goes on to what is in it.
LEMMA AfterCutIs ==
  ASSUME NEW columns, NEW acc, NEW h, NEW s, NEW body, NEW t, Cut(h[5], s) = Done(body, t)
  PROVE  AfterHeader(columns, acc, h, s) = AfterCut(columns, acc, h, body, t)
<1> DEFINE b == Cut(h[5], s)
<1>1. b.ok /\ b.v = body /\ b.in = t
  BY DEF Done
<1>2. AfterHeader(columns, acc, h, s) = IF b.ok THEN AfterCut(columns, acc, h, b.v, b.in) ELSE b
  BY DEF AfterHeader
<1> HIDE DEF b
<1> QED
  BY <1>1, <1>2

\* When nothing of the body is left, it goes on to the padding.
LEMMA AfterContentIs ==
  ASSUME NEW columns, NEW acc, NEW h, NEW body, NEW t, NEW content,
         TakeBody(h[1], IF h[3] = -1 THEN h[4] ELSE h[3], h[5], columns, body) = Done(content, <<>>)
  PROVE  AfterCut(columns, acc, h, body, t) = AfterContent(acc, h, content, t)
<1> DEFINE c == TakeBody(h[1], IF h[3] = -1 THEN h[4] ELSE h[3], h[5], columns, body)
<1>1. c.ok /\ c.v = content /\ c.in = <<>>
  BY DEF Done
<1>2. AfterCut(columns, acc, h, body, t) =
           IF c.ok THEN IF c.in # <<>> THEN Fail(Lost) ELSE AfterContent(acc, h, c.v, t) ELSE c
  BY DEF AfterCut
<1> HIDE DEF c
<1> QED
  BY <1>1, <1>2

\* Without the padding, the part is taken.
LEMMA AfterPadIs ==
  ASSUME NEW acc, NEW h, NEW t, NEW content, NEW pad, NEW rest, Cut(PadSize(h[5]), t) = Done(pad, rest)
  PROVE  AfterContent(acc, h, content, t) = Done(NextPart(acc, h, content), rest)
<1> DEFINE d == Cut(PadSize(h[5]), t)
<1>1. d.ok /\ d.v = pad /\ d.in = rest
  BY DEF Done
<1>2. AfterContent(acc, h, content, t) = IF d.ok THEN Done(NextPart(acc, h, content), d.in) ELSE d
  BY DEF AfterContent, NextPart
<1> HIDE DEF d
<1> QED
  BY <1>1, <1>2

IsPartAs(columns, left, size, p, v) ==
    IsStream(p) /\ \A acc, s : acc.left = left /\ IsStream(s) =>
        TakePart(columns, acc, p \o s) =
            Done([left |-> left - 16 - size - PadSize(size), parts |-> Append(acc.parts, v)], s)
\* A part arrives, and what is left of the message is counted right.
LEMMA PartIsTaken ==
  ASSUME NEW part, NEW ds, PartFits(part, ds), NEW left \in Int
  PROVE  \E p, is : /\ EmitPart(part, left, ds) = Done(<<>>, p)
                    /\ IsPartAs(IterIn(ds), left, BodySize(part, ds), p, [kind |-> PartKind[part.kind], is |-> is])
                    /\ Width(p) = PartSize(part, ds) /\ PartSize(part, ds) \in Nat
                    /\ PartSize(part, ds) = 16 + BodySize(part, ds) + PadSize(BodySize(part, ds))
                    /\ Understood(part, is, ds)
<1>1. PICK b, is : IsBody(part, ds, b, is)
  BY BodyIsTaken
<1> DEFINE size == BodySize(part, ds)
           args == Count(part)
           columns == IterIn(ds)
           kind == PartKind[part.kind]
           h == <<kind, 0, IF args < MaxI16 THEN args ELSE -1,
                  IF args < MaxI16 THEN 0 ELSE args, size, left>>
           x == PutAll(HeaderWidths, h)
           q == Padding(PadSize(size))
           y == b \o q
           p == x \o y
           n == IF h[3] = -1 THEN h[4] ELSE h[3]
<1>2. /\ EmitBody(part, ds) = Done(<<>>, b) /\ IsStream(b) /\ Width(b) = size
      /\ TakeBody(kind, args, size, columns, b) = Done(is, <<>>)
      /\ Understood(part, is, ds)
  BY <1>1 DEF IsBody
<1>3. args \in Nat
  BY CountNat
<1>4. MaxI16 \in Nat
  BY CountAssumption
<1>5. /\ IsSeq(h) /\ Len(h) = 6 /\ h[1] = kind /\ h[5] = size /\ h[6] = left
      /\ h[3] = (IF args < MaxI16 THEN args ELSE -1) /\ h[4] = IF args < MaxI16 THEN 0 ELSE args
  <2> HIDE DEF args, size, kind
  <2> QED
    BY SixAre
<1>6. size \in Nat
  BY <1>2, WidthNat
<1>7. EmitPart(part, left, ds) = Done(<<>>, (x \o b) \o q)
  <2> DEFINE body == EmitBody(part, ds)
  <2>1. body.ok /\ body.in = b
    BY <1>2 DEF Done
  <2>2. EmitPart(part, left, ds) = IF body.ok THEN Done(<<>>, (x \o body.in) \o q) ELSE Fail(x \o body.in)
    BY DEF EmitPart, HeaderWidths
  <2> HIDE DEF body, x, q
  <2> QED
    BY <2>1, <2>2
<1>8. PartSize(part, ds) = 16 + size + PadSize(size) /\ PadSize(size) \in Nat
  <2>1. PartSize(part, ds) = 16 + size + PadSize(size)
    BY DEF PartSize
  <2> HIDE DEF size
  <2> QED
    BY <1>6, <2>1, PadSizeIs
<1> HIDE DEF h, args, size, kind, columns
<1>9. n = args
  BY <1>3, <1>4, <1>5
<1> HIDE DEF n
<1>10. IsStream(q) /\ Width(q) = PadSize(size)
  BY <1>8, PaddingIs
<1> HIDE DEF q
<1>11. IsStream(y) /\ Width(y) = size + PadSize(size)
  BY <1>2, <1>10, StreamJoined, WidthJoined
<1>12. IsStream(x) /\ Width(x) = 16
  BY <1>5, StreamNothing, HeaderIs
<1> HIDE DEF x
<1>13. (x \o b) \o q = p
  <2>1. IsSeq(x) /\ IsSeq(b) /\ IsSeq(q)
    BY <1>2, <1>10, <1>12 DEF IsStream
  <2> QED
    BY <2>1, Joined
<1>14. IsStream(p) /\ Width(p) = 16 + size + PadSize(size)
  <2> HIDE DEF y
  <2>1. IsStream(p) /\ Width(p) = Width(x) + Width(y)
    BY <1>11, <1>12, StreamJoined, WidthJoined
  <2> QED
    BY <1>6, <1>8, <1>11, <1>12, <2>1
<1>15. ASSUME NEW acc, NEW s, acc.left = left, IsStream(s)
       PROVE  TakePart(columns, acc, p \o s) =
                Done([left |-> left - 16 - size - PadSize(size),
                      parts |-> Append(acc.parts, [kind |-> kind, is |-> is])], s)
  <2> DEFINE u == q \o s
             t == b \o u
             in == p \o s
  <2>1. IsStream(u)
    BY <1>10, <1>15, StreamJoined
  <2>2. IsStream(t)
    <3> HIDE DEF u
    <3> QED
      BY <1>2, <2>1, StreamJoined
  <2>3. in = x \o t
    <3>1. IsSeq(x) /\ IsSeq(b) /\ IsSeq(q) /\ IsSeq(s) /\ IsSeq(y)
      BY <1>2, <1>10, <1>11, <1>12, <1>15 DEF IsStream
    <3>2. y \o s = b \o u
      BY <3>1, Joined, SMTT(60)
    <3> HIDE DEF y
    <3>3. in = x \o (y \o s)
      BY <3>1, Joined, SMTT(60)
    <3> QED
      BY <3>2, <3>3
  <2> HIDE DEF in
  <2>4. Rd(HeaderWidths, in) = Done(h, t)
    <3> HIDE DEF t
    <3>1. Rd(HeaderWidths, x \o t) = Done(h, t)
      BY <1>5, <2>2, HeaderIs DEF x
    <3> QED
      BY <2>3, <3>1
  <2>5. Cut(h[5], t) = Done(b, u)
    <3> HIDE DEF u
    <3>1. Cut(Width(b), b \o u) = Done(b, u)
      BY <1>2, <2>1, CutIs
    <3> QED
      BY <1>2, <1>5, <3>1
  <2>6. Cut(PadSize(h[5]), u) = Done(q, s)
    <3>1. Cut(Width(q), q \o s) = Done(q, s)
      BY <1>10, <1>15, CutIs
    <3> QED
      BY <1>5, <1>10, <3>1
  <2>7. TakeBody(h[1], IF h[3] = -1 THEN h[4] ELSE h[3], h[5], columns, b) = Done(is, <<>>)
    BY <1>2, <1>5, <1>9 DEF n
  <2>8. h[6] = acc.left
    BY <1>5, <1>15
  <2> HIDE DEF t, u
  <2>9. TakePart(columns, acc, in) = AfterHeader(columns, acc, h, t)
    BY <2>4, <2>8, AfterHeaderIs
  <2>10. AfterHeader(columns, acc, h, t) = AfterCut(columns, acc, h, b, u)
    BY <2>5, AfterCutIs
  <2>11. AfterCut(columns, acc, h, b, u) = AfterContent(acc, h, is, u)
    BY <2>7, AfterContentIs
  <2>12. AfterContent(acc, h, is, u) = Done(NextPart(acc, h, is), s)
    BY <2>6, AfterPadIs
  <2>13. NextPart(acc, h, is) = [left |-> left - 16 - size - PadSize(size),
                                parts |-> Append(acc.parts, [kind |-> kind, is |-> is])]
    BY <1>5, <1>15 DEF NextPart
  <2> QED
    BY <2>9, <2>10, <2>11, <2>12, <2>13 DEF in
<1> HIDE DEF p
<1>16. IsPartAs(columns, left, size, p, [kind |-> kind, is |-> is])
  BY <1>14, <1>15 DEF IsPartAs
<1>17. PartSize(part, ds) \in Nat
  BY <1>6, <1>8
<1>18. /\ EmitPart(part, left, ds) = Done(<<>>, p)
       /\ IsPartAs(IterIn(ds), left, BodySize(part, ds), p, [kind |-> PartKind[part.kind], is |-> is])
       /\ Width(p) = PartSize(part, ds)
       /\ PartSize(part, ds) = 16 + BodySize(part, ds) + PadSize(BodySize(part, ds))
  BY <1>7, <1>8, <1>13, <1>14, <1>16 DEF size, columns, kind
<1> QED
  BY <1>2, <1>17, <1>18
-----------------------------------------------------------------------------
\* A sequence of parts as it is taken, with the bytes that remain before each.
ArePartsAs(columns, left, sizes, ss, vs) ==
    /\ IsSeq(vs) /\ IsStreams(ss) /\ Len(ss) = Len(vs)
    /\ \A i \in 1..Len(vs) : left[i] = left[i - 1] - 16 - sizes[i] - PadSize(sizes[i])
    /\ \A i \in 1..Len(vs) : IsPartAs(columns, left[i - 1], sizes[i], ss[i], vs[i])

\* Parts that are taken one by one are taken together.
LEMMA PartsAreTaken ==
  ASSUME NEW columns, NEW left, NEW sizes, NEW ss, NEW vs, ArePartsAs(columns, left, sizes, ss, vs),
         NEW rest, IsStream(rest)
  PROVE  TakeParts(columns, Len(vs), left[0], Flat(ss) \o rest) = Done([left |-> left[Len(vs)], parts |-> vs], rest)
<1>0. /\ IsSeq(vs) /\ IsStreams(ss) /\ Len(ss) = Len(vs)
      /\ \A i \in 1..Len(vs) : left[i] = left[i - 1] - 16 - sizes[i] - PadSize(sizes[i])
      /\ \A i \in 1..Len(vs) : IsPartAs(columns, left[i - 1], sizes[i], ss[i], vs[i])
  BY DEF ArePartsAs
<1> USE <1>0
<1> DEFINE n == Len(vs)
           in == Flat(ss) \o rest
           at(i) == Left(ss, rest, i)
           upto(i) == Upto(vs, i)
           acc(i) == [left |-> left[i], parts |-> upto(i)]
           P(a, s) == TakePart(columns, a, s)
           Step(x, i) == Then(x, LAMBDA a, s : P(a, s))
           zero == [left |-> left[0], parts |-> <<>>]
           r == [i \in 0..n |-> Done(acc(i), at(i))]
           Is(f) == f = [i \in 0..n |-> IF i = 0 THEN Done(zero, in) ELSE Step(f[i - 1], i)]
<1>1. /\ at(0) = in /\ at(n) = rest /\ \A i \in 0..n : IsStream(at(i))
      /\ \A i \in 1..n : at(i - 1) = ss[i] \o at(i)
  <2>1. /\ Left(ss, rest, 0) = Flat(ss) \o rest /\ Left(ss, rest, Len(ss)) = rest
        /\ \A i \in 0..Len(ss) : IsStream(Left(ss, rest, i))
        /\ \A i \in 1..Len(ss) : Left(ss, rest, i - 1) = ss[i] \o Left(ss, rest, i)
    BY LeftIs, ZenonT(60)
  <2> QED
    BY <2>1
<1>2. /\ upto(0) = <<>> /\ upto(n) = vs /\ n \in Nat
      /\ \A i \in 1..n : Append(upto(i - 1), vs[i]) = upto(i)
  BY UptoIs, SeqFacts
<1>3. ASSUME NEW i \in 1..n PROVE P(acc(i - 1), at(i - 1)) = Done(acc(i), at(i))
  <2> DEFINE a == acc(i - 1)
             s == at(i)
  <2>1. IsPartAs(columns, left[i - 1], sizes[i], ss[i], vs[i]) /\ IsStream(s) /\ at(i - 1) = ss[i] \o s
    <3>1. IsPartAs(columns, left[i - 1], sizes[i], ss[i], vs[i])
      OBVIOUS
    <3>2. IsStream(at(i)) /\ at(i - 1) = ss[i] \o at(i)
      BY <1>1, <1>2
    <3> QED
      BY <3>1, <3>2
  <2>2. a.left = left[i - 1] /\ a.parts = upto(i - 1)
    OBVIOUS
  <2>3. left[i] = left[i - 1] - 16 - sizes[i] - PadSize(sizes[i])
    OBVIOUS
  <2>4. Append(upto(i - 1), vs[i]) = upto(i)
    BY <1>2
  <2> HIDE DEF a, s, upto
  <2>5. TakePart(columns, a, ss[i] \o s) =
            Done([left |-> left[i - 1] - 16 - sizes[i] - PadSize(sizes[i]), parts |-> Append(a.parts, vs[i])], s)
    BY <2>1, <2>2 DEF IsPartAs
  <2>6. [left |-> left[i - 1] - 16 - sizes[i] - PadSize(sizes[i]), parts |-> Append(a.parts, vs[i])] = acc(i)
    BY <2>2, <2>3, <2>4
  <2>7. P(a, at(i - 1)) = TakePart(columns, a, at(i - 1))
    OBVIOUS
  <2> HIDE DEF at, P, acc
  <2>8. P(a, at(i - 1)) = Done(acc(i), s)
    BY <2>1, <2>5, <2>6, <2>7
  <2> QED
    BY <2>8 DEF a, s
<1>4. TakeParts(columns, Len(vs), left[0], in) = (CHOOSE f : Is(f))[n]
  <2> HIDE DEF in
  <2> QED
    BY DEF TakeParts, RdFold
<1>5. ASSUME NEW i, NEW a, NEW s, NEW v, NEW t, P(a, s) = Done(v, t)
      PROVE  Step(Done(a, s), i) = Done(v, t)
  <2> DEFINE x == Done(a, s)
  <2>1. x.ok /\ x.v = a /\ x.in = s
    BY DEF Done
  <2>2. Step(x, i) = IF x.ok THEN P(x.v, x.in) ELSE x
    <3> HIDE DEF x, P
    <3> QED
      BY DEF Then
  <2>3. Step(x, i) = P(a, s)
    <3> HIDE DEF x, P, Step
    <3> QED
      BY <2>1, <2>2
  <2> QED
    BY <1>5, <2>3
<1>11. zero = acc(0)
  BY <1>2
<1> HIDE DEF P, Step, in, at, acc, n, zero, upto
<1>6. ASSUME NEW i \in 1..n PROVE Step(r[i - 1], i) = r[i]
  <2>1. i - 1 \in 0..n /\ i \in 0..n
    BY <1>2
  <2>2. r[i - 1] = Done(acc(i - 1), at(i - 1)) /\ r[i] = Done(acc(i), at(i))
    BY <2>1
  <2> HIDE DEF r
  <2> DEFINE s == at(i - 1)
             t == at(i)
             a == acc(i - 1)
             b == acc(i)
  <2>4. P(a, s) = Done(b, t)
    BY <1>3
  <2> HIDE DEF s, t, a, b
  <2>5. Step(Done(a, s), i) = Done(b, t)
    BY <1>5, <2>4
  <2>3. Step(Done(acc(i - 1), at(i - 1)), i) = Done(acc(i), at(i))
    BY <2>5 DEF s, t, a, b
  <2> QED
    BY <1>2, <2>2, <2>3
<1>7. Is(r)
  <2>1. \A i \in 0..n : r[i] = IF i = 0 THEN Done(zero, in) ELSE Step(r[i - 1], i)
    <3> TAKE i \in 0..n
    <3>1. CASE i = 0
      BY <1>1, <1>11, <1>2, <3>1
    <3>2. CASE i # 0
      <4>1. i \in 1..n
        BY <1>2, <3>2
      <4> HIDE DEF r
      <4> QED
        BY <1>6, <3>2, <4>1
    <3> QED
      BY <3>1, <3>2
  <2>2. r = [i \in 0..n |-> r[i]]
    OBVIOUS
  <2> HIDE DEF r
  <2> QED
    BY <2>1, <2>2
<1> DEFINE f == CHOOSE g : Is(g)
<1>8. Is(f)
  <2> HIDE DEF Is
  <2> QED
    BY <1>7, Zenon
<1>9. f[n] = r[n]
  <2> DEFINE T == {k \in Nat : k <= n => f[k] = r[k]}
  <2>1. f[0] = r[0]
    <3>1. 0 \in 0..n
      BY <1>2
    <3> HIDE DEF r, f
    <3> QED
      BY <1>7, <1>8, <3>1
  <2>2. ASSUME NEW k \in Nat, k + 1 <= n, f[k] = r[k] PROVE f[k + 1] = r[k + 1]
    <3>1. k + 1 \in 0..n /\ k + 1 # 0 /\ (k + 1) - 1 = k
      BY <1>2, <2>2
    <3> HIDE DEF r, f
    <3>2. f[k + 1] = Step(f[k], k + 1) /\ r[k + 1] = Step(r[k], k + 1)
      BY <1>7, <1>8, <3>1
    <3> QED
      BY <2>2, <3>2
  <2> HIDE DEF f, r
  <2>3. 0 \in T /\ \A k \in Nat : k \in T => k + 1 \in T
    <3>1. 0 \in T
      BY <1>2, <2>1
    <3>2. ASSUME NEW k \in Nat, k \in T PROVE k + 1 \in T
      <4>1. k <= n => f[k] = r[k]
        BY <3>2
      <4>2. ASSUME k + 1 <= n PROVE f[k + 1] = r[k + 1]
        <5>1. k <= n
          BY <1>2, <4>2
        <5> QED
          BY <2>2, <4>1, <4>2, <5>1
      <4> QED
        BY <4>2
    <3> QED
      BY <3>1, <3>2
  <2> HIDE DEF T
  <2>4. n \in T
    BY <1>2, <2>3, AllNumbers
  <2> QED
    BY <1>2, <2>4 DEF T
<1>10. r[n] = Done([left |-> left[n], parts |-> vs], rest)
  <2>1. n \in 0..n
    BY <1>2
  <2>2. acc(n) = [left |-> left[n], parts |-> vs]
    BY <1>2 DEF acc
  <2>3. r[n] = Done(acc(n), at(n))
    BY <2>1
  <2> QED
    BY <1>1, <2>2, <2>3
<1> QED
  BY <1>4, <1>9, <1>10 DEF in, n
-----------------------------------------------------------------------------
\* Five elements are a sequence.
LEMMA FiveAre ==
  ASSUME NEW a, NEW b, NEW c, NEW d, NEW e
  PROVE  LET s == <<a, b, c, d, e>> IN
         IsSeq(s) /\ Len(s) = 5 /\ s[1] = a /\ s[2] = b /\ s[3] = c /\ s[4] = d /\ s[5] = e
<1> DEFINE s == <<a, b, c, d, e>>
<1>1. s \in Seq({a, b, c, d, e})
  OBVIOUS
<1>2. IsSeq(s)
  BY <1>1, SeqIs
<1> QED
  BY <1>2

EightIs(s, a, b, c, d, e, f, g, h) ==
    /\ IsSeq(s) /\ Len(s) = 8 /\ s[1] = a /\ s[2] = b /\ s[3] = c /\ s[4] = d
    /\ s[5] = e /\ s[6] = f /\ s[7] = g /\ s[8] = h

\* Eight elements are.
LEMMA EightAre ==
  ASSUME NEW a, NEW b, NEW c, NEW d, NEW e, NEW f, NEW g, NEW h
  PROVE  EightIs(<<a, b, c, d, e, f, g, h>>, a, b, c, d, e, f, g, h)
<1> DEFINE s == <<a, b, c, d, e, f, g, h>>
<1>1. s \in Seq({a, b, c, d, e, f, g, h})
  OBVIOUS
<1>2. IsSeq(s)
  BY <1>1, SeqIs
<1> QED
  BY <1>2 DEF EightIs

\* The header of the message and that of its segment: 31 fields.
Whole(a, b, c, d) == a \o b \o c \o d

IsLong(s, n) == IsSeq(s) /\ Len(s) = n

IsJoined(x, a, m, b, n) ==
    IsLong(x, m + n) /\ (\A i \in 1..m : x[i] = a[i]) /\ \A i \in 1..n : x[m + i] = b[i]

\* Sequences with known lengths are joined.
LEMMA LongJoined ==
  ASSUME NEW a, NEW m, IsLong(a, m), NEW b, NEW n, IsLong(b, n)
  PROVE  IsJoined(a \o b, a, m, b, n)
<1>1. IsSeq(a) /\ IsSeq(b)
  BY DEF IsLong
<1>2. /\ IsSeq(a \o b) /\ Len(a \o b) = Len(a) + Len(b)
      /\ \A i \in 1..Len(a) : (a \o b)[i] = a[i]
      /\ \A i \in 1..Len(b) : (a \o b)[Len(a) + i] = b[i]
  <2>1. AreJoined(a \o b, a, b)
    BY <1>1, ConcatSeq
  <2> QED
    BY <2>1 DEF AreJoined
<1>3. Len(a) = m /\ Len(b) = n
  BY DEF IsLong
<1> QED
  BY <1>2, <1>3 DEF IsLong, IsJoined

\* Four of them are.
LEMMA WholeIs ==
  ASSUME NEW a, IsLong(a, 5), NEW b, IsLong(b, 10), NEW c, IsLong(c, 8), NEW d, IsLong(d, 8)
  PROVE  /\ IsLong(Whole(a, b, c, d), 31)
         /\ \A i \in 1..5 : Whole(a, b, c, d)[i] = a[i]
         /\ \A i \in 1..10 : Whole(a, b, c, d)[5 + i] = b[i]
         /\ \A i \in 1..8 : Whole(a, b, c, d)[15 + i] = c[i]
         /\ \A i \in 1..8 : Whole(a, b, c, d)[23 + i] = d[i]
<1> DEFINE x == a \o b
           y == x \o c
           z == y \o d
<1>1. IsLong(x, 5 + 10) /\ (\A i \in 1..5 : x[i] = a[i]) /\ \A i \in 1..10 : x[5 + i] = b[i]
  <2> DEFINE m == 5
             n == 10
  <2>1. IsLong(a, m) /\ IsLong(b, n)
    OBVIOUS
  <2> HIDE DEF m, n
  <2>2. IsJoined(a \o b, a, m, b, n)
    BY <2>1, LongJoined
  <2> QED
    BY <2>2 DEF m, n, IsJoined
<1>2. IsLong(x, 15)
  <2> HIDE DEF x
  <2> QED
    BY <1>1
<1> HIDE DEF x
<1>3. IsLong(y, 15 + 8) /\ (\A i \in 1..15 : y[i] = x[i]) /\ \A i \in 1..8 : y[15 + i] = c[i]
  <2> DEFINE m == 15
             n == 8
  <2>1. IsLong(x, m) /\ IsLong(c, n)
    BY <1>2
  <2> HIDE DEF m, n
  <2>2. IsJoined(x \o c, x, m, c, n)
    BY <2>1, LongJoined
  <2> QED
    BY <2>2 DEF m, n, IsJoined
<1>4. IsLong(y, 23)
  <2> HIDE DEF y
  <2> QED
    BY <1>3
<1> HIDE DEF y
<1>5. IsLong(z, 23 + 8) /\ (\A i \in 1..23 : z[i] = y[i]) /\ \A i \in 1..8 : z[23 + i] = d[i]
  <2> DEFINE m == 23
             n == 8
  <2>1. IsLong(y, m) /\ IsLong(d, n)
    BY <1>4
  <2> HIDE DEF m, n
  <2>2. IsJoined(y \o d, y, m, d, n)
    BY <2>1, LongJoined
  <2> QED
    BY <2>2 DEF m, n, IsJoined
<1>6. IsLong(z, 31)
  <2> HIDE DEF z
  <2> QED
    BY <1>5
<1> HIDE DEF z
<1>7. z = Whole(a, b, c, d)
  BY DEF z, y, x, Whole
<1>8. \A i \in 1..5 : z[i] = a[i]
  BY <1>1, <1>3, <1>5
<1>9. \A i \in 1..10 : z[5 + i] = b[i]
  <2> TAKE i \in 1..10
  <2>1. 5 + i \in 1..15
    OBVIOUS
  <2>2. 5 + i \in 1..23
    OBVIOUS
  <2> QED
    BY <2>1, <2>2, <1>1, <1>3, <1>5
<1>10. \A i \in 1..8 : z[15 + i] = c[i]
  <2> TAKE i \in 1..8
  <2>1. 15 + i \in 1..23
    OBVIOUS
  <2> QED
    BY <2>1, <1>3, <1>5
<1> QED
  BY <1>5, <1>6, <1>7, <1>8, <1>9, <1>10

\* The fillers of the headers.
LEMMA OnesAre ==
  ASSUME NEW n \in Nat
  PROVE  /\ Widths(Bytes1(n)) /\ Len(Bytes1(n)) = n /\ IsSeq(Zeros(n)) /\ Len(Zeros(n)) = n
         /\ Bytes1(n) = Ones(n)
<1> DEFINE s == Bytes1(n)
           t == Zeros(n)
<1>1. s \in [1..n -> {1}] /\ t \in [1..n -> {0}]
  BY DEF Bytes1, Zeros
<1>2. s = Ones(n)
  BY DEF Bytes1, Ones
<1> HIDE DEF s, t
<1>3. IsSeq(s) /\ Len(s) = n /\ IsSeq(t) /\ Len(t) = n
  BY <1>1, FunctionIs
<1>4. Widths(s)
  BY <1>1, <1>3 DEF Widths
<1> QED
  BY <1>2, <1>3, <1>4 DEF s, t

FirstWidths == <<8, 4, 4, 4, 2>>
LaterWidths == <<4, 4, 2, 2, 1, 1, 1, 1>>
RequestWidths == Whole(FirstWidths, Ones(10), LaterWidths, Ones(8))

\* The headers of a request have 31 fields.
LEMMA RequestWidthsAre == Widths(RequestWidths) /\ Len(RequestWidths) = 31
<1> DEFINE a == FirstWidths
           b == Ones(10)
           c == LaterWidths
           d == Ones(8)
           s == RequestWidths
<1>1. IsSeq(a) /\ Len(a) = 5 /\ \A i \in 1..5 : a[i] \in Nat \ {0}
  <2>1. IsSeq(a) /\ Len(a) = 5 /\ a[1] = 8 /\ a[2] = 4 /\ a[3] = 4 /\ a[4] = 4 /\ a[5] = 2
    BY FiveAre DEF FirstWidths
  <2> HIDE DEF a
  <2>2. \A i \in 1..5 : a[i] \in Nat \ {0}
    <3> TAKE i \in 1..5
    <3>1. i = 1 \/ i = 2 \/ i = 3 \/ i = 4 \/ i = 5
      OBVIOUS
    <3> QED
      BY <2>1, <3>1
  <2> QED
    BY <2>1, <2>2
<1>2. IsSeq(c) /\ Len(c) = 8 /\ \A i \in 1..8 : c[i] \in Nat \ {0}
  <2>1. EightIs(c, 4, 4, 2, 2, 1, 1, 1, 1)
    BY EightAre DEF LaterWidths
  <2> HIDE DEF c
  <2>2. \A i \in 1..8 : c[i] \in Nat \ {0}
    <3> TAKE i \in 1..8
    <3>1. i = 1 \/ i = 2 \/ i = 3 \/ i = 4 \/ i = 5 \/ i = 6 \/ i = 7 \/ i = 8
      OBVIOUS
    <3> QED
      BY <2>1, <3>1 DEF EightIs
  <2> QED
    BY <2>1, <2>2 DEF EightIs
<1>3. IsSeq(b) /\ Len(b) = 10 /\ \A i \in 1..10 : b[i] \in Nat \ {0}
  BY OnesAre DEF Widths
<1>4. IsSeq(d) /\ Len(d) = 8 /\ \A i \in 1..8 : d[i] \in Nat \ {0}
  BY OnesAre DEF Widths
<1>5. s = Whole(a, b, c, d)
  BY DEF RequestWidths
<1> HIDE DEF a, b, c, d, s
<1>6. /\ IsLong(Whole(a, b, c, d), 31)
      /\ \A i \in 1..5 : Whole(a, b, c, d)[i] = a[i]
      /\ \A i \in 1..10 : Whole(a, b, c, d)[5 + i] = b[i]
      /\ \A i \in 1..8 : Whole(a, b, c, d)[15 + i] = c[i]
      /\ \A i \in 1..8 : Whole(a, b, c, d)[23 + i] = d[i]
  <2>1. IsLong(a, 5) /\ IsLong(b, 10) /\ IsLong(c, 8) /\ IsLong(d, 8)
    BY <1>1, <1>2, <1>3, <1>4 DEF IsLong
  <2> QED
    BY <2>1, WholeIs
<1>7. \A i \in 1..31 : s[i] \in Nat \ {0}
  <2> TAKE i \in 1..31
  <2>1. CASE i \in 1..5
    BY <1>1, <1>5, <1>6, <2>1
  <2>2. CASE i \in 6..15
    <3>1. i - 5 \in 1..10 /\ i = 5 + (i - 5)
      BY <2>2
    <3> QED
      BY <1>3, <1>5, <1>6, <3>1
  <2>3. CASE i \in 16..23
    <3>1. i - 15 \in 1..8 /\ i = 15 + (i - 15)
      BY <2>3
    <3> QED
      BY <1>2, <1>5, <1>6, <3>1
  <2>4. CASE i \in 24..31
    <3>1. i - 23 \in 1..8 /\ i = 23 + (i - 23)
      BY <2>4
    <3> QED
      BY <1>4, <1>5, <1>6, <3>1
  <2> QED
    BY <2>1, <2>2, <2>3, <2>4
<1> QED
  BY <1>5, <1>6, <1>7 DEF s, Widths, IsLong

\* What the two headers say.
AreHeaders(vs, seq, size, parts, type, commit) ==
    /\ IsSeq(vs) /\ Len(vs) = 31 /\ vs[2] = seq /\ vs[3] = size /\ vs[16] = size
    /\ vs[18] = parts /\ vs[21] = type /\ vs[22] = commit

\* What the headers of a request say.
LEMMA HeadersAre ==
  ASSUME NEW request, NEW session, NEW seq, NEW size
  PROVE  \E vs : /\ Headers(request, session, seq, TRUE, size) = PutAll(RequestWidths, vs)
                 /\ AreHeaders(vs, seq, size, Len(request.parts), RequestType[request.type], 1)
<1> DEFINE n == Len(request.parts)
           type == RequestType[request.type]
           options == request.options
           a == <<session, seq, size, size, 1>>
           b == Zeros(10)
           c == <<size, 0, n, 1, 1, type, 1, options>>
           d == Zeros(8)
           vs == Whole(a, b, c, d)
<1>1. Headers(request, session, seq, TRUE, size) = PutAll(RequestWidths, vs)
  <2>1. RequestWidths = FirstWidths \o Bytes1(10) \o LaterWidths \o Bytes1(8)
    <3>1. Bytes1(10) = Ones(10) /\ Bytes1(8) = Ones(8)
      BY OnesAre
    <3> QED
      BY <3>1 DEF RequestWidths, Whole
  <2>2. Headers(request, session, seq, TRUE, size) =
           PutAll(FirstWidths \o Bytes1(10) \o LaterWidths \o Bytes1(8), vs)
    BY DEF Headers, FirstWidths, LaterWidths, Whole
  <2> HIDE DEF vs
  <2> QED
    BY <2>1, <2>2
<1> HIDE DEF n, type, options
<1>2. IsSeq(a) /\ Len(a) = 5 /\ a[2] = seq /\ a[3] = size
  BY FiveAre
<1>3. EightIs(c, size, 0, n, 1, 1, type, 1, options)
  BY EightAre
<1>4. IsSeq(b) /\ Len(b) = 10 /\ IsSeq(d) /\ Len(d) = 8
  BY OnesAre
<1>5. IsSeq(c) /\ Len(c) = 8 /\ c[1] = size /\ c[3] = n /\ c[6] = type /\ c[7] = 1
  <2> HIDE DEF c
  <2> QED
    BY <1>3 DEF EightIs
<1> HIDE DEF a, b, c, d
<1>6. /\ IsSeq(vs) /\ Len(vs) = 31 /\ \A i \in 1..5 : vs[i] = a[i]
      /\ \A i \in 1..8 : vs[15 + i] = c[i]
  <2>1. IsLong(a, 5) /\ IsLong(b, 10) /\ IsLong(c, 8) /\ IsLong(d, 8)
    BY <1>2, <1>4, <1>5 DEF IsLong
  <2>2. /\ IsLong(vs, 31) /\ \A i \in 1..5 : vs[i] = a[i]
        /\ \A i \in 1..8 : vs[15 + i] = c[i]
    BY <2>1, WholeIs
  <2> QED
    BY <2>2 DEF IsLong
<1> HIDE DEF vs
<1>7. vs[2] = seq /\ vs[3] = size
  BY <1>2, <1>6
<1>8. vs[16] = size /\ vs[18] = n /\ vs[21] = type /\ vs[22] = 1
  <2>1. vs[15 + 1] = c[1] /\ vs[15 + 3] = c[3] /\ vs[15 + 6] = c[6] /\ vs[15 + 7] = c[7]
    BY <1>6
  <2> QED
    BY <1>5, <2>1
<1> QED
  BY <1>1, <1>6, <1>7, <1>8 DEF AreHeaders, n, type
-----------------------------------------------------------------------------
Understanding(h, took) == [seq |-> h[2], type |-> h[21], commit |-> h[22], parts |-> took.parts]
AfterAll(h, took, over, rest) ==
    IF over # <<>> \/ took.left # 0 THEN Fail(Lost) ELSE Done(Understanding(h, took), rest)
AfterMessage(columns, h, message, rest) ==
    LET p == TakeParts(columns, h[18], h[3] - 24, message) IN
    IF p.ok THEN AfterAll(h, p.v, p.in, rest) ELSE p
AfterSegment(columns, h, s) ==
    LET b == Cut(h[3] - 24, s) IN IF b.ok THEN AfterMessage(columns, h, b.v, b.in) ELSE b

\* With the headers, the database goes on to the message.
LEMMA AfterSegmentIs ==
  ASSUME NEW columns, NEW in, NEW h, NEW s, Rd(RequestWidths, in) = Done(h, s), h[16] = h[3]
  PROVE  TakeRequest(columns, in) = AfterSegment(columns, h, s)
<1> DEFINE a == Rd(RequestWidths, in)
<1>1. a.ok /\ a.v = h /\ a.in = s
  BY DEF Done
<1>2. TakeRequest(columns, in) =
        IF a.ok THEN IF a.v[16] # a.v[3] THEN Fail(Lost) ELSE AfterSegment(columns, a.v, a.in)
        ELSE a
  BY DEF TakeRequest, Then, RequestWidths, Whole, FirstWidths, LaterWidths, AfterSegment, AfterMessage,
         AfterAll, Understanding
<1> HIDE DEF a
<1> QED
  BY <1>1, <1>2

\* With the message, it goes on to the parts.
LEMMA AfterMessageIs ==
  ASSUME NEW columns, NEW h, NEW s, NEW message, NEW rest, Cut(h[3] - 24, s) = Done(message, rest)
  PROVE  AfterSegment(columns, h, s) = AfterMessage(columns, h, message, rest)
<1> DEFINE b == Cut(h[3] - 24, s)
<1>1. b.ok /\ b.v = message /\ b.in = rest
  BY DEF Done
<1>2. AfterSegment(columns, h, s) = IF b.ok THEN AfterMessage(columns, h, b.v, b.in) ELSE b
  BY DEF AfterSegment
<1> HIDE DEF b
<1> QED
  BY <1>1, <1>2

\* When nothing is left, the request is taken.
LEMMA AfterAllIs ==
  ASSUME NEW columns, NEW h, NEW message, NEW rest, NEW took,
         TakeParts(columns, h[18], h[3] - 24, message) = Done(took, <<>>), took.left = 0
  PROVE  AfterMessage(columns, h, message, rest) = Done(Understanding(h, took), rest)
<1> DEFINE p == TakeParts(columns, h[18], h[3] - 24, message)
<1>1. p.ok /\ p.v = took /\ p.in = <<>>
  BY DEF Done
<1>2. AfterMessage(columns, h, message, rest) = IF p.ok THEN AfterAll(h, p.v, p.in, rest) ELSE p
  BY DEF AfterMessage
<1> HIDE DEF p
<1>3. AfterMessage(columns, h, message, rest) = AfterAll(h, took, <<>>, rest)
  BY <1>1, <1>2
<1> QED
  BY <1>3 DEF AfterAll

\* A request that can be sent, and whose parts have the sizes that are written.
RequestFits(r, ds) == IsSeq(r.parts) /\ \A i \in 1..Len(r.parts) : PartFits(r.parts[i], ds)

\* The sizes of a request that fits can be computed.
LEMMA SizesFit ==
  ASSUME NEW r, NEW ds, RequestFits(r, ds)
  PROVE  SizesAreOk(r, ds)
<1> SUFFICES ASSUME NEW i \in DOMAIN r.parts PROVE BodySizeIsOk(r.parts[i], ds)
  BY DEF SizesAreOk
<1> DEFINE part == r.parts[i]
<1>1. PartFits(part, ds)
  <2>1. i \in 1..Len(r.parts)
    <3>1. IsSeq(r.parts)
      BY DEF RequestFits
    <3> QED
      BY <3>1, SeqFacts
  <2> QED
    BY <2>1 DEF RequestFits
<1> HIDE DEF part
<1>2. ASSUME part.kind = "Parameters", NEW k \in DOMAIN part.rows PROVE RowSizeIsOk(part.rows[k], ds)
  <2> DEFINE row == part.rows[k]
             ins == IterIn(ds)
  <2>1. IsSeq(part.rows) /\ \A j \in 1..Len(part.rows) : SendsRow(part.rows[j], ins)
    BY <1>1, <1>2 DEF PartFits
  <2>2. DOMAIN part.rows = 1..Len(part.rows)
    BY <2>1, SeqFacts
  <2>3. SendsRow(row, ins)
    BY <2>1, <2>2
  <2> HIDE DEF row
  <2>4. IsSeq(row) /\ \A j \in 1..Len(row) : Sends(row[j], ins[j])
    BY <2>3 DEF SendsRow
  <2>5. DOMAIN row = 1..Len(row)
    BY <2>4, SeqFacts
  <2>6. \A j \in DOMAIN row : SizeIsOk(row[j], ins[j].type)
    BY <2>4, <2>5 DEF Sends
  <2> QED
    BY <2>6 DEF RowSizeIsOk, row
<1> QED
  BY <1>2 DEF BodySizeIsOk, part

\* The sizes of the first parts.
PartSizes(r, ds, n) == [k \in 1..n |-> PartSize(r.parts[k], ds)]

\* The bytes that are left for the parts from the i-th on, which its header says.
LEMMA RemainingIs ==
  ASSUME NEW r, NEW ds, IsSeq(r.parts), \A i \in 1..Len(r.parts) : PartSize(r.parts[i], ds) \in Nat
  PROVE  LET n == Len(r.parts) IN
         /\ \A i \in 1..n : Remaining(r, ds, i + 1) = Remaining(r, ds, i) - PartSize(r.parts[i], ds)
         /\ \A i \in 1..(n + 1) : Remaining(r, ds, i) \in Int
         /\ Remaining(r, ds, 1) = Total(PartSizes(r, ds, n)) /\ Remaining(r, ds, n + 1) = 0
         /\ SegmentSize(r, ds) - 24 = Total(PartSizes(r, ds, n))
<1> DEFINE n == Len(r.parts)
           size(k) == PartSize(r.parts[k], ds)
           W(i) == PartSizes(r, ds, i)
<1>1. n \in Nat /\ DOMAIN r.parts = 1..n
  BY SeqFacts
<1>2. \A i \in 1..n : size(i) \in Nat
  OBVIOUS
<1> HIDE DEF n
<1>3. ASSUME NEW i \in 0..n
      PROVE  Numbers(W(i)) /\ Len(W(i)) = i /\ \A k \in 1..i : W(i)[k] = size(k)
  <2> DEFINE s == W(i)
  <2>0. i \in Nat
    BY <1>1
  <2>1. s \in [1..i -> Nat] /\ \A k \in 1..i : s[k] = size(k)
    <3>1. s = [k \in 1..i |-> size(k)]
      BY DEF PartSizes
    <3> HIDE DEF s
    <3>2. \A k \in 1..i : size(k) \in Nat
      BY <1>1, <1>2
    <3> HIDE DEF size
    <3> QED
      BY <3>1, <3>2
  <2> HIDE DEF s
  <2>2. IsSeq(s) /\ Len(s) = i
    BY <2>0, <2>1, FunctionIs
  <2> HIDE DEF size
  <2> QED
    BY <2>1, <2>2 DEF Numbers, s
<1>4. \A i \in 0..n : Total(W(i)) \in Nat
  <2> TAKE i \in 0..n
  <2>1. Numbers(W(i))
    BY <1>3
  <2> HIDE DEF W
  <2> QED
    BY <2>1, TotalNat
<1>5. \A i \in 1..n : Total(W(i)) = Total(W(i - 1)) + size(i)
  <2> TAKE i \in 1..n
  <2> DEFINE s == W(i - 1)
             t == W(i)
  <2>0. i \in Nat /\ i - 1 \in 0..n /\ i \in 0..n /\ i - 1 \in Nat
    BY <1>1
  <2>1. Numbers(s) /\ Len(s) = i - 1 /\ \A k \in 1..(i - 1) : s[k] = size(k)
    BY <1>3, <2>0
  <2>2. Numbers(t) /\ Len(t) = i /\ \A k \in 1..i : t[k] = size(k)
    BY <1>3, <2>0
  <2> HIDE DEF s, t, size
  <2>3. Len(t) = Len(s) + 1 /\ \A k \in 1..Len(s) : t[k] = s[k]
    BY <2>0, <2>1, <2>2
  <2>4. Numbers(s) /\ Numbers(t)
    BY <2>1, <2>2
  <2>5. Total(t) = Total(s) + t[Len(t)]
    BY <2>3, <2>4, TotalMore
  <2>6. t[Len(t)] = size(i)
    BY <2>0, <2>2
  <2> QED
    BY <2>5, <2>6 DEF s, t
<1>6. Total(W(0)) = 0
  <2> DEFINE s == W(0)
  <2>1. Numbers(s) /\ Len(s) = 0
    BY <1>1, <1>3
  <2> HIDE DEF s
  <2>2. s = <<>>
    BY <2>1, SeqFacts DEF Numbers
  <2> QED
    BY <2>2, TotalEmpty DEF s
<1>7. SegmentSize(r, ds) = 24 + Total(W(n))
  BY <1>1 DEF SegmentSize, Sum, PartSizes
<1>8. \A i : Remaining(r, ds, i) = SegmentSize(r, ds) - 24 - Total(W(i - 1))
  BY DEF Remaining, PartSizes
<1> HIDE DEF W, size
<1>9. \A i \in 1..(n + 1) : Remaining(r, ds, i) = Total(W(n)) - Total(W(i - 1))
  <2> TAKE i \in 1..(n + 1)
  <2>1. n \in 0..n /\ i - 1 \in 0..n
    BY <1>1
  <2>2. Total(W(n)) \in Nat /\ Total(W(i - 1)) \in Nat
    BY <1>4, <2>1
  <2> QED
    BY <1>7, <1>8, <2>2
<1>10. \A i \in 1..n : Remaining(r, ds, i + 1) = Remaining(r, ds, i) - size(i)
  <2> TAKE i \in 1..n
  <2>1. i + 1 \in 1..(n + 1) /\ i \in 1..(n + 1) /\ (i + 1) - 1 = i /\ n \in 0..n /\ i - 1 \in 0..n /\ i \in 0..n
    BY <1>1
  <2>2. Remaining(r, ds, i + 1) = Total(W(n)) - Total(W(i)) /\ Remaining(r, ds, i) = Total(W(n)) - Total(W(i - 1))
    BY <1>9, <2>1
  <2>3. Total(W(n)) \in Nat /\ Total(W(i)) \in Nat /\ Total(W(i - 1)) \in Nat
    BY <1>4, <2>1
  <2>4. size(i) \in Nat /\ Total(W(i)) = Total(W(i - 1)) + size(i)
    BY <1>2, <1>5
  <2> QED
    BY <2>2, <2>3, <2>4
<1>11. \A i \in 1..(n + 1) : Remaining(r, ds, i) \in Int
  <2> TAKE i \in 1..(n + 1)
  <2>1. n \in 0..n /\ i - 1 \in 0..n
    BY <1>1
  <2>2. Total(W(n)) \in Nat /\ Total(W(i - 1)) \in Nat
    BY <1>4, <2>1
  <2> QED
    BY <1>9, <2>2
<1>12. Remaining(r, ds, 1) = Total(W(n)) /\ Remaining(r, ds, n + 1) = 0
  <2>1. 1 \in 1..(n + 1) /\ n + 1 \in 1..(n + 1) /\ (n + 1) - 1 = n /\ n \in 0..n
    BY <1>1
  <2>2. Total(W(n)) \in Nat
    BY <1>4, <2>1
  <2>3. Remaining(r, ds, 1) = Total(W(n)) - Total(W(1 - 1))
    BY <1>9, <2>1
  <2>4. Remaining(r, ds, n + 1) = Total(W(n)) - Total(W(n))
    BY <1>9, <2>1
  <2> QED
    BY <1>6, <2>2, <2>3, <2>4
<1>13. SegmentSize(r, ds) - 24 = Total(W(n))
  <2>1. n \in 0..n
    BY <1>1
  <2>2. Total(W(n)) \in Nat
    BY <1>4, <2>1
  <2> QED
    BY <1>7, <2>2
<1> QED
  BY <1>10, <1>11, <1>12, <1>13 DEF n, W, size
-----------------------------------------------------------------------------
PartGoes(part, left, ds, p, v) ==
    /\ EmitPart(part, left, ds) = Done(<<>>, p)
    /\ IsPartAs(IterIn(ds), left, BodySize(part, ds), p, v)
    /\ Width(p) = PartSize(part, ds)
    /\ v.kind = PartKind[part.kind] /\ Understood(part, v.is, ds)

\* A part that fits goes through.
LEMMA SomePartGoes ==
  ASSUME NEW part, NEW ds, PartFits(part, ds), NEW left \in Int
  PROVE  /\ \E p, v : PartGoes(part, left, ds, p, v)
         /\ PartSize(part, ds) \in Nat
         /\ PartSize(part, ds) = 16 + BodySize(part, ds) + PadSize(BodySize(part, ds))
<1>1. PICK p, is : /\ EmitPart(part, left, ds) = Done(<<>>, p)
                   /\ IsPartAs(IterIn(ds), left, BodySize(part, ds), p, [kind |-> PartKind[part.kind], is |-> is])
                   /\ Width(p) = PartSize(part, ds) /\ PartSize(part, ds) \in Nat
                   /\ PartSize(part, ds) = 16 + BodySize(part, ds) + PadSize(BodySize(part, ds))
                   /\ Understood(part, is, ds)
  BY PartIsTaken
<1> DEFINE v == [kind |-> PartKind[part.kind], is |-> is]
<1>2. v.kind = PartKind[part.kind] /\ v.is = is
  OBVIOUS
<1>3. IsPartAs(IterIn(ds), left, BodySize(part, ds), p, v)
  BY <1>1
<1> HIDE DEF v
<1>4. PartGoes(part, left, ds, p, v)
  BY <1>1, <1>2, <1>3 DEF PartGoes
<1> QED
  BY <1>1, <1>4

\* The parts a request is written as, and what they are taken as.
Pieces(r, ds) ==
    [i \in 1..Len(r.parts) |-> CHOOSE p : \E v : PartGoes(r.parts[i], Remaining(r, ds, i), ds, p, v)]
Things(r, ds) ==
    [i \in 1..Len(r.parts) |->
        CHOOSE v : PartGoes(r.parts[i], Remaining(r, ds, i), ds, Pieces(r, ds)[i], v)]

\* The parts of a request go through.
LEMMA PiecesGo ==
  ASSUME NEW r, NEW ds, RequestFits(r, ds)
  PROVE  LET n == Len(r.parts) IN
         /\ IsStreams(Pieces(r, ds)) /\ Len(Pieces(r, ds)) = n
         /\ IsSeq(Things(r, ds)) /\ Len(Things(r, ds)) = n
         /\ \A i \in 1..n : /\ PartGoes(r.parts[i], Remaining(r, ds, i), ds, Pieces(r, ds)[i], Things(r, ds)[i])
                            /\ PartSize(r.parts[i], ds) \in Nat
                            /\ PartSize(r.parts[i], ds) =
                                   16 + BodySize(r.parts[i], ds) + PadSize(BodySize(r.parts[i], ds))
<1> DEFINE n == Len(r.parts)
           part(i) == r.parts[i]
           ss == Pieces(r, ds)
           vs == Things(r, ds)
           left(i) == Remaining(r, ds, i)
<1>1. IsSeq(r.parts) /\ n \in Nat /\ \A i \in 1..n : PartFits(part(i), ds)
  <2>1. IsSeq(r.parts) /\ \A i \in 1..Len(r.parts) : PartFits(r.parts[i], ds)
    BY DEF RequestFits
  <2>2. Len(r.parts) \in Nat
    BY <2>1, SeqFacts
  <2> QED
    BY <2>1, <2>2
<1>2. ASSUME NEW i \in 1..n
      PROVE  /\ PartSize(part(i), ds) \in Nat
             /\ PartSize(part(i), ds) = 16 + BodySize(part(i), ds) + PadSize(BodySize(part(i), ds))
  <2> DEFINE x == part(i)
             zero == 0
  <2>1. PartFits(x, ds) /\ zero \in Int
    BY <1>1
  <2> HIDE DEF x, zero
  <2>2. PartSize(x, ds) \in Nat /\ PartSize(x, ds) = 16 + BodySize(x, ds) + PadSize(BodySize(x, ds))
    BY <2>1, SomePartGoes
  <2> QED
    BY <2>2 DEF x
<1>3. \A i \in 1..n : left(i) \in Int
  <2>1. \A i \in 1..Len(r.parts) : PartSize(r.parts[i], ds) \in Nat
    BY <1>2
  <2>2. \A i \in 1..(Len(r.parts) + 1) : Remaining(r, ds, i) \in Int
    BY <1>1, <2>1, RemainingIs
  <2> HIDE DEF left
  <2>3. \A i \in 1..n : i \in 1..(Len(r.parts) + 1)
    BY <1>1
  <2> QED
    BY <2>2, <2>3 DEF left
<1>4. ASSUME NEW i \in 1..n PROVE PartGoes(part(i), left(i), ds, ss[i], vs[i])
  <2> DEFINE x == part(i)
             y == left(i)
  <2>1. PartFits(x, ds) /\ y \in Int
    BY <1>1, <1>3
  <2>2. ss[i] = CHOOSE p : \E v : PartGoes(x, y, ds, p, v)
    BY DEF Pieces
  <2>3. vs[i] = CHOOSE v : PartGoes(x, y, ds, ss[i], v)
    BY DEF Things
  <2> HIDE DEF x, y, ss, vs
  <2>4. \E p, v : PartGoes(x, y, ds, p, v)
    BY <2>1, SomePartGoes
  <2>5. \E v : PartGoes(x, y, ds, ss[i], v)
    BY <2>2, <2>4, Zenon
  <2>6. PartGoes(x, y, ds, ss[i], vs[i])
    BY <2>3, <2>5, Zenon
  <2> QED
    BY <2>6 DEF x, y
<1>5. ss \in [1..n -> {ss[i] : i \in 1..n}] /\ vs \in [1..n -> {vs[i] : i \in 1..n}]
  <2>1. ss = [i \in 1..n |-> ss[i]]
    <3> DEFINE f(i) == CHOOSE p : \E v : PartGoes(r.parts[i], Remaining(r, ds, i), ds, p, v)
    <3>1. ss = [i \in 1..n |-> f(i)]
      BY DEF Pieces
    <3> HIDE DEF f, ss, n
    <3> QED
      BY <3>1
  <2>2. vs = [i \in 1..n |-> vs[i]]
    <3> DEFINE f(i) == CHOOSE v : PartGoes(r.parts[i], Remaining(r, ds, i), ds, Pieces(r, ds)[i], v)
    <3>1. vs = [i \in 1..n |-> f(i)]
      BY DEF Things
    <3> HIDE DEF f, vs, n
    <3> QED
      BY <3>1
  <2> HIDE DEF ss, vs, n
  <2> QED
    BY <2>1, <2>2
<1> HIDE DEF ss, vs
<1>6. IsSeq(ss) /\ Len(ss) = n
  <2> HIDE DEF n
  <2> QED
    BY <1>1, <1>5, FunctionIs
<1>7. IsSeq(vs) /\ Len(vs) = n
  <2> HIDE DEF n
  <2> QED
    BY <1>1, <1>5, FunctionIs
<1>8. ASSUME NEW i \in 1..n PROVE IsStream(ss[i])
  <2> HIDE DEF part, left
  <2> QED
    BY <1>4 DEF PartGoes, IsPartAs
<1>9. IsStreams(ss)
  BY <1>6, <1>8 DEF IsStreams
<1> QED
  BY <1>2, <1>4, <1>6, <1>7, <1>9 DEF ss, vs

\* Parts that go through are taken to the last byte.
LEMMA AllPartsAreTaken ==
  ASSUME NEW columns, NEW left, NEW sizes, NEW ss, NEW vs, ArePartsAs(columns, left, sizes, ss, vs)
  PROVE  TakeParts(columns, Len(vs), left[0], Flat(ss)) = Done([left |-> left[Len(vs)], parts |-> vs], <<>>)
<1> DEFINE none == <<>>
           message == Flat(ss)
<1>1. IsStream(none)
  BY StreamNothing
<1>2. message \o none = message
  <2>1. IsSeq(message)
    <3>1. IsStreams(ss)
      BY DEF ArePartsAs
    <3>2. IsStream(message)
      BY <1>1, <3>1, LeftIs
    <3> QED
      BY <3>2 DEF IsStream
  <2> QED
    BY <2>1, NothingJoined
<1> HIDE DEF none
<1>6. TakeParts(columns, Len(vs), left[0], Flat(ss) \o none) = Done([left |-> left[Len(vs)], parts |-> vs], none)
  BY <1>1, PartsAreTaken
<1> QED
  BY <1>2, <1>6 DEF none

\* The message of a request is taken to the last byte, with the size in the headers.
LEMMA MessageIsTaken ==
  ASSUME NEW r, NEW ds, RequestFits(r, ds)
  PROVE  LET n == Len(r.parts)
             message == Flat(Pieces(r, ds))
         IN  /\ TakeParts(IterIn(ds), n, SegmentSize(r, ds) - 24, message)
                   = Done([left |-> 0, parts |-> Things(r, ds)], <<>>)
             /\ IsStream(message) /\ Width(message) = SegmentSize(r, ds) - 24
             /\ WriteEach([i \in DOMAIN r.parts |-> EmitPart(r.parts[i], Remaining(r, ds, i), ds)])
                   = Done(<<>>, message)
<1> DEFINE n == Len(r.parts)
           part(i) == r.parts[i]
           ss == Pieces(r, ds)
           vs == Things(r, ds)
           size(i) == PartSize(part(i), ds)
           sizes == [i \in 1..n |-> BodySize(part(i), ds)]
           left == [i \in 0..n |-> Remaining(r, ds, i + 1)]
           columns == IterIn(ds)
<1>1. /\ IsStreams(ss) /\ Len(ss) = n /\ IsSeq(vs) /\ Len(vs) = n
      /\ \A i \in 1..n : /\ PartGoes(part(i), Remaining(r, ds, i), ds, ss[i], vs[i])
                         /\ size(i) \in Nat
                         /\ size(i) = 16 + BodySize(part(i), ds) + PadSize(BodySize(part(i), ds))
  BY PiecesGo
<1>2. IsSeq(r.parts) /\ n \in Nat /\ DOMAIN r.parts = 1..n
  <2>1. IsSeq(r.parts)
    BY DEF RequestFits
  <2> QED
    BY <2>1, SeqFacts
<1> HIDE DEF ss, vs
<1>3. /\ \A i \in 1..n : Remaining(r, ds, i + 1) = Remaining(r, ds, i) - size(i)
      /\ Remaining(r, ds, 1) = Total(PartSizes(r, ds, n)) /\ Remaining(r, ds, n + 1) = 0
      /\ SegmentSize(r, ds) - 24 = Total(PartSizes(r, ds, n))
      /\ \A i \in 1..(n + 1) : Remaining(r, ds, i) \in Int
  <2>1. \A i \in 1..Len(r.parts) : PartSize(r.parts[i], ds) \in Nat
    BY <1>1
  <2> QED
    BY <1>2, <2>1, RemainingIs
<1>4. /\ \A i \in 1..n : left[i - 1] = Remaining(r, ds, i) /\ left[i] = Remaining(r, ds, i + 1)
      /\ left[0] = Remaining(r, ds, 1) /\ left[n] = Remaining(r, ds, n + 1)
  <2>0. n \in 0..n /\ 0 \in 0..n
    BY <1>2
  <2>1. left[0] = Remaining(r, ds, 1) /\ left[n] = Remaining(r, ds, n + 1)
    BY <2>0
  <2>2. ASSUME NEW i \in 1..n PROVE left[i - 1] = Remaining(r, ds, i) /\ left[i] = Remaining(r, ds, i + 1)
    <3>1. i - 1 \in 0..n /\ i \in 0..n /\ (i - 1) + 1 = i
      BY <1>2
    <3> QED
      BY <3>1
  <2> QED
    BY <2>1, <2>2
<1>5. \A i \in 1..n : sizes[i] = BodySize(part(i), ds)
  OBVIOUS
<1> HIDE DEF left, sizes, n, columns
<1>6. ASSUME NEW i \in 1..n
      PROVE  left[i] = left[i - 1] - 16 - sizes[i] - PadSize(sizes[i])
  <2> DEFINE b == BodySize(part(i), ds)
             q == PadSize(b)
             a == Remaining(r, ds, i)
             z == size(i)
  <2>1. z \in Nat /\ z = 16 + b + q
    BY <1>1
  <2>2. left[i] = a - z /\ left[i - 1] = a /\ sizes[i] = b
    BY <1>3, <1>4, <1>5
  <2>3. a \in Int
    <3>1. i \in 1..(n + 1)
      BY <1>2
    <3> QED
      BY <3>1, <1>3
  <2>4. b \in Nat /\ q \in Nat
    <3>1. IsPartAs(IterIn(ds), Remaining(r, ds, i), b, ss[i], vs[i])
      BY <1>1 DEF PartGoes
    <3>2. PartFits(part(i), ds)
      BY DEF RequestFits, n
    <3>3. PICK body, is : IsBody(part(i), ds, body, is)
      <4> DEFINE x == part(i)
      <4>1. PartFits(x, ds)
        BY <3>2
      <4> HIDE DEF x
      <4>2. \E body, is : IsBody(x, ds, body, is)
        BY <4>1, BodyIsTaken
      <4> QED
        BY <4>2 DEF x
    <3> HIDE DEF part
    <3>4. b \in Nat
      <4>1. IsStream(body) /\ Width(body) = b
        BY <3>3 DEF IsBody
      <4> QED
        BY <4>1, WidthNat
    <3> HIDE DEF b
    <3> QED
      BY <3>4, PadSizeIs
  <2>5. PadSize(sizes[i]) = q
    BY <2>2
  <2> HIDE DEF a, b, q, z
  <2> QED
    BY <2>1, <2>2, <2>3, <2>4, <2>5
<1>7. ASSUME NEW i \in 1..n PROVE IsPartAs(columns, left[i - 1], sizes[i], ss[i], vs[i])
  <2>1. PartGoes(part(i), Remaining(r, ds, i), ds, ss[i], vs[i])
    BY <1>1
  <2> QED
    BY <2>1, <1>4, <1>5 DEF PartGoes, columns
<1> DEFINE message == Flat(ss)
<1>8. TakeParts(columns, n, left[0], message) = Done([left |-> left[n], parts |-> vs], <<>>)
  <2>1. IsSeq(vs) /\ IsStreams(ss) /\ Len(ss) = Len(vs) /\ Len(vs) = n
    BY <1>1
  <2>2. ArePartsAs(columns, left, sizes, ss, vs)
    BY <2>1, <1>6, <1>7 DEF ArePartsAs
  <2>3. TakeParts(columns, Len(vs), left[0], Flat(ss)) = Done([left |-> left[Len(vs)], parts |-> vs], <<>>)
    BY <2>2, AllPartsAreTaken
  <2> QED
    BY <2>1, <2>3
<1>9. IsStream(message) /\ Width(message) = SegmentSize(r, ds) - 24
  <2> DEFINE ws == PartSizes(r, ds, n)
  <2>1. ws \in [1..n -> Nat] /\ \A i \in 1..n : ws[i] = size(i)
    <3>1. ws = [k \in 1..n |-> size(k)]
      BY DEF PartSizes
    <3>2. \A k \in 1..n : size(k) \in Nat
      BY <1>1
    <3> HIDE DEF ws, size
    <3> QED
      BY <3>1, <3>2
  <2> HIDE DEF ws
  <2>2. IsSeq(ws) /\ Len(ws) = n
    BY <1>2, <2>1, FunctionIs
  <2>3. Numbers(ws)
    BY <2>1, <2>2 DEF Numbers
  <2>4. \A i \in 1..Len(ss) : Width(ss[i]) = ws[i]
    BY <1>1, <2>1 DEF PartGoes
  <2>5. Len(ws) = Len(ss)
    BY <1>1, <2>2
  <2>6. IsStreams(ss)
    BY <1>1
  <2>7. IsStream(Flat(ss)) /\ Width(Flat(ss)) = Total(ws)
    BY <2>3, <2>4, <2>5, <2>6, WidthFlat
  <2> QED
    BY <1>3, <2>7 DEF ws
<1>10. WriteEach([i \in DOMAIN r.parts |-> EmitPart(r.parts[i], Remaining(r, ds, i), ds)]) = Done(<<>>, message)
  <2> DEFINE ws == [i \in DOMAIN r.parts |-> EmitPart(r.parts[i], Remaining(r, ds, i), ds)]
  <2>1. ws \in [1..n -> {ws[i] : i \in 1..n}] /\ \A i \in 1..n : ws[i] = EmitPart(r.parts[i], Remaining(r, ds, i), ds)
    BY <1>2
  <2> HIDE DEF ws
  <2>2. IsSeq(ws) /\ Len(ws) = n
    BY <1>2, <2>1, FunctionIs
  <2>3. ASSUME NEW i \in 1..n PROVE ws[i].ok /\ ws[i].in = ss[i]
    <3>1. ws[i] = Done(<<>>, ss[i])
      BY <1>1, <2>1 DEF PartGoes
    <3> QED
      BY <3>1 DEF Done
  <2>4. IsSeq(ss) /\ Len(ss) = Len(ws)
    BY <1>1, <2>2 DEF IsStreams
  <2>5. \A i \in 1..Len(ws) : ws[i].ok /\ ws[i].in = ss[i]
    BY <2>2, <2>3
  <2>6. IsSeq(ws)
    BY <2>2
  <2>7. WriteEach(ws) = Done(<<>>, Flat(ss))
    BY <2>4, <2>5, <2>6, EachIsWritten
  <2> QED
    BY <2>7 DEF ws
<1>11. left[0] = SegmentSize(r, ds) - 24 /\ left[n] = 0
  BY <1>3, <1>4
<1> QED
  BY <1>8, <1>9, <1>10, <1>11 DEF columns, n, ss, vs
-----------------------------------------------------------------------------
AsTaken(r, ds, seq) ==
    [seq |-> seq, type |-> RequestType[r.type], commit |-> 1, parts |-> Things(r, ds)]

\* The request e writes b, and b is taken for what it is, whatever follows.
GoesThrough(e, ds, q, b) ==
    /\ e = Done(<<>>, b) /\ IsStream(b)
    /\ \A s : IsStream(s) => TakeRequest(IterIn(ds), b \o s) = Done(q, s)

\* RESULT (Request::emit): a request that fits is written without an error, and the
\* database takes it for what it is, to the last byte, whatever is behind it.
THEOREM RequestIsTaken ==
  ASSUME NEW r, NEW ds, RequestFits(r, ds), NEW session, NEW seq
  PROVE  \E b : GoesThrough(Emit(r, session, seq, TRUE, ds), ds, AsTaken(r, ds, seq), b)
<1> DEFINE size == SegmentSize(r, ds)
           message == Flat(Pieces(r, ds))
           columns == IterIn(ds)
           n == Len(r.parts)
           type == RequestType[r.type]
           took == [left |-> 0, parts |-> Things(r, ds)]
           x == Headers(r, session, seq, TRUE, size)
           b == x \o message
<1>1. PICK h : x = PutAll(RequestWidths, h) /\ AreHeaders(h, seq, size, n, type, 1)
  BY HeadersAre
<1>2. /\ TakeParts(columns, n, size - 24, message) = Done(took, <<>>)
      /\ IsStream(message) /\ Width(message) = size - 24
      /\ WriteEach([i \in DOMAIN r.parts |-> EmitPart(r.parts[i], Remaining(r, ds, i), ds)]) = Done(<<>>, message)
  BY MessageIsTaken
<1>3. Emit(r, session, seq, TRUE, ds) = Done(<<>>, b)
  <2> DEFINE w == WriteEach([i \in DOMAIN r.parts |-> EmitPart(r.parts[i], Remaining(r, ds, i), ds)])
             e == <<>>
  <2>1. SizesAreOk(r, ds)
    BY SizesFit
  <2>2. Emit(r, session, seq, TRUE, ds) = [w EXCEPT !.in = x \o @]
    BY <2>1 DEF Emit
  <2>3. w = Done(e, message)
    BY <1>2
  <2> HIDE DEF w, x, e, message
  <2>4. [Done(e, message) EXCEPT !.in = x \o @] = Done(e, x \o message)
    BY PutBefore
  <2> QED
    BY <2>2, <2>3, <2>4 DEF e
<1> HIDE DEF size, message, columns, n, type, x
<1>4. /\ IsSeq(h) /\ Len(h) = 31 /\ h[2] = seq /\ h[3] = size /\ h[16] = size
      /\ h[18] = n /\ h[21] = type /\ h[22] = 1
  BY <1>1 DEF AreHeaders
<1>5. IsStream(x)
  BY <1>1, RequestWidthsAre, PutAllIs
<1>6. IsStream(b)
  BY <1>2, <1>5, StreamJoined
<1>7. took.left = 0 /\ took.parts = Things(r, ds)
  OBVIOUS
<1> HIDE DEF took
<1>8. ASSUME NEW s, IsStream(s)
      PROVE  TakeRequest(columns, b \o s) = Done(AsTaken(r, ds, seq), s)
  <2> DEFINE t == message \o s
             in == b \o s
  <2>1. IsStream(t)
    BY <1>2, <1>8, StreamJoined
  <2>2. in = x \o t
    <3>1. IsSeq(x) /\ IsSeq(message) /\ IsSeq(s)
      BY <1>2, <1>5, <1>8 DEF IsStream
    <3> QED
      BY <3>1, Joined
  <2> HIDE DEF t, in
  <2>3. Rd(RequestWidths, in) = Done(h, t)
    <3>1. Rd(RequestWidths, PutAll(RequestWidths, h) \o t) = Done(h, t)
      <4>1. Widths(RequestWidths) /\ Len(h) = Len(RequestWidths) /\ IsSeq(h)
        BY <1>4, RequestWidthsAre
      <4> QED
        BY <2>1, <4>1, RdPutAll
    <3> QED
      BY <1>1, <2>2, <3>1
  <2>4. TakeRequest(columns, in) = AfterSegment(columns, h, t)
    <3>1. h[16] = h[3]
      BY <1>4
    <3> QED
      BY <2>3, <3>1, AfterSegmentIs
  <2>5. Cut(h[3] - 24, t) = Done(message, s)
    <3>1. Cut(Width(message), message \o s) = Done(message, s)
      BY <1>2, <1>8, CutIs
    <3> QED
      BY <1>2, <1>4, <3>1 DEF t
  <2>6. AfterSegment(columns, h, t) = AfterMessage(columns, h, message, s)
    BY <2>5, AfterMessageIs
  <2>7. TakeParts(columns, h[18], h[3] - 24, message) = Done(took, <<>>)
    BY <1>2, <1>4
  <2>8. AfterMessage(columns, h, message, s) = Done(Understanding(h, took), s)
    BY <1>7, <2>7, AfterAllIs
  <2>9. Understanding(h, took) = AsTaken(r, ds, seq)
    BY <1>4, <1>7 DEF Understanding, AsTaken, type
  <2> QED
    BY <2>4, <2>6, <2>8, <2>9 DEF in
<1> HIDE DEF b
<1> QED
  BY <1>3, <1>6, <1>8 DEF columns, GoesThrough

\* What the database took is what the client meant.
LEMMA AsTakenIs ==
  ASSUME NEW r, NEW ds, NEW seq, RequestFits(r, ds)
  PROVE  LET q == AsTaken(r, ds, seq) IN
         /\ q.seq = seq /\ q.type = RequestType[r.type] /\ q.commit = 1
         /\ Len(q.parts) = Len(r.parts)
         /\ \A i \in DOMAIN r.parts : /\ q.parts[i].kind = PartKind[r.parts[i].kind]
                                      /\ Understood(r.parts[i], q.parts[i].is, ds)
<1> DEFINE ts == Things(r, ds)
           n == Len(r.parts)
           q == AsTaken(r, ds, seq)
<1>1. q.seq = seq /\ q.type = RequestType[r.type] /\ q.commit = 1 /\ q.parts = ts
  BY DEF AsTaken
<1> HIDE DEF q
<1>2. /\ IsSeq(ts) /\ Len(ts) = n
      /\ \A i \in 1..n : PartGoes(r.parts[i], Remaining(r, ds, i), ds, Pieces(r, ds)[i], ts[i])
  BY PiecesGo
<1>3. DOMAIN r.parts = 1..n
  <2>1. IsSeq(r.parts)
    BY DEF RequestFits
  <2> QED
    BY <2>1, SeqFacts
<1> HIDE DEF ts
<1>4. \A i \in DOMAIN r.parts : ts[i].kind = PartKind[r.parts[i].kind] /\ Understood(r.parts[i], ts[i].is, ds)
  BY <1>2, <1>3 DEF PartGoes
<1> QED
  BY <1>1, <1>2, <1>4 DEF q
-----------------------------------------------------------------------------
IsWithin(x, s) == \E m \in DOMAIN s : s[m] = x

\* What is in the middle is within the whole.
LEMMA IsInTheMiddle ==
  ASSUME NEW a, IsSeq(a), NEW b, IsSeq(b), NEW c, IsSeq(c), NEW k \in 1..Len(b)
  PROVE  IsWithin(b[k], a \o (b \o c))
<1> DEFINE y == b \o c
           z == a \o y
           m == Len(a) + k
<1>1. IsSeq(y) /\ Len(y) = Len(b) + Len(c) /\ y[k] = b[k] /\ Len(a) \in Nat /\ Len(b) \in Nat /\ Len(c) \in Nat
  <2>1. IsSeq(b) /\ IsSeq(c)
    OBVIOUS
  <2>2. /\ IsSeq(b \o c) /\ Len(b \o c) = Len(b) + Len(c) /\ Len(b) \in Nat /\ Len(c) \in Nat
        /\ \A i \in 1..Len(b) : (b \o c)[i] = b[i]
    <3>1. AreJoined(b \o c, b, c)
      BY <2>1, ConcatSeq
    <3> QED
      BY <3>1 DEF AreJoined
  <2>3. Len(a) \in Nat
    BY SeqFacts
  <2> QED
    BY <2>2, <2>3
<1> HIDE DEF y
<1>2. IsSeq(z) /\ Len(z) = Len(a) + Len(y) /\ z[m] = y[k]
  <2>1. IsSeq(a) /\ IsSeq(y)
    BY <1>1
  <2>2. /\ IsSeq(a \o y) /\ Len(a \o y) = Len(a) + Len(y)
        /\ \A i \in 1..Len(y) : (a \o y)[Len(a) + i] = y[i]
    <3>1. AreJoined(a \o y, a, y)
      BY <2>1, ConcatSeq
    <3> QED
      BY <3>1 DEF AreJoined
  <2>3. k \in 1..Len(y)
    BY <1>1
  <2> QED
    BY <2>2, <2>3
<1> HIDE DEF z
<1>3. DOMAIN z = 1..Len(z)
  BY <1>2, SeqFacts
<1>4. m \in DOMAIN z
  BY <1>1, <1>2, <1>3
<1> QED
  BY <1>1, <1>2, <1>4 DEF IsWithin, z, y

IsJoinedTo(z, a, b, c) == z = a \o (b \o c)

\* Three sequences joined are joined in any order.
LEMMA JoinedAll == \A a, b, c : IsSeq(a) /\ IsSeq(b) /\ IsSeq(c) => IsJoinedTo((a \o b) \o c, a, b, c)
<1> TAKE a, b, c
<1> HAVE IsSeq(a) /\ IsSeq(b) /\ IsSeq(c)
<1> QED
  BY Joined, SMTT(60) DEF IsJoinedTo

\* What is in one of the sequences is within the flattened one.
LEMMA FlatHolds ==
  ASSUME NEW ss, IsSeqs(ss), NEW i \in 1..Len(ss), NEW k \in 1..Len(ss[i])
  PROVE  IsWithin(ss[i][k], Flat(ss))
<1> DEFINE n == Len(ss)
           at(j) == From(ss, j)
           f == Flat(ss)
           Has(j) == \E p : IsSeq(p) /\ f = p \o at(j)
           T == {j \in Nat : j <= n => Has(j)}
<1>1. /\ at(0) = f /\ n \in Nat /\ \A j \in 0..n : IsSeq(at(j))
      /\ \A j \in 1..n : at(j - 1) = ss[j] \o at(j) /\ IsSeq(ss[j])
  <2>1. IsSeq(ss) /\ \A j \in 1..Len(ss) : IsSeq(ss[j])
    BY DEF IsSeqs
  <2>2. n \in Nat
    BY <2>1, SeqFacts
  <2>3. /\ From(ss, 0) = Flat(ss)
        /\ \A j \in 0..Len(ss) : IsSeq(From(ss, j))
        /\ \A j \in 1..Len(ss) : From(ss, j - 1) = ss[j] \o From(ss, j)
    BY FromIs
  <2> QED
    BY <2>1, <2>2, <2>3
<1> HIDE DEF n, at, f
<1>2. Has(0)
  <2> DEFINE e == <<>>
             x == at(0)
  <2>1. IsSeq(e) /\ IsSeq(x)
    BY <1>1, EmptyIsSeq
  <2>2. e \o x = x
    <3> HIDE DEF x
    <3> QED
      BY <2>1, NothingJoined
  <2> HIDE DEF e
  <2>3. f = e \o at(0)
    BY <1>1, <2>2
  <2> QED
    BY <2>1, <2>3
<1>3. ASSUME NEW j \in Nat, j + 1 <= n, Has(j) PROVE Has(j + 1)
  <2>1. PICK p : IsSeq(p) /\ f = p \o at(j)
    BY <1>3
  <2> DEFINE x == ss[j + 1]
             y == at(j + 1)
  <2>2. IsSeq(x) /\ IsSeq(y) /\ at(j) = x \o y
    <3>1. j + 1 \in 1..n /\ j + 1 \in 0..n /\ (j + 1) - 1 = j
      BY <1>1, <1>3
    <3> QED
      BY <1>1, <3>1
  <2> HIDE DEF x, y
  <2>3. (p \o x) \o y = p \o (x \o y)
    <3>1. IsSeq(p) /\ IsSeq(x) /\ IsSeq(y)
      BY <2>1, <2>2
    <3>2. IsJoinedTo((p \o x) \o y, p, x, y)
      BY <3>1, JoinedAll, Zenon
    <3> QED
      BY <3>2 DEF IsJoinedTo
  <2>4. IsSeq(p \o x)
    <3>1. IsSeq(p) /\ IsSeq(x)
      BY <2>1, <2>2
    <3>2. AreJoined(p \o x, p, x)
      BY <3>1, ConcatSeq
    <3> QED
      BY <3>2 DEF AreJoined
  <2>5. f = (p \o x) \o y
    BY <2>1, <2>2, <2>3
  <2> QED
    BY <2>4, <2>5 DEF y
<1>4. i - 1 \in T
  <2>1. 0 \in T /\ \A j \in Nat : j \in T => j + 1 \in T
    <3>1. 0 \in T
      BY <1>2
    <3>2. ASSUME NEW j \in Nat, j \in T PROVE j + 1 \in T
      <4>1. j <= n => Has(j)
        BY <3>2
      <4> HIDE DEF Has
      <4>2. ASSUME j + 1 <= n PROVE Has(j + 1)
        <5>1. j <= n
          BY <1>1, <4>2
        <5> QED
          BY <1>3, <4>1, <4>2, <5>1
      <4> QED
        BY <4>2
    <3> QED
      BY <3>1, <3>2
  <2> HIDE DEF T
  <2>2. i - 1 \in Nat
    BY <1>1 DEF n
  <2> QED
    BY <2>1, <2>2, AllNumbers
<1>5. i \in 1..n
  BY DEF n
<1>6. Has(i - 1)
  <2>1. i - 1 \in Nat /\ i - 1 <= n
    BY <1>1, <1>5
  <2> HIDE DEF Has
  <2> QED
    BY <1>4, <2>1
<1>7. PICK p : IsSeq(p) /\ f = p \o at(i - 1)
  BY <1>6
<1> DEFINE x == ss[i]
           y == at(i)
<1>8. IsSeq(x) /\ IsSeq(y) /\ at(i - 1) = x \o y /\ k \in 1..Len(x)
  <2>1. i \in 0..n
    BY <1>1, <1>5
  <2> QED
    BY <1>1, <1>5, <2>1
<1> HIDE DEF x, y
<1>9. IsWithin(x[k], p \o (x \o y))
  BY <1>7, <1>8, IsInTheMiddle
<1>10. IsWithin(x[k], f)
  BY <1>7, <1>8, <1>9
<1> QED
  BY <1>10 DEF x, f
-----------------------------------------------------------------------------
\* A value that its column takes, and whose size can be computed.
Suits(val, d) ==
    /\ IsValue(val) /\ IsColumn(d) /\ Accepted(val, d) /\ SizeIsOk(val, d.type)
    /\ val.t = "LOBSTREAM_NONE" => d.type \in LobColumns

IsWritable(val, d) ==
    val.t = "DECIMAL" => /\ ~Overflows(val, d, {"FIXED8", "FIXED16"})
                         /\ d.type = "DECIMAL" => FromBigdecimal(val.v).ok

\* A decimal is written if it is not too big for its column.
LEMMA DecimalSucceeds ==
  ASSUME NEW val, NEW d, val.t = "DECIMAL", d.type \in {"FIXED8", "FIXED12", "FIXED16", "DECIMAL"}
  PROVE  EmitDecimal(val.v, d.type, d.scale).ok <=> IsWritable(val, d)
<1> DEFINE bd == val.v
           type == d.type
           n == WithScale(bd[1], bd[2], d.scale)
           F == FromBigdecimal(bd)
           W == IF Signed(FixedBits[12], n) THEN 12 ELSE 13
           B1 == Done(<<>>, Put(W, n))
           B2 == Done(<<>>, Put(FixedWidth[type], n))
           B3 == Fail(<<>>)
           Q == Signed(FixedBits[FixedWidth[type]], n)
           r == EmitDecimal(bd, type, d.scale)
<1> SUFFICES r.ok <=> IsWritable(val, d)
  OBVIOUS
<1>1. r = CASE type = "DECIMAL" -> F [] type = "FIXED12" -> B1
            [] type \in {"FIXED8", "FIXED16"} -> IF Q THEN B2 ELSE B3
            [] OTHER -> B3
  BY DEF EmitDecimal
<1>2. B1.ok /\ B2.ok /\ ~B3.ok
  BY DEF Done, Fail
<1>3. IsWritable(val, d) <=> ~(type \in {"FIXED8", "FIXED16"} /\ ~Q) /\ (type = "DECIMAL" => F.ok)
  BY DEF IsWritable, Overflows
<1> HIDE DEF F, B1, B2, B3, Q, r
<1>4. CASE type = "DECIMAL"
  BY <1>1, <1>3, <1>4
<1>5. CASE type = "FIXED12"
  <2>1. r = B1
    BY <1>1, <1>5
  <2> QED
    BY <1>2, <1>3, <1>5, <2>1
<1>6. CASE type \in {"FIXED8", "FIXED16"}
  <2>1. r = IF Q THEN B2 ELSE B3
    BY <1>1, <1>6
  <2>2. CASE Q
    <3>1. r = B2
      BY <2>1, <2>2
    <3> QED
      BY <1>2, <1>3, <1>6, <2>2, <3>1
  <2>3. CASE ~Q
    <3>1. r = B3
      BY <2>1, <2>3
    <3> QED
      BY <1>2, <1>3, <1>6, <2>3, <3>1
  <2> QED
    BY <2>2, <2>3
<1> QED
  BY <1>4, <1>5, <1>6

\* A value that suits its column announces a type.
LEMMA SuitsAnnounced ==
  ASSUME NEW val, NEW d, Suits(val, d)
  PROVE  TypeIdForEmit(val, d.type) # "Err"
<1>1. CASE val.t = "NULL"
  <2> DEFINE a == TypeIdForEmit(val, d.type)
  <2>1. d.type \in TypeIds
    BY DEF Suits, IsColumn
  <2>2. a = IF d.type = "SECONDTIME" THEN "SECONDDATE" ELSE d.type
    BY <1>1, AnnouncedIs
  <2>3. "SECONDDATE" \in TypeIds /\ "Err" \notin TypeIds
    BY DEF TypeIds, TypeCode
  <2> QED
    BY <2>1, <2>2, <2>3
<1>2. CASE val.t # "NULL"
  BY <1>2 DEF Suits, Accepted
<1> QED
  BY <1>1, <1>2

\* The variants that suit some column and have a size.
LEMMA SuitsKind ==
  ASSUME NEW val, NEW d, Suits(val, d)
  PROVE  val.t \in {"NULL", "DECIMAL", "LOBSTREAM_NONE"} \cup {"TINYINT", "SMALLINT", "INT", "BIGINT"}
        \cup {"BOOLEAN"} \cup {"REAL", "DOUBLE"}
        \cup {"LONGDATE", "SECONDDATE", "DAYDATE", "SECONDTIME"} \cup Binaries
<1>1. val.t \in Numbered \cup Binaries \cup LobVariants \cup {"NULL", "NOTHING", "DECIMAL", "LOBSTREAM_NONE"}
  BY DEF Suits, IsValue
<1>2. val.t \notin {"CLOB", "NCLOB", "BLOB", "LOBSTREAM"}
  BY DEF Suits, SizeIsOk, NotSendable
<1>3. val.t # "NOTHING"
  <2>1. val.t = "NOTHING" => TypeIdForEmit(val, d.type) = "Err"
    BY AnnouncedIs
  <2> QED
    BY <2>1, SuitsAnnounced
<1> QED
  BY <1>1, <1>2, <1>3, TypesAre DEF Numbered

\* What is done has succeeded.
LEMMA DoneIsOk ==
  ASSUME NEW r, NEW b, r = Done(<<>>, b)
  PROVE  r.ok
<1> QED
  BY DEF Done

\* A value that suits its column is written unless it is a decimal that is too big.
LEMMA ValueSucceeds ==
  ASSUME NEW val, NEW d, Suits(val, d)
  PROVE  EmitValue(val, d).ok <=> IsWritable(val, d)
<1> DEFINE r == EmitValue(val, d)
           c == Code(val, d)
           e == EmitDecimal(val.v, d.type, d.scale)
<1>1. TypeIdForEmit(val, d.type) # "Err"
  BY SuitsAnnounced
<1>2. /\ val.t = "NULL" => r = Done(<<>>, c \o <<>>)
      /\ val.t = "BOOLEAN" => r = Done(<<>>, c \o Put(1, 2 * val.v[1]))
      /\ val.t \in IntTypes => r = Done(<<>>, c \o Put(IntWidth[val.t], val.v[1]))
      /\ val.t \in DOMAIN DateWidth => r = Done(<<>>, c \o Put(DateWidth[val.t], val.v[1]))
      /\ val.t = "REAL" => r = Done(<<>>, c \o Put(4, val.v[1]))
      /\ val.t = "DOUBLE" => r = Done(<<>>, c \o Put(8, val.v[1]))
      /\ val.t = "LOBSTREAM_NONE" => r = Done(<<>>, c \o PutAll(<<1, 4, 4>>, <<0, 0, 0>>))
      /\ val.t \in Binaries => r = Done(<<>>, c \o EmitLengthAndBytes(val.v[2], val.v[1]))
  BY <1>1, EmitValueIs
<1>3. val.t = "DECIMAL" => r.ok = e.ok
  BY <1>1, EmitValueIs
<1>4. CASE val.t = "DECIMAL"
  <2>1. d.type \in {"FIXED8", "FIXED12", "FIXED16", "DECIMAL"}
    BY <1>4, TypesAre DEF Suits, SizeIsOk
  <2> HIDE DEF r
  <2>2. e.ok <=> IsWritable(val, d)
    <3> HIDE DEF e
    <3> QED
      BY <1>4, <2>1, DecimalSucceeds DEF e
  <2> HIDE DEF e
  <2>3. r.ok = e.ok
    BY <1>3, <1>4
  <2> QED
    BY <2>2, <2>3 DEF r
<1>5. CASE val.t # "DECIMAL"
  <2> HIDE DEF r, c
  <2>1. \E b : r = Done(<<>>, b)
    <3>1. val.t \in {"NULL", "LOBSTREAM_NONE", "BOOLEAN", "REAL", "DOUBLE"} \cup IntTypes
            \cup DOMAIN DateWidth \cup Binaries
      BY <1>5, SuitsKind, TypesAre
    <3> QED
      BY <1>2, <3>1
  <2>2. r.ok
    BY <2>1, DoneIsOk
  <2>3. IsWritable(val, d)
    BY <1>5 DEF IsWritable
  <2> QED
    BY <2>2, <2>3 DEF r
<1> QED
  BY <1>4, <1>5

\* A value that is written, with the size that was computed, is sent.
LEMMA ValueSends ==
  ASSUME NEW val, NEW d, Suits(val, d), EmitValue(val, d).ok, ~Overflows(val, d, {"FIXED12"}),
         val.t = "DECIMAL" /\ d.type = "DECIMAL" /\ FromBigdecimal(val.v).ok => IsShort(val.v)
  PROVE  Sends(val, d)
<1>1. IsWritable(val, d)
  BY ValueSucceeds
<1>2. ~Overflows(val, d, FixedTypes)
  <2> DEFINE Q == Signed(FixedBits[FixedWidth[d.type]], WithScale(val.v[1], val.v[2], d.scale))
  <2>1. \A types : Overflows(val, d, types) <=> val.t = "DECIMAL" /\ d.type \in types /\ ~Q
    BY DEF Overflows
  <2>2. val.t = "DECIMAL" => ~Overflows(val, d, {"FIXED8", "FIXED16"})
    BY <1>1 DEF IsWritable
  <2> HIDE DEF Q
  <2> QED
    BY <2>1, <2>2, TypesAre
<1>3. val.t = "DECIMAL" /\ d.type = "DECIMAL" => FromBigdecimal(val.v).ok /\ IsShort(val.v)
  BY <1>1 DEF IsWritable
<1> QED
  BY <1>2, <1>3 DEF Sends, Suits
-----------------------------------------------------------------------------
\* A row whose values are those of the columns, accepted one by one.
RowAllowed(row, ins) ==
    /\ IsSeq(row) /\ IsSeq(ins) /\ Len(row) = Len(ins)
    /\ \A j \in 1..Len(row) : /\ IsValue(row[j]) /\ IsColumn(ins[j]) /\ Accepted(row[j], ins[j])
                              /\ row[j].t = "LOBSTREAM_NONE" => ins[j].type \in LobColumns

RowWritable(row, ins) == \A j \in 1..Len(row) : IsWritable(row[j], ins[j])

\* The values of a row that is accepted and has a size suit their columns.
LEMMA RowSuits ==
  ASSUME NEW row, NEW ds, RowAllowed(row, IterIn(ds)), RowSizeIsOk(row, ds), NEW j \in 1..Len(row)
  PROVE  Suits(row[j], IterIn(ds)[j])
<1> DEFINE ins == IterIn(ds)
<1>1. /\ IsValue(row[j]) /\ IsColumn(ins[j]) /\ Accepted(row[j], ins[j]) /\ IsSeq(row)
      /\ row[j].t = "LOBSTREAM_NONE" => ins[j].type \in LobColumns
  BY DEF RowAllowed
<1>2. j \in DOMAIN row
  BY <1>1, SeqFacts
<1>3. SizeIsOk(row[j], ins[j].type)
  BY <1>2 DEF RowSizeIsOk
<1> QED
  BY <1>1, <1>3 DEF Suits

\* Such a row is written if each of its values is.
LEMMA RowSucceeds ==
  ASSUME NEW row, NEW ds, RowAllowed(row, IterIn(ds)), RowSizeIsOk(row, ds)
  PROVE  EmitRow(row, ds).ok <=> RowWritable(row, IterIn(ds))
<1> DEFINE ins == IterIn(ds)
           n == Len(row)
           ws == [i \in DOMAIN row |-> EmitValue(row[i], ins[i])]
<1>1. IsSeq(row) /\ n \in Nat /\ DOMAIN row = 1..n
  <2>1. IsSeq(row)
    BY DEF RowAllowed
  <2> QED
    BY <2>1, SeqFacts
<1>2. EmitRow(row, ds) = WriteEach(ws)
  BY DEF EmitRow
<1>3. ws \in [1..n -> {ws[i] : i \in 1..n}] /\ \A i \in 1..n : ws[i] = EmitValue(row[i], ins[i])
  BY <1>1
<1> HIDE DEF ws
<1>4. IsSeq(ws) /\ Len(ws) = n
  <2> HIDE DEF n
  <2> QED
    BY <1>1, <1>3, FunctionIs
<1>5. WriteEach(ws).ok <=> \A i \in 1..Len(ws) : ws[i].ok
  BY <1>4, EachSucceeds
<1>6. ASSUME NEW i \in 1..n PROVE ws[i].ok <=> IsWritable(row[i], ins[i])
  <2> DEFINE val == row[i]
             d == ins[i]
  <2>1. Suits(val, d)
    BY RowSuits
  <2> HIDE DEF val, d
  <2>2. EmitValue(val, d).ok <=> IsWritable(val, d)
    BY <2>1, ValueSucceeds
  <2> QED
    BY <1>3, <2>2 DEF val, d
<1>7. WriteEach(ws).ok <=> \A i \in 1..n : ws[i].ok
  BY <1>4, <1>5
<1> QED
  BY <1>2, <1>6, <1>7 DEF RowWritable

\* A part of a request that was not refused.
PartAllowed(part, ds) ==
    /\ part.kind \in OptionKinds \cup OtherKinds
    /\ part.kind \in OptionKinds => IsOptions(part.options)
    /\ part.kind = "Command" => IsBytes(part.text)
    /\ part.kind = "WriteLobRequest" => IsBytes(part.data)
    /\ part.kind = "ClientInfo" => IsInfo(part.info)
    /\ part.kind = "Authentication" =>
          IsSeq(part.fields) /\ \A i \in 1..Len(part.fields) : IsBytes(part.fields[i])
    /\ part.kind = "Parameters" =>
          IsSeq(part.rows) /\ \A i \in 1..Len(part.rows) : RowAllowed(part.rows[i], IterIn(ds))

FieldsWritable(fields) == \A i \in 1..Len(fields) : fields[i][2] <= 65535
RowsWritable(rows, ins) == \A i \in 1..Len(rows) : RowWritable(rows[i], ins)

PartWritable(part, ds) ==
    /\ part.kind = "Authentication" => FieldsWritable(part.fields)
    /\ part.kind = "Parameters" => RowsWritable(part.rows, IterIn(ds))

\* A field of an authentication is written if its length has two bytes.
LEMMA AuthFieldSucceeds ==
  ASSUME NEW f, IsBytes(f)
  PROVE  EmitAuthField(f).ok <=> f[2] <= 65535
<1> DEFINE B == Done(<<>>, (IF f[2] <= 250 THEN Put(1, f[2]) ELSE PutAll(<<1, 2>>, <<255, f[2]>>)) \o Put(f[2], f[1]))
           F == Fail(<<>>)
<1>1. EmitAuthField(f) = IF f[2] > 65535 THEN F ELSE B
  BY DEF EmitAuthField
<1>2. B.ok /\ ~F.ok
  BY DEF Done, Fail
<1>3. f[2] \in Nat
  BY DEF IsBytes
<1> HIDE DEF B, F
<1> QED
  BY <1>1, <1>2, <1>3

\* The fields are written if each is.
LEMMA FieldsSucceed ==
  ASSUME NEW fields, IsSeq(fields), \A i \in 1..Len(fields) : IsBytes(fields[i]), NEW c
  PROVE  [WriteEach([i \in DOMAIN fields |-> EmitAuthField(fields[i])]) EXCEPT !.in = c \o @].ok
            <=> FieldsWritable(fields)
<1> DEFINE n == Len(fields)
           ws == [i \in DOMAIN fields |-> EmitAuthField(fields[i])]
           w == WriteEach(ws)
<1>1. n \in Nat /\ DOMAIN fields = 1..n
  BY SeqFacts
<1>2. ws \in [1..n -> {ws[i] : i \in 1..n}] /\ \A i \in 1..n : ws[i] = EmitAuthField(fields[i])
  BY <1>1
<1>3. [w EXCEPT !.in = c \o @].ok = w.ok
  <2>1. w = [ok |-> w.ok, v |-> w.v, in |-> w.in]
    BY DEF WriteEach
  <2> HIDE DEF w
  <2> QED
    BY <2>1
<1> HIDE DEF ws
<1>4. IsSeq(ws) /\ Len(ws) = n
  <2> HIDE DEF n
  <2> QED
    BY <1>1, <1>2, FunctionIs
<1>5. w.ok <=> \A i \in 1..Len(ws) : ws[i].ok
  BY <1>4, EachSucceeds
<1>6. \A i \in 1..n : ws[i].ok <=> fields[i][2] <= 65535
  BY <1>2, AuthFieldSucceeds
<1>7. w.ok <=> \A i \in 1..n : ws[i].ok
  BY <1>4, <1>5
<1> HIDE DEF w
<1>8. w.ok <=> FieldsWritable(fields)
  BY <1>6, <1>7 DEF FieldsWritable
<1> QED
  BY <1>3, <1>8 DEF w, ws

\* Rows are written if each is.
LEMMA RowsSucceed ==
  ASSUME NEW rows, NEW ds, IsSeq(rows), \A i \in 1..Len(rows) : RowAllowed(rows[i], IterIn(ds)),
         \A i \in 1..Len(rows) : RowSizeIsOk(rows[i], ds)
  PROVE  RowsWritten(rows, ds).ok <=> RowsWritable(rows, IterIn(ds))
<1> DEFINE n == Len(rows)
           ws == [i \in DOMAIN rows |-> EmitRow(rows[i], ds)]
           w == WriteEach(ws)
<1>1. n \in Nat /\ DOMAIN rows = 1..n
  BY SeqFacts
<1>2. ws \in [1..n -> {ws[i] : i \in 1..n}] /\ \A i \in 1..n : ws[i] = EmitRow(rows[i], ds)
  BY <1>1
<1>3. RowsWritten(rows, ds) = w
  BY DEF RowsWritten
<1> HIDE DEF ws
<1>4. IsSeq(ws) /\ Len(ws) = n
  <2> HIDE DEF n
  <2> QED
    BY <1>1, <1>2, FunctionIs
<1>5. w.ok <=> \A i \in 1..Len(ws) : ws[i].ok
  BY <1>4, EachSucceeds
<1>6. ASSUME NEW i \in 1..n PROVE ws[i].ok <=> RowWritable(rows[i], IterIn(ds))
  <2> DEFINE row == rows[i]
  <2>1. RowAllowed(row, IterIn(ds)) /\ RowSizeIsOk(row, ds)
    OBVIOUS
  <2> HIDE DEF row
  <2>2. EmitRow(row, ds).ok <=> RowWritable(row, IterIn(ds))
    BY <2>1, RowSucceeds
  <2> QED
    BY <1>2, <2>2 DEF row
<1>7. w.ok <=> \A i \in 1..n : ws[i].ok
  BY <1>4, <1>5
<1> HIDE DEF w
<1> QED
  BY <1>3, <1>6, <1>7 DEF RowsWritable

\* The body of a part is written if its fields and its rows are.
LEMMA BodySucceeds ==
  ASSUME NEW part, NEW ds, PartAllowed(part, ds), BodySizeIsOk(part, ds)
  PROVE  EmitBody(part, ds).ok <=> PartWritable(part, ds)
<1>1. CASE part.kind = "Authentication"
  <2> DEFINE fields == part.fields
             c == Put(2, Len(fields))
  <2>1. IsSeq(fields) /\ \A i \in 1..Len(fields) : IsBytes(fields[i])
    BY <1>1 DEF PartAllowed
  <2>2. EmitBody(part, ds) = [WriteEach([i \in DOMAIN fields |-> EmitAuthField(fields[i])])
                                EXCEPT !.in = Put(2, Len(fields)) \o @]
    BY <1>1, BodyIs
  <2>3. EmitBody(part, ds) = [WriteEach([i \in DOMAIN fields |-> EmitAuthField(fields[i])]) EXCEPT !.in = c \o @]
    BY <2>2
  <2>4. PartWritable(part, ds) <=> FieldsWritable(fields)
    BY <1>1 DEF PartWritable
  <2> HIDE DEF fields, c
  <2>5. [WriteEach([i \in DOMAIN fields |-> EmitAuthField(fields[i])]) EXCEPT !.in = c \o @].ok
           <=> FieldsWritable(fields)
    BY <2>1, FieldsSucceed
  <2> QED
    BY <2>3, <2>4, <2>5
<1>2. CASE part.kind = "Parameters"
  <2> DEFINE rows == part.rows
  <2>1. IsSeq(rows) /\ \A i \in 1..Len(rows) : RowAllowed(rows[i], IterIn(ds))
    BY <1>2 DEF PartAllowed
  <2>2. EmitBody(part, ds) = RowsWritten(rows, ds)
    BY <1>2, BodyIs
  <2>3. \A i \in 1..Len(rows) : RowSizeIsOk(rows[i], ds)
    <3>1. \A i \in DOMAIN rows : RowSizeIsOk(rows[i], ds)
      BY <1>2 DEF BodySizeIsOk
    <3>2. DOMAIN rows = 1..Len(rows)
      <4> HIDE DEF rows
      <4> QED
        BY <2>1, SeqFacts
    <3> QED
      BY <3>1, <3>2
  <2>4. PartWritable(part, ds) <=> RowsWritable(rows, IterIn(ds))
    BY <1>2 DEF PartWritable
  <2> HIDE DEF rows
  <2>5. RowsWritten(rows, ds).ok <=> RowsWritable(rows, IterIn(ds))
    BY <2>1, <2>3, RowsSucceed
  <2> QED
    BY <2>2, <2>4, <2>5
<1>3. CASE part.kind \notin {"Authentication", "Parameters"}
  <2>1. PartFits(part, ds)
    BY <1>3 DEF PartAllowed, PartFits
  <2>2. PICK b, is : IsBody(part, ds, b, is)
    BY <2>1, BodyIsTaken
  <2>3. EmitBody(part, ds) = Done(<<>>, b)
    BY <2>2 DEF IsBody
  <2>4. EmitBody(part, ds).ok
    BY <2>3, DoneIsOk
  <2>5. PartWritable(part, ds)
    BY <1>3 DEF PartWritable
  <2> QED
    BY <2>4, <2>5
<1> QED
  BY <1>1, <1>2, <1>3

\* And so is the part.
LEMMA PartSucceeds ==
  ASSUME NEW part, NEW ds, NEW left, PartAllowed(part, ds), BodySizeIsOk(part, ds)
  PROVE  EmitPart(part, left, ds).ok <=> PartWritable(part, ds)
<1> DEFINE body == EmitBody(part, ds)
           x == PutAll(<<1, 1, 2, 4, 4, 4>>,
                       <<PartKind[part.kind], 0, IF Count(part) < MaxI16 THEN Count(part) ELSE -1,
                         IF Count(part) < MaxI16 THEN 0 ELSE Count(part), BodySize(part, ds), left>>)
           y == Padding(PadSize(BodySize(part, ds)))
<1>1. EmitPart(part, left, ds) = IF body.ok THEN Done(<<>>, (x \o body.in) \o y) ELSE Fail(x \o body.in)
  BY DEF EmitPart
<1>2. body.ok <=> PartWritable(part, ds)
  BY BodySucceeds
<1> HIDE DEF body, x, y
<1>3. EmitPart(part, left, ds).ok <=> body.ok
  BY <1>1 DEF Done, Fail
<1> QED
  BY <1>2, <1>3
-----------------------------------------------------------------------------
RequestAllowed(r, ds) == IsSeq(r.parts) /\ \A i \in 1..Len(r.parts) : PartAllowed(r.parts[i], ds)
RequestWritable(r, ds) == \A i \in 1..Len(r.parts) : PartWritable(r.parts[i], ds)

\* RESULT (Request::emit): a request is written if and only if its sizes can be
\* computed and each part can be written; without a size nothing is written.
THEOREM RequestSucceeds ==
  ASSUME NEW r, NEW ds, NEW session, NEW seq, RequestAllowed(r, ds)
  PROVE  /\ Emit(r, session, seq, TRUE, ds).ok <=> SizesAreOk(r, ds) /\ RequestWritable(r, ds)
         /\ ~SizesAreOk(r, ds) => Emit(r, session, seq, TRUE, ds).in = <<>>
<1> DEFINE n == Len(r.parts)
           ws == [i \in DOMAIN r.parts |-> EmitPart(r.parts[i], Remaining(r, ds, i), ds)]
           w == WriteEach(ws)
           x == Headers(r, session, seq, TRUE, SegmentSize(r, ds))
           e == Emit(r, session, seq, TRUE, ds)
<1>1. e = IF ~SizesAreOk(r, ds) THEN Fail(<<>>) ELSE [w EXCEPT !.in = x \o @]
  BY DEF Emit
<1>2. [w EXCEPT !.in = x \o @].ok = w.ok
  <2>1. w = [ok |-> w.ok, v |-> w.v, in |-> w.in]
    BY DEF WriteEach
  <2> HIDE DEF w
  <2> QED
    BY <2>1
<1>3. IsSeq(r.parts) /\ n \in Nat /\ DOMAIN r.parts = 1..n
  <2>1. IsSeq(r.parts)
    BY DEF RequestAllowed
  <2> QED
    BY <2>1, SeqFacts
<1>4. ws \in [1..n -> {ws[i] : i \in 1..n}]
      /\ \A i \in 1..n : ws[i] = EmitPart(r.parts[i], Remaining(r, ds, i), ds)
  BY <1>3
<1> HIDE DEF ws, x, e
<1>5. IsSeq(ws) /\ Len(ws) = n
  <2> HIDE DEF n
  <2> QED
    BY <1>3, <1>4, FunctionIs
<1>6. w.ok <=> \A i \in 1..Len(ws) : ws[i].ok
  BY <1>5, EachSucceeds
<1>7. ASSUME SizesAreOk(r, ds), NEW i \in 1..n PROVE ws[i].ok <=> PartWritable(r.parts[i], ds)
  <2> DEFINE part == r.parts[i]
             left == Remaining(r, ds, i)
  <2>1. PartAllowed(part, ds)
    BY DEF RequestAllowed
  <2>2. BodySizeIsOk(part, ds)
    BY <1>3, <1>7 DEF SizesAreOk
  <2>3. ws[i] = EmitPart(part, left, ds)
    BY <1>4
  <2> HIDE DEF part, left
  <2>4. EmitPart(part, left, ds).ok <=> PartWritable(part, ds)
    BY <2>1, <2>2, PartSucceeds
  <2> QED
    BY <2>3, <2>4 DEF part
<1>8. w.ok <=> \A i \in 1..n : ws[i].ok
  BY <1>5, <1>6
<1> HIDE DEF w
<1>9. CASE SizesAreOk(r, ds)
  <2>1. e.ok = w.ok
    BY <1>1, <1>2, <1>9
  <2>2. e.ok <=> RequestWritable(r, ds)
    BY <1>7, <1>8, <1>9, <2>1 DEF RequestWritable
  <2> QED
    BY <1>9, <2>2 DEF e
<1>10. CASE ~SizesAreOk(r, ds)
  <2>1. e = Fail(<<>>)
    BY <1>1, <1>10
  <2>2. ~e.ok /\ e.in = <<>>
    BY <2>1 DEF Fail
  <2> QED
    BY <1>10, <2>2 DEF e
<1> QED
  BY <1>9, <1>10
-----------------------------------------------------------------------------
(* The parameters that are written.                                        *)

RowParts(r) ==
    [i \in DOMAIN r.parts |-> IF r.parts[i].kind = "Parameters" THEN r.parts[i].rows ELSE <<>>]
FieldParts(r) ==
    [i \in DOMAIN r.parts |-> IF r.parts[i].kind = "Authentication" THEN r.parts[i].fields ELSE <<>>]

\* The rows and the fields of a request, part by part.
LEMMA PartsOfAre ==
  ASSUME NEW r, NEW ds, IsProgramRequest(r, ds)
  PROVE  /\ IsSeqs(RowParts(r)) /\ Len(RowParts(r)) = Len(r.parts)
         /\ IsSeqs(FieldParts(r)) /\ Len(FieldParts(r)) = Len(r.parts)
         /\ \A i \in 1..Len(r.parts) :
               /\ RowParts(r)[i] = IF r.parts[i].kind = "Parameters" THEN r.parts[i].rows ELSE <<>>
               /\ FieldParts(r)[i] = IF r.parts[i].kind = "Authentication" THEN r.parts[i].fields ELSE <<>>
<1> DEFINE n == Len(r.parts)
           a == RowParts(r)
           b == FieldParts(r)
<1>1. IsSeq(r.parts) /\ n \in Nat /\ DOMAIN r.parts = 1..n
  <2>1. IsSeq(r.parts)
    BY DEF IsProgramRequest
  <2> QED
    BY <2>1, SeqFacts
<1>2. /\ a = [i \in 1..n |-> IF r.parts[i].kind = "Parameters" THEN r.parts[i].rows ELSE <<>>]
      /\ b = [i \in 1..n |-> IF r.parts[i].kind = "Authentication" THEN r.parts[i].fields ELSE <<>>]
  BY <1>1 DEF RowParts, FieldParts
<1> HIDE DEF a, b, n
<1>3. a \in [1..n -> {a[i] : i \in 1..n}] /\ b \in [1..n -> {b[i] : i \in 1..n}]
  BY <1>2
<1>4. \A i \in 1..n : /\ a[i] = IF r.parts[i].kind = "Parameters" THEN r.parts[i].rows ELSE <<>>
                      /\ b[i] = IF r.parts[i].kind = "Authentication" THEN r.parts[i].fields ELSE <<>>
  BY <1>2
<1>5. IsSeq(a) /\ Len(a) = n
  BY <1>1, <1>3, FunctionIs
<1>6. IsSeq(b) /\ Len(b) = n
  BY <1>1, <1>3, FunctionIs
<1>7. ASSUME NEW i \in 1..n PROVE IsSeq(a[i]) /\ IsSeq(b[i])
  <2>1. IsProgramPart(r.parts[i], ds)
    BY DEF IsProgramRequest, n
  <2>2. r.parts[i].kind = "Parameters" => IsSeq(r.parts[i].rows)
    BY <2>1 DEF IsProgramPart
  <2>3. r.parts[i].kind = "Authentication" => IsSeq(r.parts[i].fields)
    BY <2>1 DEF IsProgramPart
  <2>4. IsSeq(<<>>)
    BY EmptyIsSeq
  <2> QED
    BY <1>4, <2>2, <2>3, <2>4
<1> QED
  BY <1>4, <1>5, <1>6, <1>7 DEF IsSeqs, a, b, n

\* Every row of a part is one of the request's.
LEMMA RowIsThere ==
  ASSUME NEW r, NEW ds, IsProgramRequest(r, ds), NEW i \in 1..Len(r.parts), r.parts[i].kind = "Parameters",
         NEW k \in 1..Len(r.parts[i].rows)
  PROVE  IsWithin(r.parts[i].rows[k], RowsOf(r))
<1> DEFINE ss == RowParts(r)
<1>1. IsSeqs(ss) /\ i \in 1..Len(ss) /\ ss[i] = r.parts[i].rows
  BY PartsOfAre
<1>2. RowsOf(r) = Flat(ss)
  BY DEF RowsOf, RowParts
<1> HIDE DEF ss
<1>3. k \in 1..Len(ss[i])
  BY <1>1
<1>4. IsWithin(ss[i][k], Flat(ss))
  BY <1>1, <1>3, FlatHolds
<1> QED
  BY <1>1, <1>2, <1>4

\* Every field of a part is one of the request's.
LEMMA FieldIsThere ==
  ASSUME NEW x, NEW ds, IsProgramRequest(x.request, ds), NEW i \in 1..Len(x.request.parts),
         x.request.parts[i].kind = "Authentication", NEW k \in 1..Len(x.request.parts[i].fields)
  PROVE  IsWithin(x.request.parts[i].fields[k], AuthFieldsOf(x))
<1> DEFINE r == x.request
           ss == FieldParts(r)
<1>1. IsSeqs(ss) /\ i \in 1..Len(ss) /\ ss[i] = r.parts[i].fields
  BY PartsOfAre
<1>2. AuthFieldsOf(x) = Flat(ss)
  BY DEF AuthFieldsOf, FieldParts
<1> HIDE DEF ss
<1>3. k \in 1..Len(ss[i])
  BY <1>1
<1>4. IsWithin(ss[i][k], Flat(ss))
  BY <1>1, <1>3, FlatHolds
<1> QED
  BY <1>1, <1>2, <1>4
-----------------------------------------------------------------------------
\* The rows of a request that is not refused were converted and suit their parameters.
LEMMA RowIsNotRefused ==
  ASSUME NEW x, ~IsRefused(x), NEW row, IsWithin(row, RowsOf(x.request))
  PROVE  RowIsAccepted(row, x.descriptors) /\ \A j \in DOMAIN row : row[j] # Err
<1> DEFINE s == RowsOf(x.request)
<1>1. PICK i \in DOMAIN s : s[i] = row
  BY DEF IsWithin
<1>2. ~((\E j \in DOMAIN s[i] : s[i][j] = Err) \/ ~RowIsAccepted(s[i], x.descriptors))
  BY <1>1 DEF IsRefused
<1> QED
  BY <1>1, <1>2

\* So they are allowed.
LEMMA RowIsAllowed ==
  ASSUME NEW row, NEW ds, IsProgramRow(row, IterIn(ds)), RowIsAccepted(row, ds),
         \A j \in DOMAIN row : row[j] # Err
  PROVE  RowAllowed(row, IterIn(ds))
<1> DEFINE ins == IterIn(ds)
<1>1. IsSeq(row) /\ IsSeq(ins) /\ Len(row) = Len(ins)
  BY DEF IsProgramRow
<1>2. DOMAIN row = 1..Len(row)
  BY <1>1, SeqFacts
<1>3. ASSUME NEW j \in 1..Len(row)
      PROVE  /\ IsValue(row[j]) /\ IsColumn(ins[j]) /\ Accepted(row[j], ins[j])
             /\ row[j].t = "LOBSTREAM_NONE" => ins[j].type \in LobColumns
  <2>1. row[j] # Err
    BY <1>2
  <2>2. /\ IsColumn(ins[j]) /\ IsValue(row[j])
        /\ row[j].t = "LOBSTREAM_NONE" => ins[j].type \in LobColumns
    BY <2>1 DEF IsProgramRow
  <2>3. row[j].t # "NULL" =>
           /\ TypeIdForEmit(row[j], ins[j].type) # "Err"
           /\ MatchesValueType(ins[j].type, TypeIdForEmit(row[j], ins[j].type))
    BY <1>2 DEF RowIsAccepted
  <2> QED
    BY <2>2, <2>3 DEF Accepted
<1> QED
  BY <1>1, <1>3 DEF RowAllowed

\* And so is the request.
LEMMA NotRefusedIsAllowed ==
  ASSUME NEW x, IsProgramRequest(x.request, x.descriptors), ~IsRefused(x)
  PROVE  RequestAllowed(x.request, x.descriptors)
<1> DEFINE r == x.request
           ds == x.descriptors
<1>1. IsSeq(r.parts) /\ \A i \in 1..Len(r.parts) : IsProgramPart(r.parts[i], ds)
  BY DEF IsProgramRequest
<1>2. ASSUME NEW i \in 1..Len(r.parts), r.parts[i].kind = "Parameters", NEW k \in 1..Len(r.parts[i].rows)
      PROVE  RowAllowed(r.parts[i].rows[k], IterIn(ds))
  <2> DEFINE row == r.parts[i].rows[k]
  <2>1. IsProgramRow(row, IterIn(ds))
    BY <1>1, <1>2 DEF IsProgramPart
  <2>2. IsWithin(row, RowsOf(r))
    BY <1>2, RowIsThere
  <2> HIDE DEF row
  <2>3. RowIsAccepted(row, ds) /\ \A j \in DOMAIN row : row[j] # Err
    BY <2>2, RowIsNotRefused
  <2>4. RowAllowed(row, IterIn(ds))
    <3> HIDE DEF ds
    <3> QED
      BY <2>1, <2>3, RowIsAllowed
  <2> QED
    BY <2>4 DEF row
<1>3. ASSUME NEW i \in 1..Len(r.parts) PROVE PartAllowed(r.parts[i], ds)
  <2>1. IsProgramPart(r.parts[i], ds)
    BY <1>1
  <2>2. r.parts[i].kind = "Parameters" =>
           IsSeq(r.parts[i].rows) /\ \A k \in 1..Len(r.parts[i].rows) : RowAllowed(r.parts[i].rows[k], IterIn(ds))
    BY <1>2, <2>1 DEF IsProgramPart
  <2> DEFINE part == r.parts[i]
  <2>3. IsProgramPart(part, ds)
    BY <2>1
  <2>4. part.kind = "Parameters" =>
           IsSeq(part.rows) /\ \A k \in 1..Len(part.rows) : RowAllowed(part.rows[k], IterIn(ds))
    BY <2>2
  <2> HIDE DEF part, ds
  <2>5. PartAllowed(part, ds)
    BY <2>3, <2>4 DEF IsProgramPart, PartAllowed
  <2> QED
    BY <2>5 DEF part
<1> QED
  BY <1>1, <1>3 DEF RequestAllowed

\* What is known of a value in a row that does not fail halfway, or whose size is right.
LEMMA ValueIsFine ==
  ASSUME NEW x, NEW row, IsWithin(row, RowsOf(x.request)), NEW j \in DOMAIN row
  PROVE  LET d == IterIn(x.descriptors)[j] IN
         /\ ~FailsHalfway(x) => IsWritable(row[j], d)
         /\ ~SizeIsWrong(x) => ~Overflows(row[j], d, {"FIXED12"})
<1> DEFINE s == RowsOf(x.request)
           d == IterIn(x.descriptors)[j]
<1>1. PICK i \in DOMAIN s : s[i] = row
  BY DEF IsWithin
<1>2. ASSUME ~FailsHalfway(x) PROVE IsWritable(row[j], d)
  <2>1. ~TooBig(x, {"FIXED8", "FIXED16"}) /\ ~OutOfRange(x)
    BY <1>2 DEF FailsHalfway
  <2>3. ~Overflows(s[i][j], d, {"FIXED8", "FIXED16"})
    BY <1>1, <2>1 DEF TooBig
  <2>4. ~(d.type = "DECIMAL" /\ s[i][j].t = "DECIMAL" /\ ~FromBigdecimal(s[i][j].v).ok)
    BY <1>1, <2>1 DEF OutOfRange
  <2> HIDE DEF d, s
  <2> QED
    BY <1>1, <2>3, <2>4 DEF IsWritable
<1>3. ASSUME ~SizeIsWrong(x) PROVE ~Overflows(row[j], d, {"FIXED12"})
  <2>1. ~TooBig(x, {"FIXED12"})
    BY <1>3 DEF SizeIsWrong
  <2>2. ~Overflows(s[i][j], d, {"FIXED12"})
    BY <1>1, <2>1 DEF TooBig
  <2> HIDE DEF d, s
  <2> QED
    BY <1>1, <2>2
<1> QED
  BY <1>2, <1>3

\* What is known of a field in a request that does not fail halfway, or whose size is right.
LEMMA FieldIsFine ==
  ASSUME NEW x, NEW f, IsBytes(f), IsWithin(f, AuthFieldsOf(x))
  PROVE  /\ ~FailsHalfway(x) => f[2] <= 65535
         /\ ~SizeIsWrong(x) => f[2] <= 250
<1> DEFINE s == AuthFieldsOf(x)
<1>1. PICK i \in DOMAIN s : s[i] = f
  BY DEF IsWithin
<1>2. f[2] \in Nat
  BY DEF IsBytes
<1>3. ASSUME ~FailsHalfway(x) PROVE f[2] <= 65535
  <2>1. ~TooLong(x, 65535)
    BY <1>3 DEF FailsHalfway
  <2>2. ~(s[i][2] > 65535)
    BY <1>1, <2>1 DEF TooLong
  <2> HIDE DEF s
  <2> QED
    BY <1>1, <1>2, <2>2
<1>4. ASSUME ~SizeIsWrong(x) PROVE f[2] <= 250
  <2>1. ~TooLong(x, 250)
    BY <1>4 DEF SizeIsWrong
  <2>2. ~(s[i][2] > 250)
    BY <1>1, <2>1 DEF TooLong
  <2> HIDE DEF s
  <2> QED
    BY <1>1, <1>2, <2>2
<1> QED
  BY <1>3, <1>4

\* No decimal for a DECIMAL column needs the bit that its exponent overwrites.
DecimalsAreShort(x) ==
    \A i \in DOMAIN RowsOf(x.request) : \A j \in DOMAIN RowsOf(x.request)[i] :
        LET val == RowsOf(x.request)[i][j] IN
        val.t = "DECIMAL" /\ IterIn(x.descriptors)[j].type = "DECIMAL" /\ FromBigdecimal(val.v).ok => IsShort(val.v)

\* And what of a decimal where decimals are short.
LEMMA ValueIsShort ==
  ASSUME NEW x, DecimalsAreShort(x), NEW row, IsWithin(row, RowsOf(x.request)), NEW j \in DOMAIN row
  PROVE  row[j].t = "DECIMAL" /\ IterIn(x.descriptors)[j].type = "DECIMAL" /\ FromBigdecimal(row[j].v).ok
            => IsShort(row[j].v)
<1> DEFINE s == RowsOf(x.request)
           d == IterIn(x.descriptors)[j]
           Q(val) == val.t = "DECIMAL" /\ d.type = "DECIMAL" /\ FromBigdecimal(val.v).ok => IsShort(val.v)
<1>1. PICK i \in DOMAIN s : s[i] = row
  BY DEF IsWithin
<1>2. Q(s[i][j])
  BY <1>1 DEF DecimalsAreShort
<1> HIDE DEF Q, s
<1>3. Q(row[j])
  BY <1>1, <1>2
<1> QED
  BY <1>3 DEF Q
-----------------------------------------------------------------------------
IsProgramExchange(x) == IsProgramRequest(x.request, x.descriptors)

\* The same of a row.
LEMMA RowIsFine ==
  ASSUME NEW x, NEW row, IsWithin(row, RowsOf(x.request)), IsSeq(row)
  PROVE  LET ins == IterIn(x.descriptors) IN
         /\ ~FailsHalfway(x) => RowWritable(row, ins)
         /\ ~SizeIsWrong(x) => \A j \in 1..Len(row) : ~Overflows(row[j], ins[j], {"FIXED12"})
         /\ DecimalsAreShort(x) => \A j \in 1..Len(row) :
                row[j].t = "DECIMAL" /\ ins[j].type = "DECIMAL" /\ FromBigdecimal(row[j].v).ok
                    => IsShort(row[j].v)
<1> DEFINE ins == IterIn(x.descriptors)
<1>1. DOMAIN row = 1..Len(row)
  BY SeqFacts
<1>2. ASSUME ~FailsHalfway(x), NEW j \in 1..Len(row) PROVE IsWritable(row[j], ins[j])
  <2>1. j \in DOMAIN row
    BY <1>1
  <2> QED
    BY <1>2, <2>1, ValueIsFine
<1>3. ASSUME ~SizeIsWrong(x), NEW j \in 1..Len(row) PROVE ~Overflows(row[j], ins[j], {"FIXED12"})
  <2>1. j \in DOMAIN row
    BY <1>1
  <2> QED
    BY <1>3, <2>1, ValueIsFine
<1>4. ASSUME DecimalsAreShort(x), NEW j \in 1..Len(row)
      PROVE  row[j].t = "DECIMAL" /\ ins[j].type = "DECIMAL" /\ FromBigdecimal(row[j].v).ok
                => IsShort(row[j].v)
  <2>1. j \in DOMAIN row
    BY <1>1
  <2> QED
    BY <1>4, <2>1, ValueIsShort
<1> HIDE DEF ins
<1> QED
  BY <1>2, <1>3, <1>4 DEF RowWritable, ins

\* The rows and fields of a program's part are those of the request.
LEMMA PartIsFine ==
  ASSUME NEW x, IsProgramExchange(x), NEW i \in 1..Len(x.request.parts)
  PROVE  LET part == x.request.parts[i]
             ins == IterIn(x.descriptors)
         IN
         /\ part.kind = "Parameters" => \A k \in 1..Len(part.rows) :
               IsWithin(part.rows[k], RowsOf(x.request)) /\ IsSeq(part.rows[k])
         /\ part.kind = "Authentication" => \A k \in 1..Len(part.fields) :
               IsWithin(part.fields[k], AuthFieldsOf(x)) /\ IsBytes(part.fields[k])
<1> DEFINE part == x.request.parts[i]
           ins == IterIn(x.descriptors)
<1>1. IsProgramRequest(x.request, x.descriptors)
  BY DEF IsProgramExchange
<1>2. IsProgramPart(part, x.descriptors)
  BY <1>1 DEF IsProgramRequest
<1>3. ASSUME part.kind = "Parameters", NEW k \in 1..Len(part.rows)
      PROVE  IsWithin(part.rows[k], RowsOf(x.request)) /\ IsSeq(part.rows[k])
  <2>1. IsWithin(part.rows[k], RowsOf(x.request))
    BY <1>1, <1>3, RowIsThere
  <2>2. IsProgramRow(part.rows[k], ins)
    BY <1>2, <1>3 DEF IsProgramPart
  <2> HIDE DEF part, ins
  <2> QED
    BY <2>1, <2>2 DEF IsProgramRow
<1>4. ASSUME part.kind = "Authentication", NEW k \in 1..Len(part.fields)
      PROVE  IsWithin(part.fields[k], AuthFieldsOf(x)) /\ IsBytes(part.fields[k])
  <2>1. IsWithin(part.fields[k], AuthFieldsOf(x))
    BY <1>1, <1>4, FieldIsThere
  <2>2. IsBytes(part.fields[k])
    BY <1>2, <1>4 DEF IsProgramPart
  <2> QED
    BY <2>1, <2>2
<1> HIDE DEF part, ins
<1> QED
  BY <1>3, <1>4 DEF part

\* A request that does not fail halfway can be written.
LEMMA IsAllWritable ==
  ASSUME NEW x, IsProgramExchange(x), ~FailsHalfway(x)
  PROVE  RequestWritable(x.request, x.descriptors)
<1> SUFFICES ASSUME NEW i \in 1..Len(x.request.parts)
             PROVE  PartWritable(x.request.parts[i], x.descriptors)
  BY DEF RequestWritable
<1> DEFINE part == x.request.parts[i]
           ins == IterIn(x.descriptors)
<1>1. ASSUME part.kind = "Parameters", NEW k \in 1..Len(part.rows)
      PROVE  RowWritable(part.rows[k], ins)
  <2>1. IsWithin(part.rows[k], RowsOf(x.request)) /\ IsSeq(part.rows[k])
    BY <1>1, PartIsFine
  <2> QED
    BY <2>1, RowIsFine
<1>2. ASSUME part.kind = "Authentication", NEW k \in 1..Len(part.fields)
      PROVE  part.fields[k][2] <= 65535
  <2>1. IsWithin(part.fields[k], AuthFieldsOf(x)) /\ IsBytes(part.fields[k])
    BY <1>2, PartIsFine
  <2> QED
    BY <2>1, FieldIsFine
<1> HIDE DEF part, ins
<1>3. PartWritable(part, x.descriptors)
  BY <1>1, <1>2 DEF PartWritable, RowsWritable, FieldsWritable, ins
<1> QED
  BY <1>3 DEF part

\* A request that is not written although nothing is wrong with what is in it
\* is found too large for a size before its first byte is written.
LEMMA NothingIsLeft ==
  ASSUME NEW x, IsProgramExchange(x), ~IsRefused(x), ~FailsHalfway(x), NEW n, ~Written(x, n).ok
  PROVE  Written(x, n).in = <<>>
<1> DEFINE r == x.request
           ds == x.descriptors
<1>1. RequestAllowed(r, ds)
  BY NotRefusedIsAllowed DEF IsProgramExchange
<1>2. RequestWritable(r, ds)
  BY IsAllWritable
<1>3. Written(x, n) = Emit(r, 7, n, TRUE, ds)
  BY DEF Written
<1> HIDE DEF r, ds
<1>4. /\ Emit(r, 7, n, TRUE, ds).ok <=> SizesAreOk(r, ds) /\ RequestWritable(r, ds)
      /\ ~SizesAreOk(r, ds) => Emit(r, 7, n, TRUE, ds).in = <<>>
  BY <1>1, RequestSucceeds
<1> QED
  BY <1>2, <1>3, <1>4

\* The parts of a request that is written with the right sizes fit.
LEMMA PartFitsIn ==
  ASSUME NEW x, IsProgramExchange(x), ~IsRefused(x), ~SizeIsWrong(x), DecimalsAreShort(x),
         SizesAreOk(x.request, x.descriptors), RequestWritable(x.request, x.descriptors),
         NEW i \in 1..Len(x.request.parts)
  PROVE  PartFits(x.request.parts[i], x.descriptors)
<1> DEFINE part == x.request.parts[i]
           ds == x.descriptors
           ins == IterIn(x.descriptors)
<1>1. /\ IsProgramPart(part, ds) /\ PartAllowed(part, ds) /\ PartWritable(part, ds)
  <2>1. RequestAllowed(x.request, x.descriptors)
    BY NotRefusedIsAllowed DEF IsProgramExchange
  <2> QED
    BY <2>1 DEF IsProgramExchange, IsProgramRequest, RequestAllowed, RequestWritable
<1>2. BodySizeIsOk(part, ds)
  <2>1. IsSeq(x.request.parts)
    BY DEF IsProgramExchange, IsProgramRequest
  <2>2. i \in DOMAIN x.request.parts
    BY <2>1, SeqFacts
  <2> QED
    BY <2>2 DEF SizesAreOk
<1>3. ASSUME part.kind = "Parameters", NEW k \in 1..Len(part.rows)
      PROVE  SendsRow(part.rows[k], ins)
  <2> DEFINE row == part.rows[k]
  <2>1. RowAllowed(row, ins) /\ RowWritable(row, ins)
    BY <1>1, <1>3 DEF PartAllowed, PartWritable, RowsWritable
  <2>2. RowSizeIsOk(row, ds)
    <3>1. IsSeq(part.rows)
      BY <1>1, <1>3 DEF PartAllowed
    <3>2. k \in DOMAIN part.rows
      BY <3>1, <1>3, SeqFacts
    <3> QED
      BY <1>2, <1>3, <3>2 DEF BodySizeIsOk
  <2>3. IsWithin(row, RowsOf(x.request)) /\ IsSeq(row)
    BY <1>3, PartIsFine
  <2> HIDE DEF row
  <2>4. /\ \A j \in 1..Len(row) : ~Overflows(row[j], ins[j], {"FIXED12"})
        /\ \A j \in 1..Len(row) :
                row[j].t = "DECIMAL" /\ ins[j].type = "DECIMAL" /\ FromBigdecimal(row[j].v).ok
                    => IsShort(row[j].v)
    BY <2>3, RowIsFine
  <2>5. ASSUME NEW j \in 1..Len(row) PROVE Sends(row[j], ins[j])
    <3>1. Suits(row[j], ins[j])
      BY <2>1, <2>2, RowSuits
    <3>2. IsWritable(row[j], ins[j])
      BY <2>1 DEF RowWritable
    <3>3. EmitValue(row[j], ins[j]).ok
      BY <3>1, <3>2, ValueSucceeds
    <3> QED
      BY <2>4, <3>1, <3>3, ValueSends
  <2>6. IsSeq(ins) /\ Len(row) = Len(ins)
    BY <2>1 DEF RowAllowed
  <2>7. SendsRow(row, ins)
    BY <2>3, <2>5, <2>6 DEF SendsRow
  <2> QED
    BY <2>7 DEF row
<1>4. ASSUME part.kind = "Authentication" PROVE AreFields(part.fields)
  <2>1. IsSeq(part.fields)
    BY <1>1, <1>4 DEF IsProgramPart
  <2>2. ASSUME NEW k \in 1..Len(part.fields) PROVE IsBytes(part.fields[k]) /\ part.fields[k][2] <= 250
    <3>1. IsWithin(part.fields[k], AuthFieldsOf(x)) /\ IsBytes(part.fields[k])
      BY <1>4, PartIsFine
    <3> QED
      BY <3>1, FieldIsFine
  <2> HIDE DEF part
  <2> QED
    BY <2>1, <2>2 DEF AreFields
<1>5. part.kind = "Parameters" => IsSeq(part.rows)
  BY <1>1 DEF IsProgramPart
<1> HIDE DEF part, ds
<1>6. PartFits(part, ds)
  <2>1. part.kind = "Parameters" =>
           IsSeq(part.rows) /\ \A k \in 1..Len(part.rows) : SendsRow(part.rows[k], IterIn(ds))
    BY <1>3, <1>5 DEF ds
  <2> QED
    BY <1>1, <1>4, <2>1 DEF IsProgramPart, PartFits
<1> QED
  BY <1>6 DEF part, ds

\* A request that is written, without numbers that are too big and fields that
\* are too long, is one that the database can take.
LEMMA WhatIsWrittenFits ==
  ASSUME NEW x, IsProgramExchange(x), ~IsRefused(x), ~SizeIsWrong(x), DecimalsAreShort(x),
         NEW n, Written(x, n).ok
  PROVE  RequestFits(x.request, x.descriptors)
<1> DEFINE r == x.request
           ds == x.descriptors
<1>1. RequestAllowed(r, ds)
  BY NotRefusedIsAllowed DEF IsProgramExchange
<1>2. Written(x, n) = Emit(r, 7, n, TRUE, ds)
  BY DEF Written
<1>3. SizesAreOk(r, ds) /\ RequestWritable(r, ds)
  <2> HIDE DEF r, ds
  <2>1. Emit(r, 7, n, TRUE, ds).ok <=> SizesAreOk(r, ds) /\ RequestWritable(r, ds)
    BY <1>1, RequestSucceeds
  <2> QED
    BY <1>2, <2>1
<1>4. \A i \in 1..Len(r.parts) : PartFits(r.parts[i], ds)
  BY <1>3, PartFitsIn
<1>5. IsSeq(r.parts)
  BY DEF IsProgramExchange, IsProgramRequest
<1> QED
  BY <1>4, <1>5 DEF RequestFits
-----------------------------------------------------------------------------
IsFine(v) == v = Err \/ (IsValue(v) /\ v.t # "LOBSTREAM_NONE")

\* A converted number is a value that can be written.
LEMMA NumbersAreFine ==
  ASSUME NEW t \in Numbered \ {"BOOLEAN"}, NEW n \in Int
  PROVE  IsFine(Value(t, <<n>>))
<1> DEFINE val == Value(t, <<n>>)
<1>1. val.t = t /\ val.v = <<n>> /\ val.v[1] = n
  BY DEF Value
<1>2. t \in {"TINYINT", "SMALLINT", "INT", "BIGINT", "REAL", "DOUBLE",
             "LONGDATE", "SECONDDATE", "DAYDATE", "SECONDTIME"}
  BY TypesAre DEF Numbered
<1> HIDE DEF val
<1>3. IsValue(val)
  BY <1>1, <1>2 DEF IsValue, Binaries
<1> QED
  BY <1>1, <1>2, <1>3 DEF IsFine, val

\* So is a decimal ...
LEMMA DecimalsAreFine ==
  ASSUME NEW n \in Int
  PROVE  IsFine(Value("DECIMAL", <<n, 0>>))
<1> DEFINE val == Value("DECIMAL", <<n, 0>>)
<1>1. val.t = "DECIMAL" /\ val.v[1] = n /\ val.v[2] = 0
  BY DEF Value
<1> HIDE DEF val
<1>2. IsValue(val)
  BY <1>1, TypesAre DEF IsValue, Binaries, Numbered
<1> QED
  BY <1>1, <1>2 DEF IsFine, val

\* ... and a text, or bytes.
LEMMA BytesAreFine ==
  ASSUME NEW t \in Binaries, NEW b, IsBytes(b)
  PROVE  IsFine(Value(t, b))
<1> DEFINE val == Value(t, b)
<1>1. val.t = t /\ val.v = b
  BY DEF Value
<1>2. t \in {"STR", "STRING", "BINARY", "GEOMETRY", "POINT"}
  BY DEF Binaries
<1> HIDE DEF val
<1>3. IsValue(val)
  BY <1>1, <1>2, TypesAre DEF IsValue, Numbered, Binaries
<1> QED
  BY <1>1, <1>2, <1>3 DEF IsFine, val

\* The text of a number has a length.
LEMMA TextOfNumber ==
  ASSUME NEW n \in Int
  PROVE  IsBytes(NumberText(n))
<1> DEFINE l == IF n < 0 \/ n > 9 THEN 2 ELSE 1
           b == NumberText(n)
<1>1. b = <<600 + n, l>> /\ l \in Nat /\ l # 0
  BY DEF NumberText
<1>2. b[1] = 600 + n /\ b[2] = l
  BY <1>1
<1> HIDE DEF l, b
<1>3. b = <<b[1], b[2]>>
  BY <1>1, <1>2
<1> QED
  BY <1>1, <1>2, <1>3 DEF IsBytes, b

\* A conversion may fail.
LEMMA ErrIsFine == IsFine(Err)
<1> QED
  BY DEF IsFine

\* What an integer is converted to, for any type of the parameter, can be written.
LEMMA IntsAreFine ==
  ASSUME NEW type, NEW n \in Int, NEW d, IsColumn(d)
  PROVE  IsFine(FromInt(type, n, d))
<1> DEFINE v == FromInt(type, n, d)
           A == IF InInt(Repr[d.type], n) THEN Value(d.type, <<n>>) ELSE Err
           B == Value("DECIMAL", <<n, 0>>)
           C == Value("STRING", NumberText(n))
           D == IF IsDayDate(n) THEN Value(d.type, <<n>>) ELSE Err
           E == IF IsSecondTime(n) THEN Value(d.type, <<n>>) ELSE Err
           F == Value(d.type, <<n>>)
<1>1. v = CASE d.type \in IntTypes -> A
            [] d.type \in DecTypes -> B
            [] d.type \in TextTypes -> C
            [] type = "i32" /\ d.type = "DAYDATE" -> D
            [] type = "i32" /\ d.type = "SECONDTIME" -> E
            [] type = "i64" /\ d.type \in {"LONGDATE", "SECONDDATE"} -> F
            [] OTHER -> Err
  BY DEF FromInt
<1>2. d.type \in Numbered \ {"BOOLEAN"} => IsFine(F)
  BY NumbersAreFine
<1>3. d.type \in IntTypes => IsFine(A)
  BY <1>2, ErrIsFine, TypesAre DEF Numbered
<1>4. IsFine(B)
  BY DecimalsAreFine
<1>5. IsFine(C)
  BY BytesAreFine, TextOfNumber DEF Binaries
<1>6. d.type = "DAYDATE" => IsFine(D)
  BY <1>2, ErrIsFine, TypesAre DEF Numbered
<1>7. d.type = "SECONDTIME" => IsFine(E)
  BY <1>2, ErrIsFine, TypesAre DEF Numbered
<1>8. d.type \in {"LONGDATE", "SECONDDATE"} => IsFine(F)
  BY <1>2, TypesAre DEF Numbered
<1> HIDE DEF v, A, B, C, D, E, F
<1>9. \/ v = A /\ d.type \in IntTypes
      \/ v = B \/ v = C
      \/ v = D /\ d.type = "DAYDATE"
      \/ v = E /\ d.type = "SECONDTIME"
      \/ v = F /\ d.type \in {"LONGDATE", "SECONDDATE"}
      \/ v = Err
  BY <1>1
<1>10. IsFine(v)
  BY <1>3, <1>4, <1>5, <1>6, <1>7, <1>8, <1>9, ErrIsFine
<1> QED
  BY <1>10 DEF v

\* So can what a float is converted to, ...
LEMMA FloatsAreFine ==
  ASSUME NEW type, NEW n \in Int, NEW d, IsColumn(d)
  PROVE  IsFine(FromFloat(type, n, d))
<1> DEFINE v == FromFloat(type, n, d)
           B == Value("DECIMAL", <<n, 0>>)
           C == Value("STRING", NumberText(n))
           F == Value(d.type, <<n>>)
<1>1. v = CASE d.type = (IF type = "f32" THEN "REAL" ELSE "DOUBLE") -> F
            [] d.type \in DecTypes -> B
            [] d.type \in TextTypes -> C
            [] OTHER -> Err
  BY DEF FromFloat
<1>2. d.type \in {"REAL", "DOUBLE"} => IsFine(F)
  BY NumbersAreFine DEF Numbered
<1>3. IsFine(B)
  BY DecimalsAreFine
<1>4. IsFine(C)
  BY BytesAreFine, TextOfNumber DEF Binaries
<1> HIDE DEF v, B, C, F
<1>5. \/ v = F /\ d.type \in {"REAL", "DOUBLE"}
      \/ v = B \/ v = C \/ v = Err
  BY <1>1
<1>6. IsFine(v)
  BY <1>2, <1>3, <1>4, <1>5, ErrIsFine
<1> QED
  BY <1>6 DEF v

\* ... a text, ...
LEMMA TextsAreFine ==
  ASSUME NEW text, IsBytes(text), NEW d, IsColumn(d)
  PROVE  IsFine(FromStr(text, d))
<1> DEFINE n == text[1] - 600
           v == FromStr(text, d)
           A == IF IsNumberText(text[1]) /\ InInt(Repr[d.type], n) THEN Value(d.type, <<n>>) ELSE Err
           B == IF IsNumberText(text[1]) THEN Value(d.type, <<n>>) ELSE Err
           C == IF IsNumberText(text[1]) THEN Value("DECIMAL", <<n, 0>>) ELSE Err
           D == Value("STRING", text)
<1>1. v = CASE d.type \in IntTypes -> A
            [] d.type \in {"REAL", "DOUBLE"} -> B
            [] d.type \in DecTypes -> C
            [] d.type \in StringTypes -> D
            [] OTHER -> Err
  BY DEF FromStr
<1>2. IsNumberText(text[1]) => n \in Int
  BY DEF IsNumberText
<1>3. IsNumberText(text[1]) /\ d.type \in Numbered \ {"BOOLEAN"} => IsFine(Value(d.type, <<n>>))
  <2> HIDE DEF n
  <2> QED
    BY <1>2, NumbersAreFine
<1>4. d.type \in IntTypes => IsFine(A)
  <2> HIDE DEF n
  <2> QED
    BY <1>3, ErrIsFine, TypesAre DEF Numbered
<1>5. d.type \in {"REAL", "DOUBLE"} => IsFine(B)
  <2> HIDE DEF n
  <2> QED
    BY <1>3, ErrIsFine DEF Numbered
<1>6. IsFine(C)
  <2> HIDE DEF n
  <2> QED
    BY <1>2, DecimalsAreFine, ErrIsFine
<1>7. IsFine(D)
  BY BytesAreFine DEF Binaries
<1> HIDE DEF v, A, B, C, D
<1>8. \/ v = A /\ d.type \in IntTypes
      \/ v = B /\ d.type \in {"REAL", "DOUBLE"}
      \/ v = C \/ v = D \/ v = Err
  BY <1>1
<1>9. IsFine(v)
  BY <1>4, <1>5, <1>6, <1>7, <1>8, ErrIsFine
<1> QED
  BY <1>9 DEF v

\* ... bytes ...
LEMMA BinariesAreFine ==
  ASSUME NEW bytes, IsBytes(bytes), NEW d, IsColumn(d)
  PROVE  IsFine(FromBytes(bytes, d))
<1> DEFINE v == FromBytes(bytes, d)
           A == Value("BINARY", bytes)
           B == Value(d.type, bytes)
           C == Value("STRING", bytes)
<1>1. v = CASE d.type \in {"BLOB", "BLOCATOR", "BINARY", "VARBINARY"} -> A
            [] d.type \in {"GEOMETRY", "POINT"} -> B
            [] d.type = "NCLOB" /\ bytes[1] % 2 = 0 -> C
            [] OTHER -> Err
  BY DEF FromBytes
<1>2. IsFine(A) /\ IsFine(C)
  BY BytesAreFine DEF Binaries
<1>3. d.type \in {"GEOMETRY", "POINT"} => IsFine(B)
  BY BytesAreFine DEF Binaries
<1> HIDE DEF v, A, B, C
<1>4. v = A \/ (v = B /\ d.type \in {"GEOMETRY", "POINT"}) \/ v = C \/ v = Err
  <2> DEFINE odd == bytes[1] % 2 = 0
  <2> HIDE DEF odd
  <2>1. v = CASE d.type \in {"BLOB", "BLOCATOR", "BINARY", "VARBINARY"} -> A
              [] d.type \in {"GEOMETRY", "POINT"} -> B
              [] d.type = "NCLOB" /\ odd -> C
              [] OTHER -> Err
    BY <1>1 DEF odd
  <2> QED
    BY <2>1
<1>5. IsFine(v)
  BY <1>2, <1>3, <1>4, ErrIsFine
<1> QED
  BY <1>5 DEF v

\* ... and a boolean.
LEMMA BooleansAreFine ==
  ASSUME NEW v, v = <<v[1]>>, v[1] \in {0, 1}
  PROVE  IsFine(Value("BOOLEAN", v))
<1> DEFINE val == Value("BOOLEAN", v)
<1>1. val.t = "BOOLEAN" /\ val.v = v
  BY DEF Value
<1> HIDE DEF val
<1>2. IsValue(val)
  BY <1>1, TypesAre DEF IsValue, Binaries, Numbered
<1> QED
  BY <1>1, <1>2 DEF IsFine, val

\* Whatever a program gives is converted to a value that can be written, or to an error.
LEMMA GivenIsFine ==
  ASSUME NEW p, IsGiven(p), NEW d, IsColumn(d)
  PROVE  IsFine(ValueOf(p, d))
<1> DEFINE v == Ser(p, d)
           Ints == {"i8", "i16", "i32", "i64", "u8", "u16", "u32", "u64"}
           A == FromInt(p.t, p.v[1], d)
           B == IF d.type \in IntTypes \cup {"BOOLEAN"} THEN Value("BOOLEAN", p.v) ELSE Err
           C == FromFloat(p.t, p.v[1], d)
           D == IF d.type \in CharTypes THEN Value("STRING", p.v) ELSE Err
           E == FromStr(p.v, d)
           F == FromBytes(p.v, d)
           G == IF d.nullable THEN NULL ELSE Err
<1>1. DOMAIN IntBits = Ints
  BY DEF IntBits
<1>2. v = CASE p.t \in Ints -> A
            [] p.t = "bool" -> B
            [] p.t \in {"f32", "f64"} -> C
            [] p.t = "char" -> D
            [] p.t = "str" -> E
            [] p.t = "bytes" -> F
            [] p.t = "none" -> G
  BY <1>1 DEF Ser
<1>3. ValueOf(p, d) = IF p.t \in Ints \cup {"bool", "f32", "f64", "str", "datetime", "bytes", "char", "none"}
                      THEN v ELSE p
  BY <1>1 DEF ValueOf, ProgramTypes
<1>4. /\ p.t \in Ints \cup {"f32", "f64"} => p.v[1] \in Int
      /\ p.t = "bool" => p.v = <<p.v[1]>> /\ p.v[1] \in {0, 1}
      /\ p.t \in {"char", "str", "bytes"} => IsBytes(p.v)
      /\ p.t \notin Ints \cup {"bool", "f32", "f64", "str", "bytes", "char", "none"} =>
            IsValue(p) /\ p.t # "LOBSTREAM_NONE"
      /\ p.t # "datetime"
  BY <1>1, TypesAre DEF IsGiven, IsValue, Numbered, Binaries, LobVariants
<1>5. p.t \in Ints => IsFine(A)
  BY <1>4, IntsAreFine
<1>6. p.t = "bool" => IsFine(B)
  BY <1>4, BooleansAreFine, ErrIsFine
<1>7. p.t \in {"f32", "f64"} => IsFine(C)
  BY <1>4, FloatsAreFine
<1>8. p.t = "char" => IsFine(D)
  BY <1>4, BytesAreFine, ErrIsFine DEF Binaries
<1>9. p.t = "str" => IsFine(E)
  BY <1>4, TextsAreFine
<1>10. p.t = "bytes" => IsFine(F)
  BY <1>4, BinariesAreFine
<1>11. IsFine(G)
  <2> DEFINE val == NULL
  <2>1. val.t = "NULL"
    BY DEF NULL
  <2> HIDE DEF val
  <2>2. IsValue(val)
    BY <2>1, TypesAre DEF IsValue, Binaries, Numbered
  <2>3. IsFine(val)
    BY <2>1, <2>2 DEF IsFine
  <2> QED
    BY <2>3, ErrIsFine DEF val
<1> HIDE DEF v, A, B, C, D, E, F, G
<1>12. p.t \in Ints \cup {"bool", "f32", "f64", "str", "bytes", "char", "none"} => IsFine(v)
  BY <1>2, <1>5, <1>6, <1>7, <1>8, <1>9, <1>10, <1>11
<1> QED
  BY <1>3, <1>4, <1>12 DEF IsFine
-----------------------------------------------------------------------------
\* The descriptors of a statement's only parameter.
LEMMA OneColumn ==
  ASSUME NEW d, d.dir \in {"IN", "INOUT"}
  PROVE  IterIn(<<d>>) = <<d>>
<1> DEFINE ds == <<d>>
           P == {i \in DOMAIN ds : ds[i].dir \in {"IN", "INOUT"}}
<1>1. IterIn(ds) = Kept(ds, P)
  BY DEF IterIn, OfDirection
<1>2. 1 \in P
  BY OneIsSeq
<1> HIDE DEF P
<1>3. Kept(<<d>>, P) = <<d>>
  BY <1>2, KeptOne
<1> QED
  BY <1>1, <1>3

\* One element joined with another.
LEMMA OneAndOne ==
  ASSUME NEW a, NEW b
  PROVE  <<a>> \o <<b>> = <<a, b>>
<1> DEFINE s == <<a>> \o <<b>>
           t == <<a, b>>
<1>1. <<a>> \in Seq({a, b}) /\ <<b>> \in Seq({a, b}) /\ Len(<<a>>) = 1 /\ Len(<<b>>) = 1
  OBVIOUS
<1>2. s \in Seq({a, b}) /\ Len(s) = 2
  BY <1>1
<1>3. s[1] = a /\ s[2] = b
  BY <1>1
<1>4. IsSeq(t) /\ Len(t) = 2 /\ t[1] = a /\ t[2] = b
  BY TwoAre
<1> HIDE DEF s, t
<1>5. IsSeq(s)
  BY <1>2, SeqIs
<1>6. Len(s) = Len(t) /\ \A i \in 1..Len(s) : s[i] = t[i]
  BY <1>2, <1>3, <1>4
<1>7. s = t
  BY <1>4, <1>5, <1>6, SameSeq
<1> QED
  BY <1>7 DEF s, t

\* The request of an echo is one that a program can ask for.
LEMMA EchoIsProgram ==
  ASSUME NEW e, IsEcho(e)
  PROVE  IsProgramExchange(EchoExchange(e))
<1> DEFINE d == e.column
           val == ValueOf(e.given, d)
           row == <<val>>
           rows == <<row>>
           a == NumberPart("StatementId", 5)
           b == [kind |-> "Parameters", rows |-> rows]
           parts == <<a, b>>
           r == Execute(5, rows, FALSE)
           x == EchoExchange(e)
<1>1. x.request = r /\ x.descriptors = <<d>>
  BY DEF EchoExchange
<1>2. IsSeq(rows) /\ Len(rows) = 1 /\ rows[1] = row
  BY OneIsSeq
<1>3. IsSeq(row) /\ Len(row) = 1 /\ row[1] = val
  BY OneIsSeq
<1>4. IsFine(val) /\ IsColumn(d) /\ d.dir \in {"IN", "INOUT"}
  BY GivenIsFine DEF IsEcho
<1>5. IterIn(<<d>>) = <<d>> /\ IsSeq(<<d>>) /\ Len(<<d>>) = 1 /\ <<d>>[1] = d
  BY <1>4, OneColumn, OneIsSeq
<1>6. rows # <<>>
  BY <1>2
<1> HIDE DEF val
<1>7. IsProgramRow(row, IterIn(<<d>>))
  BY <1>3, <1>4, <1>5 DEF IsProgramRow, IsFine
<1>8. b.kind = "Parameters" /\ b.rows = rows /\ a.kind = "StatementId"
  BY DEF NumberPart
<1>9. r.type = "Execute" /\ r.parts = parts
  <2> DEFINE ps == (<<a>> \o <<b>>) \o <<>>
  <2> HIDE DEF rows
  <2>1. r.type = "Execute" /\ r.parts = ps
    BY <1>6 DEF Execute, New
  <2> HIDE DEF a, b, r
  <2>2. ps = <<a, b>>
    <3> DEFINE t == <<a, b>>
    <3>1. <<a>> \o <<b>> = t
      BY OneAndOne
    <3>2. IsSeq(t)
      BY TwoAre
    <3> HIDE DEF t
    <3>3. t \o <<>> = t
      BY <3>2, NothingJoined
    <3> QED
      BY <3>1, <3>3 DEF t
  <2> HIDE DEF ps
  <2> QED
    BY <2>1, <2>2
<1>10. IsSeq(parts) /\ Len(parts) = 2 /\ parts[1] = a /\ parts[2] = b
  <2> HIDE DEF a, b
  <2> QED
    BY TwoAre
<1> HIDE DEF rows, a, b, r, x, row, parts, d
<1>11. IsProgramPart(b, <<d>>)
  <2>1. \A i \in 1..Len(rows) : IsProgramRow(rows[i], IterIn(<<d>>))
    BY <1>2, <1>7
  <2> QED
    BY <1>2, <1>8, <2>1 DEF IsProgramPart, OptionKinds, OtherKinds
<1>12. IsProgramPart(a, <<d>>)
  BY <1>8 DEF IsProgramPart, OptionKinds, OtherKinds
<1>13. \A i \in 1..Len(parts) : IsProgramPart(parts[i], <<d>>)
  BY <1>10, <1>11, <1>12
<1>14. r.type \in DOMAIN RequestType
  BY <1>9 DEF RequestType
<1>15. IsProgramRequest(r, <<d>>)
  BY <1>9, <1>10, <1>13, <1>14 DEF IsProgramRequest
<1> QED
  BY <1>1, <1>15 DEF IsProgramExchange, x

\* What may be exchanged.
Exchanges == {TalkExchange(Talks[i]) : i \in DOMAIN Talks \cup Probes} \cup {EchoExchange(e) : e \in Echoes}

\* So is every request.
LEMMA ExchangesAreProgram == \A x \in Exchanges : IsProgramExchange(x)
<1>1. ASSUME NEW e \in Echoes PROVE IsProgramExchange(EchoExchange(e))
  BY EchoesAssumption, EchoIsProgram
<1>2. ASSUME NEW i \in DOMAIN Talks \cup Probes PROVE IsProgramExchange(TalkExchange(Talks[i]))
  <2> DEFINE x == TalkExchange(Talks[i])
  <2>1. x.request = Talks[i].request /\ x.descriptors = Talks[i].descriptors
    BY DEF TalkExchange
  <2> HIDE DEF x
  <2>2. IsProgramExchange(x)
    BY <2>1, TalksAssumption DEF IsProgramExchange
  <2> QED
    BY <2>2 DEF x
<1> QED
  BY <1>1, <1>2 DEF Exchanges

\* No decimal of a program needs the bit of the mantissa that is overwritten.
ShortDecimals == \A x \in Exchanges : DecimalsAreShort(x)

\* As long as the stream is clean, a request that was sent is the one that is
\* in the stream, and the one that was taken is what the request was.
ArrivalInv ==
    clean => /\ phase # "broken"
             /\ phase = "idle" => toServer = <<>>
             /\ phase = "sent" => /\ RequestFits(exchange.request, exchange.descriptors)
                                  /\ toServer = Written(exchange, count).in
             /\ phase = "served" => /\ RequestFits(exchange.request, exchange.descriptors)
                                    /\ toServer = <<>>
                                    /\ taken = <<AsTaken(exchange.request, exchange.descriptors, count)>>

\* What was written of a request that fits is taken for it, to the last byte.
LEMMA WrittenIsTaken ==
  ASSUME NEW x, RequestFits(x.request, x.descriptors), NEW n
  PROVE  /\ IsStream(Written(x, n).in)
         /\ TakeRequest(IterIn(x.descriptors), Written(x, n).in)
               = Done(AsTaken(x.request, x.descriptors, n), <<>>)
<1> DEFINE w == Written(x, n)
           r == x.request
           ds == x.descriptors
           ins == IterIn(ds)
           session == 7
           q == AsTaken(r, ds, n)
<1>1. w = Emit(r, session, n, TRUE, ds)
  BY DEF Written
<1> HIDE DEF w, r, ds, session
<1>2. PICK b : GoesThrough(Emit(r, session, n, TRUE, ds), ds, q, b)
  <2>1. RequestFits(r, ds)
    BY DEF r, ds
  <2> QED
    BY <2>1, RequestIsTaken
<1> HIDE DEF q
<1>3. /\ w = Done(<<>>, b) /\ IsStream(b)
      /\ \A s : IsStream(s) => TakeRequest(ins, b \o s) = Done(q, s)
  BY <1>1, <1>2 DEF GoesThrough
<1> HIDE DEF ins
<1>4. w.in = b
  BY <1>3 DEF Done
<1>5. TakeRequest(ins, b \o <<>>) = Done(q, <<>>)
  BY <1>3, StreamNothing
<1>6. b \o <<>> = b
  <2>1. IsSeq(b)
    BY <1>3 DEF IsStream
  <2> QED
    BY <2>1, NothingJoined
<1> QED
  BY <1>3, <1>4, <1>5, <1>6 DEF w, ins, q, r, ds

\* The invariant holds at first.
LEMMA WireStart == Init => ArrivalInv
<1> QED
  BY DEF Init, ArrivalInv

\* A request that is refused leaves the stream alone.
LEMMA RefuseKeeps ==
  ASSUME ArrivalInv, NEW x, Refuse(x)
  PROVE  ArrivalInv'
<1> QED
  BY DEF ArrivalInv, Refuse, Begin

\* So does one that cannot be written, unless it fails halfway.
LEMMA FailKeeps ==
  ASSUME ArrivalInv, NEW x, IsProgramExchange(x), FailToSend(x)
  PROVE  ArrivalInv'
<1> DEFINE w == Written(x, count + 1)
<1>1. /\ phase = "idle" /\ phase' = "idle" /\ clean' = (clean /\ ~FailsHalfway(x)) /\ ~IsRefused(x)
      /\ ~w.ok /\ toServer' = toServer \o w.in
  BY DEF FailToSend, Begin
<1>2. ASSUME clean' PROVE toServer' = <<>>
  <2>1. toServer = <<>>
    BY <1>1, <1>2 DEF ArrivalInv
  <2>2. w.in = <<>>
    BY <1>1, <1>2, NothingIsLeft
  <2> HIDE DEF w
  <2> QED
    BY <1>1, <2>1, <2>2
<1> QED
  BY <1>1, <1>2 DEF ArrivalInv

\* A request that is written is the only thing in the stream, and fits.
LEMMA SendKeeps ==
  ASSUME ArrivalInv, NEW x, IsProgramExchange(x), DecimalsAreShort(x), Send(x)
  PROVE  ArrivalInv'
<1> DEFINE w == Written(x, count + 1)
           r == x.request
           ds == x.descriptors
<1>1. /\ phase = "idle" /\ phase' = "sent" /\ clean' = (clean /\ ~SizeIsWrong(x)) /\ ~IsRefused(x)
      /\ w.ok /\ toServer' = toServer \o w.in /\ exchange' = x /\ count' = count + 1
  BY DEF Send, Begin
<1>2. ASSUME clean' PROVE RequestFits(r, ds) /\ toServer' = w.in
  <2>1. toServer = <<>>
    BY <1>1, <1>2 DEF ArrivalInv
  <2>2. RequestFits(r, ds)
    BY <1>1, <1>2, WhatIsWrittenFits
  <2>3. IsStream(w.in)
    BY <2>2, WrittenIsTaken
  <2>4. <<>> \o w.in = w.in
    BY <2>3, NothingJoined DEF IsStream
  <2> HIDE DEF w, r, ds
  <2> QED
    BY <1>1, <2>1, <2>2, <2>4
<1>3. Written(exchange, count)' = w
  BY <1>1 DEF Written
<1> QED
  BY <1>1, <1>2, <1>3 DEF ArrivalInv

\* The database takes all of it, and never closes the connection.
LEMMA ServeKeeps ==
  ASSUME ArrivalInv, Serve
  PROVE  ArrivalInv'
<1> DEFINE request == exchange.request
           ds == exchange.descriptors
           r == TakeRequest(IterIn(ds), toServer)
<1>1. /\ phase = "sent" /\ clean' = clean /\ exchange' = exchange /\ count' = count
      /\ toServer' = r.in
      /\ r.ok => phase' = "served" /\ taken' = <<r.v>>
      /\ ~r.ok => phase' = "broken"
  BY DEF Serve
<1>2. ASSUME clean PROVE r = Done(AsTaken(request, ds, count), <<>>) /\ RequestFits(request, ds)
  <2>1. RequestFits(request, ds) /\ toServer = Written(exchange, count).in
    BY <1>1, <1>2 DEF ArrivalInv
  <2>2. TakeRequest(IterIn(ds), Written(exchange, count).in) = Done(AsTaken(request, ds, count), <<>>)
    BY <2>1, WrittenIsTaken
  <2> QED
    BY <2>1, <2>2
<1> HIDE DEF r
<1>3. ASSUME clean PROVE /\ phase' = "served" /\ toServer' = <<>>
                         /\ taken' = <<AsTaken(request, ds, count)>>
  BY <1>1, <1>2, <1>3 DEF Done
<1> QED
  BY <1>1, <1>2, <1>3 DEF ArrivalInv

\* The client reads from the other stream.
LEMMA ReceiveKeeps ==
  ASSUME ArrivalInv, Receive
  PROVE  ArrivalInv'
<1> QED
  BY DEF ArrivalInv, Receive

\* Every step keeps the invariant.
LEMMA WireKept ==
  ASSUME ShortDecimals, ArrivalInv, [Next]_vars
  PROVE  ArrivalInv'
<1>1. CASE \E e \in Echoes : \E x \in {EchoExchange(e)} : Refuse(x) \/ FailToSend(x) \/ Send(x)
  <2>1. PICK e \in Echoes : \E x \in {EchoExchange(e)} : Refuse(x) \/ FailToSend(x) \/ Send(x)
    BY <1>1
  <2> DEFINE x == EchoExchange(e)
  <2>2. x \in Exchanges
    BY DEF Exchanges
  <2>3. Refuse(x) \/ FailToSend(x) \/ Send(x)
    BY <2>1
  <2> HIDE DEF x
  <2>4. IsProgramExchange(x) /\ DecimalsAreShort(x)
    BY <2>2, ExchangesAreProgram DEF ShortDecimals
  <2> QED
    BY <2>3, <2>4, RefuseKeeps, FailKeeps, SendKeeps
<1>2. CASE \E i \in DOMAIN Talks \cup Probes :
             LET x == TalkExchange(Talks[i]) IN Refuse(x) \/ FailToSend(x) \/ Send(x)
  <2>1. PICK i \in DOMAIN Talks \cup Probes :
             LET x == TalkExchange(Talks[i]) IN Refuse(x) \/ FailToSend(x) \/ Send(x)
    BY <1>2
  <2> DEFINE x == TalkExchange(Talks[i])
  <2>2. x \in Exchanges
    BY DEF Exchanges
  <2>3. Refuse(x) \/ FailToSend(x) \/ Send(x)
    BY <2>1
  <2> HIDE DEF x
  <2>4. IsProgramExchange(x) /\ DecimalsAreShort(x)
    BY <2>2, ExchangesAreProgram DEF ShortDecimals
  <2> QED
    BY <2>3, <2>4, RefuseKeeps, FailKeeps, SendKeeps
<1>3. CASE Serve
  BY <1>3, ServeKeeps
<1>4. CASE Receive
  BY <1>4, ReceiveKeeps
<1>5. CASE UNCHANGED vars
  <2>1. Written(exchange, count)' = Written(exchange, count)
    BY <1>5 DEF vars, Written
  <2> QED
    BY <1>5, <2>1 DEF vars, ArrivalInv
<1>6. Next => \/ \E e \in Echoes : \E x \in {EchoExchange(e)} : Refuse(x) \/ FailToSend(x) \/ Send(x)
              \/ \E i \in DOMAIN Talks \cup Probes :
                    LET x == TalkExchange(Talks[i]) IN Refuse(x) \/ FailToSend(x) \/ Send(x)
              \/ Serve
              \/ Receive
  BY DEF Next
<1> QED
  BY <1>1, <1>2, <1>3, <1>4, <1>5, <1>6

\* The invariant says that requests arrive.
LEMMA ArrivalInvArrives ==
  ASSUME ArrivalInv
  PROVE  RequestsArrive
<1> SUFFICES ASSUME clean, phase \in {"served", "broken"}
             PROVE  LET r == exchange.request IN
                    /\ phase = "served" /\ toServer = << >>
                    /\ taken[1].type = RequestType[r.type] /\ taken[1].seq = count /\ taken[1].commit = 1
                    /\ Len(taken[1].parts) = Len(r.parts)
                    /\ \A i \in DOMAIN r.parts :
                           /\ taken[1].parts[i].kind = PartKind[r.parts[i].kind]
                           /\ Understood(r.parts[i], taken[1].parts[i].is, exchange.descriptors)
  BY DEF RequestsArrive
<1> DEFINE r == exchange.request
           ds == exchange.descriptors
           q == AsTaken(r, ds, count)
<1>1. phase = "served" /\ RequestFits(r, ds) /\ toServer = <<>> /\ taken = <<q>>
  BY DEF ArrivalInv
<1>2. taken[1] = q
  <2> HIDE DEF q
  <2> QED
    BY <1>1
<1> HIDE DEF r, ds
<1>3. /\ q.seq = count /\ q.type = RequestType[r.type] /\ q.commit = 1
      /\ Len(q.parts) = Len(r.parts)
      /\ \A i \in DOMAIN r.parts : /\ q.parts[i].kind = PartKind[r.parts[i].kind]
                                   /\ Understood(r.parts[i], q.parts[i].is, ds)
  BY <1>1, AsTakenIs
<1> HIDE DEF q
<1> QED
  BY <1>1, <1>2, <1>3 DEF r, ds

\* So it always holds.
LEMMA ArrivalInvHolds ==
  ASSUME ShortDecimals
  PROVE  Spec => []ArrivalInv
<1>1. ArrivalInv /\ [Next]_vars => ArrivalInv'
  BY WireKept
<1> QED
  BY WireStart, <1>1, PTL DEF Spec

\* RESULT (Request::emit, Part::size and emit, HdbValue::size and emit): whatever
\* is asked for, the database never closes the connection, and what it takes by
\* the sizes in the headers is what the client meant, if no decimal needs the bit
\* that its exponent overwrites.
THEOREM AllRequestsArrive ==
  ASSUME ShortDecimals
  PROVE  Spec => []RequestsArrive
<1>1. ArrivalInv => RequestsArrive
  BY ArrivalInvArrives
<1> QED
  BY ArrivalInvHolds, <1>1, PTL
=============================================================================
