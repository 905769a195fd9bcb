---------------------------- MODULE ValueProofs ----------------------------
(***************************************************************************)
(* What is written is what is taken: sequences and streams of fields, their*)
(* widths, powers of ten and decimals, and the values of parameters.  Every*)
(* value that the client writes for a column is taken by the database for  *)
(* what it is, has as many bytes as announced, and leaves what is behind it.*)
(***************************************************************************)
EXTENDS Wire, TextProofs
-----------------------------------------------------------------------------
(* Sequences, whatever their elements are.                                 *)

\* A sequence over any set is a sequence.
LEMMA SeqIs ==
  ASSUME NEW V, NEW s \in Seq(V)
  PROVE  IsSeq(s) /\ Elements(s) \subseteq V
<1>1. /\ Len(s) \in Nat /\ s \in [1..Len(s) -> V] /\ DOMAIN s = 1..Len(s)
  BY LenProperties
<1>2. \A i \in 1..Len(s) : s[i] \in Elements(s) /\ s[i] \in V
  BY <1>1 DEF Elements
<1>3. s \in [1..Len(s) -> Elements(s)]
  BY <1>1, <1>2
<1>4. s \in Seq(Elements(s))
  BY <1>1, <1>3, SeqDef
<1> QED
  BY <1>1, <1>2, <1>4 DEF IsSeq, Elements

\* A function on the first numbers.
LEMMA FunctionIs ==
  ASSUME NEW n \in Nat, NEW V, NEW s \in [1..n -> V]
  PROVE  IsSeq(s) /\ Len(s) = n /\ s \in Seq(V)
<1>1. s \in Seq(V)
  BY SeqDef
<1>2. Len(s) \in Nat /\ DOMAIN s = 1..Len(s) /\ DOMAIN s = 1..n
  BY <1>1, LenProperties
<1>3. Len(s) = n
  BY <1>2
<1> QED
  BY <1>1, <1>3, SeqIs

\* What is known of a sequence whose elements are not.
LEMMA SeqFacts ==
  ASSUME NEW s, IsSeq(s)
  PROVE  /\ Len(s) \in Nat /\ DOMAIN s = 1..Len(s) /\ s = [i \in 1..Len(s) |-> s[i]]
         /\ s \in Seq(Elements(s)) /\ (s = <<>> <=> Len(s) = 0)
<1>1. s \in Seq(Elements(s))
  BY DEF IsSeq
<1>2. Len(s) \in Nat /\ DOMAIN s = 1..Len(s) /\ s \in [1..Len(s) -> Elements(s)]
  BY <1>1, LenProperties
<1>3. s = <<>> <=> Len(s) = 0
  BY <1>1, EmptySeq
<1> QED
  BY <1>1, <1>2, <1>3

\* Two sequences of the same length with the same elements are one.
LEMMA SameSeq ==
  ASSUME NEW s, IsSeq(s), NEW t, IsSeq(t), Len(s) = Len(t), \A i \in 1..Len(s) : s[i] = t[i]
  PROVE  s = t
<1>1. s = [i \in 1..Len(s) |-> s[i]] /\ t = [i \in 1..Len(t) |-> t[i]]
  BY SeqFacts
<1> QED
  BY <1>1

\* The empty sequence is one.
LEMMA EmptyIsSeq == IsSeq(<<>>) /\ Len(<<>>) = 0
<1> QED
  BY EmptySeq, SeqIs

\* One element is a sequence.
LEMMA OneIsSeq == \A x : IsSeq(<<x>>) /\ Len(<<x>>) = 1 /\ <<x>>[1] = x
<1> SUFFICES ASSUME NEW x PROVE IsSeq(<<x>>) /\ Len(<<x>>) = 1 /\ <<x>>[1] = x
  OBVIOUS
<1>1. <<x>> \in Seq({x})
  OBVIOUS
<1> QED
  BY <1>1, SeqIs

\* Two sequences are sequences over one set.
LEMMA Together ==
  ASSUME NEW a, IsSeq(a), NEW b, IsSeq(b)
  PROVE  LET V == Elements(a) \cup Elements(b) IN a \in Seq(V) /\ b \in Seq(V)
<1> DEFINE V == Elements(a) \cup Elements(b)
<1>1. a \in Seq(Elements(a)) /\ b \in Seq(Elements(b)) /\ Elements(a) \subseteq V /\ Elements(b) \subseteq V
  BY DEF IsSeq
<1> HIDE DEF V
<1>2. a \in Seq(V) /\ b \in Seq(V)
  BY <1>1, SeqMonotonic
<1> QED
  BY <1>2 DEF V

\* r is p and then q.
AreJoined(r, p, q) ==
    /\ IsSeq(r) /\ Len(r) = Len(p) + Len(q) /\ Len(p) \in Nat /\ Len(q) \in Nat
    /\ \A i \in 1..Len(p) : r[i] = p[i]
    /\ \A i \in 1..Len(q) : r[Len(p) + i] = q[i]

\* What is joined of two sequences.
LEMMA ConcatSeq ==
  ASSUME NEW a, IsSeq(a), NEW b, IsSeq(b)
  PROVE  AreJoined(a \o b, a, b)
<1> DEFINE V == Elements(a) \cup Elements(b)
           r == a \o b
<1>1. a \in Seq(V) /\ b \in Seq(V)
  BY Together
<1> HIDE DEF V
<1>2. /\ r \in Seq(V) /\ Len(r) = Len(a) + Len(b)
      /\ \A i \in 1 .. Len(a) + Len(b) : r[i] = IF i <= Len(a) THEN a[i] ELSE b[i - Len(a)]
      /\ Len(a) \in Nat /\ Len(b) \in Nat
  BY <1>1, ConcatProperties, LenProperties
<1> HIDE DEF r
<1>3. IsSeq(r)
  BY <1>2, SeqIs
<1>4. \A i \in 1..Len(a) : r[i] = a[i]
  BY <1>2
<1>5. ASSUME NEW i \in 1..Len(b) PROVE r[Len(a) + i] = b[i]
  <2>1. Len(a) + i \in 1 .. Len(a) + Len(b) /\ ~(Len(a) + i <= Len(a)) /\ Len(a) + i - Len(a) = i
    BY <1>2
  <2> QED
    BY <1>2, <2>1
<1>6. AreJoined(r, a, b)
  BY <1>2, <1>3, <1>4, <1>5 DEF AreJoined
<1> QED
  BY <1>6 DEF r

\* It does not matter where joining begins.
LEMMA Joined ==
  ASSUME NEW a, IsSeq(a), NEW b, IsSeq(b), NEW c, IsSeq(c)
  PROVE  (a \o b) \o c = a \o (b \o c)
<1> DEFINE V == Elements(a) \cup Elements(b) \cup Elements(c)
<1>1. /\ a \in Seq(Elements(a)) /\ b \in Seq(Elements(b)) /\ c \in Seq(Elements(c))
      /\ Elements(a) \subseteq V /\ Elements(b) \subseteq V /\ Elements(c) \subseteq V
  BY DEF IsSeq
<1> HIDE DEF V
<1>2. a \in Seq(V) /\ b \in Seq(V) /\ c \in Seq(V)
  BY <1>1, SeqMonotonic
<1> QED
  BY <1>2, ConcatAssociative, SMTT(60)

\* Nothing can be joined with anything.
LEMMA NothingJoined ==
  ASSUME NEW a, IsSeq(a)
  PROVE  a \o <<>> = a /\ <<>> \o a = a
<1> QED
  BY ConcatEmptySeq DEF IsSeq

\* What was joined can be cut apart.
LEMMA CutApart ==
  ASSUME NEW a, IsSeq(a), NEW b, IsSeq(b)
  PROVE  /\ SubSeq(a \o b, 1, Len(a)) = a
         /\ SubSeq(a \o b, Len(a) + 1, Len(a \o b)) = b
<1>1. /\ IsSeq(a \o b) /\ Len(a \o b) = Len(a) + Len(b)
      /\ \A i \in 1..Len(a) : (a \o b)[i] = a[i]
      /\ \A i \in 1..Len(b) : (a \o b)[Len(a) + i] = b[i]
      /\ Len(a) \in Nat /\ Len(b) \in Nat
  <2>1. AreJoined(a \o b, a, b)
    BY ConcatSeq
  <2> QED
    BY <2>1 DEF AreJoined
<1> DEFINE s == a \o b
           V == Elements(s)
           p == SubSeq(s, 1, Len(a))
           q == SubSeq(s, Len(a) + 1, Len(s))
<1>2. s \in Seq(V)
  BY <1>1 DEF IsSeq
<1>3. \A i \in 1..Len(s) : s[i] \in V
  BY <1>2, ElementOfSeq
<1> HIDE DEF V
<1>4. /\ p \in Seq(V) /\ Len(p) = IF 1 <= Len(a) THEN Len(a) - 1 + 1 ELSE 0
      /\ \A i \in 1..Len(a) - 1 + 1 : p[i] = s[1 + i - 1]
  <2>1. \A i \in 1..Len(a) : s[i] \in V
    BY <1>1, <1>3
  <2>2. 1 \in Int /\ Len(a) \in Int
    BY <1>1
  <2> HIDE DEF s
  <2> QED
    BY <2>1, <2>2, SubSeqProperties
<1>5. /\ q \in Seq(V) /\ Len(q) = IF Len(a) + 1 <= Len(s) THEN Len(s) - (Len(a) + 1) + 1 ELSE 0
      /\ \A i \in 1..Len(s) - (Len(a) + 1) + 1 : q[i] = s[Len(a) + 1 + i - 1]
  <2>1. \A i \in Len(a) + 1..Len(s) : s[i] \in V
    BY <1>1, <1>3
  <2>2. Len(a) + 1 \in Int /\ Len(s) \in Int
    BY <1>1
  <2> HIDE DEF s
  <2> QED
    BY <2>1, <2>2, SubSeqProperties
<1>6. Len(p) = Len(a) /\ \A i \in 1..Len(p) : p[i] = a[i]
  BY <1>1, <1>4
<1>7. Len(q) = Len(b) /\ \A i \in 1..Len(q) : q[i] = b[i]
  BY <1>1, <1>5
<1>8. IsSeq(p) /\ IsSeq(q)
  BY <1>4, <1>5, SeqIs
<1> HIDE DEF p, q
<1>9. p = a
  BY <1>6, <1>8, SameSeq
<1>10. q = b
  BY <1>7, <1>8, SameSeq
<1> QED
  BY <1>9, <1>10 DEF p, q

\* One element before a sequence is its head, and the sequence its tail.
LEMMA FirstAndRest ==
  ASSUME NEW x, NEW s, IsSeq(s)
  PROVE  <<x>> \o s # <<>> /\ Head(<<x>> \o s) = x /\ Tail(<<x>> \o s) = s
<1> DEFINE t == <<x>> \o s
<1>1. /\ IsSeq(t) /\ Len(t) = 1 + Len(s) /\ t[1] = x /\ Len(s) \in Nat
      /\ \A i \in 1..Len(s) : t[1 + i] = s[i]
  <2>1. IsSeq(<<x>>) /\ Len(<<x>>) = 1 /\ <<x>>[1] = x
    BY OneIsSeq
  <2> DEFINE o == <<x>>
  <2> HIDE DEF o
  <2>2. /\ IsSeq(o \o s) /\ Len(o \o s) = Len(o) + Len(s)
        /\ \A i \in 1..Len(o) : (o \o s)[i] = o[i]
        /\ \A i \in 1..Len(s) : (o \o s)[Len(o) + i] = s[i]
        /\ Len(s) \in Nat
    <3>1. IsSeq(o)
      BY <2>1 DEF o
    <3>2. AreJoined(o \o s, o, s)
      BY <3>1, ConcatSeq
    <3> QED
      BY <3>2 DEF AreJoined
  <2>3. Len(o) = 1 /\ o[1] = x
    BY <2>1 DEF o
  <2>4. (o \o s)[1] = x
    BY <2>2, <2>3
  <2> QED
    BY <2>2, <2>3, <2>4 DEF o
<1> HIDE DEF t
<1>2. t # <<>> /\ t \in Seq(Elements(t))
  BY <1>1, SeqFacts
<1>3. Tail(t) \in Seq(Elements(t)) /\ Len(Tail(t)) = Len(t) - 1 /\ \A i \in 1..Len(Tail(t)) : Tail(t)[i] = t[i + 1]
  BY <1>2, HeadTailProperties
<1>4. Head(t) = t[1]
  BY <1>2
<1>5. Len(Tail(t)) = Len(s) /\ \A i \in 1..Len(Tail(t)) : Tail(t)[i] = s[i]
  BY <1>1, <1>3
<1>6. Tail(t) = s
  BY <1>3, <1>5, SeqIs, SameSeq
<1> QED
  BY <1>1, <1>2, <1>4, <1>6 DEF t
-----------------------------------------------------------------------------
(* Sums.                                                                   *)
Numbers(s) == IsSeq(s) /\ \A i \in 1..Len(s) : s[i] \in Nat

Sums(s, f) == f = [i \in 0..Len(s) |-> IF i = 0 THEN 0 ELSE f[i - 1] + s[i]]

\* There is a function of the sums of the first numbers of a sequence.
LEMMA SumsExist ==
  ASSUME NEW s, Numbers(s)
  PROVE  \E f \in [0..Len(s) -> Nat] : Sums(s, f)
<1> DEFINE n == Len(s)
           Good(k, f) == f \in [0..k -> Nat] /\ f = [i \in 0..k |-> IF i = 0 THEN 0 ELSE f[i - 1] + s[i]]
           T == {k \in Nat : k <= n => \E f : Good(k, f)}
<1>1. n \in Nat /\ \A i \in 1..n : s[i] \in Nat
  BY SeqFacts DEF Numbers
<1> HIDE DEF n
<1>2. 0 \in T
  <2> DEFINE f == [i \in 0..0 |-> 0]
  <2>1. Good(0, f)
    OBVIOUS
  <2> QED
    BY <2>1
<1>3. ASSUME NEW k \in Nat, k \in T PROVE k + 1 \in T
  <2> SUFFICES ASSUME k + 1 <= n PROVE \E f : Good(k + 1, f)
    OBVIOUS
  <2>1. PICK f : Good(k, f)
    BY <1>1, <1>3
  <2> DEFINE g == [i \in 0..(k + 1) |-> IF i <= k THEN f[i] ELSE f[k] + s[k + 1]]
  <2>2. f[k] \in Nat /\ s[k + 1] \in Nat /\ \A i \in 0..k : f[i] \in Nat
    BY <1>1, <2>1
  <2>3. g \in [0..(k + 1) -> Nat]
    BY <2>2
  <2>4. ASSUME NEW i \in 0..(k + 1) PROVE g[i] = IF i = 0 THEN 0 ELSE g[i - 1] + s[i]
    <3>1. CASE i = 0
      BY <2>1, <3>1
    <3>2. CASE i \in 1..k
      <4>1. f[i] = f[i - 1] + s[i]
        BY <2>1, <3>2
      <4> QED
        BY <3>2, <4>1
    <3>3. CASE i = k + 1
      BY <3>3
    <3> QED
      BY <3>1, <3>2, <3>3
  <2>5. Good(k + 1, g)
    <3>1. g = [i \in 0..(k + 1) |-> g[i]]
      OBVIOUS
    <3> HIDE DEF g
    <3> QED
      BY <2>3, <2>4, <3>1
  <2> QED
    BY <2>5
<1> HIDE DEF T
<1>4. n \in T
  BY <1>1, <1>2, <1>3, AllNumbers
<1>5. PICK f : Good(n, f)
  BY <1>1, <1>4 DEF T
<1> QED
  BY <1>5 DEF n, Sums

SumsTo(n, s, f) == \A i \in 0..n : f[i] = IF i = 0 THEN 0 ELSE f[i - 1] + s[i]
AreSame(n, s, t) == \A i \in 1..n : s[i] = t[i]

\* Two functions of sums of the same numbers agree.
LEMMA SumsSame ==
  ASSUME NEW n \in Nat, NEW s, NEW t, NEW f, NEW g,
         AreSame(n, s, t), SumsTo(n, s, f), SumsTo(n, t, g)
  PROVE  f[n] = g[n]
<1> DEFINE T == {k \in Nat : k <= n => f[k] = g[k]}
<1>1. 0 \in T
  BY DEF SumsTo
<1>2. ASSUME NEW k \in Nat, k \in T PROVE k + 1 \in T
  <2> SUFFICES ASSUME k + 1 <= n PROVE f[k + 1] = g[k + 1]
    OBVIOUS
  <2>1. f[k] = g[k]
    BY <1>2
  <2>2. k + 1 \in 0..n /\ k + 1 # 0 /\ k + 1 \in 1..n /\ k + 1 - 1 = k
    OBVIOUS
  <2>3. /\ f[k + 1] = f[k] + s[k + 1] /\ g[k + 1] = g[k] + t[k + 1]
        /\ s[k + 1] = t[k + 1]
    BY <2>2 DEF SumsTo, AreSame
  <2> QED
    BY <2>1, <2>3
<1> HIDE DEF T
<1>3. Nat \subseteq T
  BY <1>1, <1>2, AllNumbers
<1> QED
  BY <1>3 DEF T

\* Total is what any function of the sums has in the end.
LEMMA TotalIs ==
  ASSUME NEW s, Numbers(s), NEW f, Sums(s, f)
  PROVE  Total(s) = f[Len(s)]
<1> DEFINE g == CHOOSE g : g = [i \in 0..Len(s) |-> IF i = 0 THEN 0 ELSE g[i - 1] + s[i]]
<1>1. Total(s) = g[Len(s)]
  BY Zenon DEF Total
<1>2. \E k : k = [i \in 0..Len(s) |-> IF i = 0 THEN 0 ELSE k[i - 1] + s[i]]
  BY Zenon DEF Sums
<1>3. g = [i \in 0..Len(s) |-> IF i = 0 THEN 0 ELSE g[i - 1] + s[i]]
  BY <1>2, Zenon
<1> HIDE DEF g
<1>4. Len(s) \in Nat
  BY SeqFacts DEF Numbers
<1>5. SumsTo(Len(s), s, g)
  BY <1>3 DEF SumsTo
<1>6. SumsTo(Len(s), s, f)
  BY DEF Sums, SumsTo
<1>8. AreSame(Len(s), s, s)
  BY DEF AreSame
<1>7. g[Len(s)] = f[Len(s)]
  BY <1>4, <1>5, <1>6, <1>8, SumsSame
<1> QED
  BY <1>1, <1>7

\* The sum of naturals is one.
LEMMA TotalNat ==
  ASSUME NEW s, Numbers(s)
  PROVE  Total(s) \in Nat
<1>1. PICK f \in [0..Len(s) -> Nat] : Sums(s, f)
  BY SumsExist
<1>2. Len(s) \in Nat
  BY SeqFacts DEF Numbers
<1>3. Total(s) = f[Len(s)]
  BY <1>1, TotalIs
<1> QED
  BY <1>1, <1>2, <1>3

\* The sum of nothing is 0.
LEMMA TotalEmpty == Total(<<>>) = 0
<1>1. Numbers(<<>>) /\ Len(<<>>) = 0
  BY EmptyIsSeq DEF Numbers
<1>2. PICK f \in [0..Len(<<>>) -> Nat] : Sums(<<>>, f)
  BY <1>1, SumsExist
<1>3. Total(<<>>) = f[0]
  BY <1>1, <1>2, TotalIs
<1>4. f[0] = 0
  BY <1>1, <1>2 DEF Sums
<1> QED
  BY <1>3, <1>4

\* One number more, in whichever sequence.
LEMMA TotalMore ==
  ASSUME NEW s, Numbers(s), NEW t, Numbers(t), Len(t) = Len(s) + 1,
         \A i \in 1..Len(s) : t[i] = s[i]
  PROVE  Total(t) = Total(s) + t[Len(t)]
<1>1. PICK f \in [0..Len(s) -> Nat] : Sums(s, f)
  BY SumsExist
<1>2. PICK g \in [0..Len(t) -> Nat] : Sums(t, g)
  BY SumsExist
<1>3. Total(s) = f[Len(s)] /\ Total(t) = g[Len(t)]
  BY <1>1, <1>2, TotalIs
<1>4. Len(s) \in Nat
  BY SeqFacts DEF Numbers
<1>5. SumsTo(Len(s), s, f)
  BY <1>1 DEF Sums, SumsTo
<1>6. \A i \in 0..Len(t) : g[i] = IF i = 0 THEN 0 ELSE g[i - 1] + t[i]
  BY <1>2 DEF Sums
<1>7. f[Len(s)] = g[Len(s)]
  <2>1. AreSame(Len(s), s, t)
    BY DEF AreSame
  <2>2. SumsTo(Len(s), t, g)
    BY <1>4, <1>6 DEF SumsTo
  <2> QED
    BY <1>4, <1>5, <2>1, <2>2, SumsSame
<1>8. g[Len(t)] = g[Len(s)] + t[Len(t)]
  <2>1. Len(t) \in 0..Len(t) /\ Len(t) # 0 /\ Len(t) - 1 = Len(s)
    BY <1>4
  <2> QED
    BY <1>6, <2>1
<1> QED
  BY <1>3, <1>7, <1>8

\* What is appended is the last element, and the others stay.
LEMMA AppendSeq ==
  ASSUME NEW s, IsSeq(s), NEW x
  PROVE  /\ IsSeq(Append(s, x)) /\ Len(Append(s, x)) = Len(s) + 1
         /\ \A i \in 1..Len(s) : Append(s, x)[i] = s[i]
         /\ Append(s, x)[Len(s) + 1] = x
         /\ Append(s, x) = s \o <<x>>
<1> DEFINE V == Elements(s) \cup {x}
<1>1. s \in Seq(Elements(s)) /\ Elements(s) \subseteq V /\ x \in V
  BY DEF IsSeq
<1> HIDE DEF V
<1>2. s \in Seq(V)
  BY <1>1, SeqMonotonic
<1>3. /\ Append(s, x) \in Seq(V) /\ Len(Append(s, x)) = Len(s) + 1
      /\ \A i \in 1..Len(s) : Append(s, x)[i] = s[i]
      /\ Append(s, x)[Len(s) + 1] = x
  BY <1>1, <1>2, AppendProperties
<1>4. Append(s, x) = s \o <<x>>
  BY <1>1, <1>2, AppendIsConcat
<1> QED
  BY <1>3, <1>4, SeqIs

\* One more number is added to the sum.
LEMMA TotalAppend ==
  ASSUME NEW s, Numbers(s), NEW n \in Nat
  PROVE  Numbers(Append(s, n)) /\ Total(Append(s, n)) = Total(s) + n
<1> DEFINE t == Append(s, n)
<1>1. /\ IsSeq(t) /\ Len(t) = Len(s) + 1 /\ (\A i \in 1..Len(s) : t[i] = s[i]) /\ t[Len(s) + 1] = n
      /\ Len(s) \in Nat
  <2>1. IsSeq(s)
    BY DEF Numbers
  <2>2. Len(s) \in Nat
    BY <2>1, SeqFacts
  <2>3. /\ IsSeq(Append(s, n)) /\ Len(Append(s, n)) = Len(s) + 1
        /\ \A i \in 1..Len(s) : Append(s, n)[i] = s[i]
        /\ Append(s, n)[Len(s) + 1] = n
    BY <2>1, AppendSeq, ZenonT(60)
  <2> QED
    BY <2>2, <2>3
<1> HIDE DEF t
<1>2. \A i \in 1..Len(t) : t[i] \in Nat
  BY <1>1 DEF Numbers
<1>3. Numbers(t)
  BY <1>1, <1>2 DEF Numbers
<1>4. Total(t) = Total(s) + t[Len(t)]
  BY <1>1, <1>3, TotalMore
<1> QED
  BY <1>1, <1>3, <1>4 DEF t

\* The sum of two sequences is the sum of their sums.
LEMMA TotalConcat ==
  ASSUME NEW s, Numbers(s), NEW t, Numbers(t)
  PROVE  Numbers(s \o t) /\ Total(s \o t) = Total(s) + Total(t)
<1> DEFINE Q == {q \in Seq(Nat) : Numbers(s \o q) /\ Total(s \o q) = Total(s) + Total(q)}
<1>0. s \in Seq(Nat) /\ t \in Seq(Nat) /\ \A q \in Seq(Nat) : Numbers(q)
  <2>1. \A q : Numbers(q) => q \in Seq(Nat)
    <3> SUFFICES ASSUME NEW q, Numbers(q) PROVE q \in Seq(Nat)
      OBVIOUS
    <3>1. Len(q) \in Nat /\ q = [i \in 1..Len(q) |-> q[i]] /\ \A i \in 1..Len(q) : q[i] \in Nat
      BY SeqFacts DEF Numbers
    <3>2. q \in [1..Len(q) -> Nat]
      BY <3>1
    <3> QED
      BY <3>1, <3>2, FunctionIs
  <2>2. ASSUME NEW q \in Seq(Nat) PROVE Numbers(q)
    BY <2>2, SeqIs, ElementOfSeq DEF Numbers
  <2> QED
    BY <2>1, <2>2
<1>1. <<>> \in Q
  <2>1. s \o <<>> = s
    BY NothingJoined DEF Numbers
  <2>2. <<>> \in Seq(Nat)
    BY EmptySeq
  <2>3. Total(s) \in Nat
    BY TotalNat
  <2> QED
    BY <2>1, <2>2, <2>3, TotalEmpty
<1>2. ASSUME NEW q \in Seq(Nat), NEW n \in Nat, q \in Q PROVE Append(q, n) \in Q
  <2>1. Numbers(q) /\ Numbers(s \o q) /\ Total(s \o q) = Total(s) + Total(q)
    BY <1>0, <1>2
  <2>2. Append(q, n) \in Seq(Nat)
    BY AppendProperties
  <2>3. Total(Append(q, n)) = Total(q) + n
    BY <2>1, TotalAppend
  <2>4. Numbers(Append(s \o q, n)) /\ Total(Append(s \o q, n)) = Total(s \o q) + n
    BY <2>1, TotalAppend
  <2>5. s \o Append(q, n) = Append(s \o q, n)
    <3>1. IsSeq(q) /\ IsSeq(s) /\ IsSeq(s \o q) /\ IsSeq(<<n>>)
      BY <2>1, OneIsSeq DEF Numbers
    <3>2. Append(q, n) = q \o <<n>> /\ Append(s \o q, n) = (s \o q) \o <<n>>
      BY <3>1, AppendSeq
    <3> DEFINE o == <<n>>
    <3> HIDE DEF o
    <3>4. IsSeq(o)
      BY <3>1 DEF o
    <3>3. (s \o q) \o o = s \o (q \o o)
      BY <3>1, <3>4, Joined, SMTT(60)
    <3> QED
      BY <3>2, <3>3 DEF o
  <2>6. Total(s) \in Nat /\ Total(q) \in Nat
    BY <2>1, TotalNat
  <2> DEFINE p == Append(q, n)
  <2>7. p \in Seq(Nat) /\ Numbers(s \o p) /\ Total(s \o p) = Total(s \o q) + n /\ Total(p) = Total(q) + n
    BY <2>2, <2>3, <2>4, <2>5
  <2> HIDE DEF p
  <2>8. Total(s \o p) = Total(s) + Total(p)
    BY <2>1, <2>6, <2>7
  <2>9. p \in Q
    BY <2>7, <2>8
  <2> QED
    BY <2>9 DEF p
<1> HIDE DEF Q
<1>3. Seq(Nat) \subseteq Q
  BY <1>1, <1>2, AllSequences
<1>4. t \in Q
  BY <1>0, <1>3
<1> QED
  BY <1>4 DEF Q

\* The sum of one number is the number.
LEMMA TotalOne ==
  ASSUME NEW n \in Nat
  PROVE  Numbers(<<n>>) /\ Total(<<n>>) = n
<1>1. Numbers(<<>>)
  BY EmptyIsSeq DEF Numbers
<1>2. Numbers(Append(<<>>, n)) /\ Total(Append(<<>>, n)) = Total(<<>>) + n
  BY <1>1, TotalAppend
<1>3. Append(<<>>, n) = <<n>>
  OBVIOUS
<1> QED
  BY <1>2, <1>3, TotalEmpty
-----------------------------------------------------------------------------
(* Sequences of sequences.                                                 *)
IsSeqs(ss) == IsSeq(ss) /\ \A i \in 1..Len(ss) : IsSeq(ss[i])

\* A sequence of sequences is one over a set of sequences.
LEMMA SeqsOf ==
  ASSUME NEW ss, IsSeqs(ss)
  PROVE  \E T : ss \in Seq(Seq(T))
<1> DEFINE T == UNION {Elements(ss[i]) : i \in 1..Len(ss)}
<1>1. Len(ss) \in Nat /\ ss = [i \in 1..Len(ss) |-> ss[i]]
  BY SeqFacts DEF IsSeqs
<1>2. \A i \in 1..Len(ss) : ss[i] \in Seq(Elements(ss[i])) /\ Elements(ss[i]) \subseteq T
  BY DEF IsSeqs, IsSeq
<1> HIDE DEF T
<1>3. \A i \in 1..Len(ss) : ss[i] \in Seq(T)
  BY <1>2, SeqMonotonic
<1>4. ss \in [1..Len(ss) -> Seq(T)]
  BY <1>1, <1>3
<1>5. ss \in Seq(Seq(T))
  BY <1>1, <1>4, FunctionIs
<1> QED
  BY <1>5

\* And a sequence over a set of sequences is flattened to a sequence over their set.
LEMMA SeqsAre ==
  ASSUME NEW T, NEW ss \in Seq(Seq(T))
  PROVE  IsSeqs(ss) /\ IsSeq(Flat(ss)) /\ Flat(ss) \in Seq(T)
<1>1. \A i \in 1..Len(ss) : IsSeq(ss[i])
  BY ElementOfSeq, SeqIs
<1>2. IsSeqs(ss)
  BY <1>1, SeqIs DEF IsSeqs
<1>3. Flat(ss) \in Seq(T)
  BY FlatType DEF Flat
<1> QED
  BY <1>2, <1>3, SeqIs

\* What is flattened is a sequence.
LEMMA FlatSeq ==
  ASSUME NEW ss, IsSeqs(ss)
  PROVE  IsSeq(Flat(ss))
<1>1. PICK T : ss \in Seq(Seq(T))
  BY SeqsOf
<1> QED
  BY <1>1, SeqsAre

\* Of nothing, nothing is flattened.
LEMMA FlatNothing == Flat(<<>>) = <<>>
<1> QED
  BY FlatEmpty DEF Flat

\* What is flattened of two sequences is joined of what is flattened of each.
LEMMA FlatJoined ==
  ASSUME NEW ss, IsSeqs(ss), NEW tt, IsSeqs(tt)
  PROVE  /\ IsSeqs(ss \o tt) /\ Flat(ss \o tt) = Flat(ss) \o Flat(tt)
<1>1. PICK T : ss \in Seq(Seq(T))
  BY SeqsOf
<1>2. PICK U : tt \in Seq(Seq(U))
  BY SeqsOf
<1> DEFINE V == T \cup U
<1>3. Seq(T) \subseteq Seq(V) /\ Seq(U) \subseteq Seq(V)
  BY SeqMonotonic
<1> HIDE DEF V
<1>4. ss \in Seq(Seq(V)) /\ tt \in Seq(Seq(V))
  BY <1>1, <1>2, <1>3, SeqMonotonic
<1>5. ss \o tt \in Seq(Seq(V))
  BY <1>4, ConcatProperties
<1> QED
  BY <1>4, <1>5, FlatConcat, SeqsAre DEF Flat

\* One sequence is flattened to itself.
LEMMA FlatSingle ==
  ASSUME NEW s, IsSeq(s)
  PROVE  IsSeqs(<<s>>) /\ Flat(<<s>>) = s
<1>1. IsSeqs(<<s>>)
  <2>1. IsSeq(<<s>>) /\ Len(<<s>>) = 1 /\ <<s>>[1] = s
    BY OneIsSeq
  <2> QED
    BY <2>1 DEF IsSeqs
<1>2. s \in Seq(Elements(s))
  BY DEF IsSeq
<1> QED
  BY <1>1, <1>2, FlatOne DEF Flat

\* What follows the i-th of the sequences, and what comes before.
From(ss, i) == Flat([k \in 1..(Len(ss) - i) |-> ss[i + k]])
Upto(vs, i) == [k \in 1..i |-> vs[k]]

\* What is left of a sequence of sequences is one.
LEMMA PieceIs ==
  ASSUME NEW ss, IsSeqs(ss), NEW i \in 0..Len(ss)
  PROVE  LET t == [k \in 1..(Len(ss) - i) |-> ss[i + k]] IN IsSeqs(t) /\ Len(t) = Len(ss) - i
<1> DEFINE n == Len(ss) - i
           t == [k \in 1..n |-> ss[i + k]]
           V == {ss[k] : k \in 1..Len(ss)}
<1>1. Len(ss) \in Nat /\ \A k \in 1..Len(ss) : IsSeq(ss[k])
  BY SeqFacts DEF IsSeqs
<1>2. n \in Nat /\ \A k \in 1..n : i + k \in 1..Len(ss)
  BY <1>1
<1>3. t \in [1..n -> V] /\ \A k \in 1..n : t[k] = ss[i + k]
  BY <1>2
<1> HIDE DEF t, V
<1>4. IsSeq(t) /\ Len(t) = n
  BY <1>2, <1>3, FunctionIs
<1>5. \A k \in 1..Len(t) : IsSeq(t[k])
  BY <1>1, <1>2, <1>3, <1>4
<1> QED
  BY <1>4, <1>5 DEF IsSeqs, t

\* From the i-th sequence on, there is the i-th, and the rest.
LEMMA FromIs ==
  ASSUME NEW ss, IsSeqs(ss)
  PROVE  /\ From(ss, 0) = Flat(ss) /\ From(ss, Len(ss)) = <<>>
         /\ \A i \in 0..Len(ss) : IsSeq(From(ss, i))
         /\ \A i \in 1..Len(ss) : From(ss, i - 1) = ss[i] \o From(ss, i)
<1> DEFINE n == Len(ss)
           t(i) == [k \in 1..(n - i) |-> ss[i + k]]
<1>1. n \in Nat /\ (\A k \in 1..n : IsSeq(ss[k])) /\ ss = [i \in 1..n |-> ss[i]]
  BY SeqFacts DEF IsSeqs
<1>2. \A i \in 0..n : IsSeqs(t(i)) /\ Len(t(i)) = n - i
  BY PieceIs
<1>3. \A i \in 0..n : From(ss, i) = Flat(t(i))
  BY DEF From
<1>4. t(0) = ss
  <2>1. 1..(n - 0) = 1..n /\ \A k \in 1..n : 0 + k = k
    BY <1>1
  <2> QED
    BY <1>1, <2>1
<1>5. t(n) = <<>>
  <2>2. n \in 0..n /\ n - n = 0
    BY <1>1
  <2>1. IsSeqs(t(n)) /\ Len(t(n)) = 0
    <3> HIDE DEF t
    <3> QED
      BY <1>2, <2>2
  <2> HIDE DEF t
  <2> QED
    BY <2>1, SeqFacts DEF IsSeqs
<1>6. ASSUME NEW i \in 1..n PROVE From(ss, i - 1) = ss[i] \o From(ss, i)
  <2> DEFINE o == <<ss[i]>>
  <2>1. IsSeqs(t(i)) /\ Len(t(i)) = n - i /\ IsSeqs(t(i - 1)) /\ Len(t(i - 1)) = n - i + 1 /\ i - 1 \in 0..n /\ i \in 0..n
    BY <1>1, <1>2, SMTT(60)
  <2>2. IsSeqs(o) /\ Flat(o) = ss[i] /\ Len(o) = 1 /\ o[1] = ss[i]
    BY <1>1, FlatSingle, OneIsSeq
  <2>3. \A k \in 1..(n - i + 1) : t(i - 1)[k] = ss[i - 1 + k]
    BY <1>1
  <2>4. \A k \in 1..(n - i) : t(i)[k] = ss[i + k]
    BY <1>1
  <2> HIDE DEF t, o
  <2>5. t(i - 1) = o \o t(i)
    <3>1. /\ IsSeq(o \o t(i)) /\ Len(o \o t(i)) = n - i + 1
          /\ (o \o t(i))[1] = ss[i]
          /\ \A k \in 1..(n - i) : (o \o t(i))[1 + k] = t(i)[k]
      <4>1. IsSeq(o) /\ IsSeq(t(i))
        BY <2>1, <2>2 DEF IsSeqs
      <4>2. /\ IsSeq(o \o t(i)) /\ Len(o \o t(i)) = Len(o) + Len(t(i))
            /\ \A k \in 1..Len(o) : (o \o t(i))[k] = o[k]
            /\ \A k \in 1..Len(t(i)) : (o \o t(i))[Len(o) + k] = t(i)[k]
        <5>1. AreJoined(o \o t(i), o, t(i))
          BY <4>1, ConcatSeq
        <5> QED
          BY <5>1 DEF AreJoined
      <4> QED
        BY <1>1, <2>1, <2>2, <4>2
    <3>2. ASSUME NEW k \in 1..(n - i + 1) PROVE t(i - 1)[k] = (o \o t(i))[k]
      <4>1. CASE k = 1
        <5>1. 1 \in 1..(n - i + 1) /\ i - 1 + 1 = i
          BY <1>1
        <5>2. t(i - 1)[1] = ss[i]
          BY <2>3, <5>1
        <5> QED
          BY <3>1, <4>1, <5>2
      <4>2. CASE k # 1
        <5>1. k - 1 \in 1..(n - i) /\ 1 + (k - 1) = k /\ i + (k - 1) = i - 1 + k
          BY <1>1, <4>2
        <5>2. (o \o t(i))[k] = t(i)[k - 1]
          BY <3>1, <5>1
        <5>3. t(i)[k - 1] = ss[i + (k - 1)] /\ t(i - 1)[k] = ss[i - 1 + k]
          BY <2>3, <2>4, <5>1
        <5> QED
          BY <5>1, <5>2, <5>3
      <4> QED
        BY <4>1, <4>2
    <3>3. IsSeq(t(i - 1))
      BY <2>1 DEF IsSeqs
    <3> QED
      BY <2>1, <3>1, <3>2, <3>3, SameSeq
  <2>6. Flat(t(i - 1)) = Flat(o) \o Flat(t(i))
    BY <2>1, <2>2, <2>5, FlatJoined
  <2> QED
    BY <1>3, <2>1, <2>2, <2>6
<1>7. \A i \in 0..n : IsSeq(From(ss, i))
  BY <1>2, <1>3, FlatSeq
<1>8. From(ss, 0) = Flat(ss) /\ From(ss, n) = <<>>
  <2>1. 0 \in 0..n /\ n \in 0..n
    BY <1>1
  <2> QED
    BY <1>3, <1>4, <1>5, <2>1, FlatNothing
<1> QED
  BY <1>6, <1>7, <1>8

\* Up to the i-th element, there are those before, and the i-th.
LEMMA UptoIs ==
  ASSUME NEW vs, IsSeq(vs)
  PROVE  /\ Upto(vs, 0) = <<>> /\ Upto(vs, Len(vs)) = vs
         /\ \A i \in 0..Len(vs) : IsSeq(Upto(vs, i)) /\ Len(Upto(vs, i)) = i
         /\ \A i \in 1..Len(vs) : Append(Upto(vs, i - 1), vs[i]) = Upto(vs, i)
<1> DEFINE n == Len(vs)
<1>1. n \in Nat /\ vs = [i \in 1..n |-> vs[i]]
  BY SeqFacts
<1>2. ASSUME NEW i \in 0..n PROVE IsSeq(Upto(vs, i)) /\ Len(Upto(vs, i)) = i /\ \A k \in 1..i : Upto(vs, i)[k] = vs[k]
  <2>1. Upto(vs, i) \in [1..i -> {vs[k] : k \in 1..i}] /\ i \in Nat
    BY <1>1 DEF Upto
  <2>2. \A k \in 1..i : Upto(vs, i)[k] = vs[k]
    BY DEF Upto
  <2> QED
    BY <2>1, <2>2, FunctionIs
<1>3. ASSUME NEW i \in 1..n PROVE Append(Upto(vs, i - 1), vs[i]) = Upto(vs, i)
  <2> DEFINE u == Upto(vs, i - 1)
             a == Append(u, vs[i])
  <2>1. i - 1 \in 0..n /\ i \in 0..n
    BY <1>1
  <2>2. IsSeq(u) /\ Len(u) = i - 1 /\ \A k \in 1..(i - 1) : u[k] = vs[k]
    BY <1>2, <2>1
  <2> HIDE DEF u
  <2>3. IsSeq(a) /\ Len(a) = Len(u) + 1 /\ (\A k \in 1..Len(u) : a[k] = u[k]) /\ a[Len(u) + 1] = vs[i]
    BY <2>2, AppendSeq, ZenonT(60)
  <2> HIDE DEF a
  <2>4. Len(a) = i /\ \A k \in 1..i : a[k] = vs[k]
    BY <1>1, <2>2, <2>3
  <2> DEFINE b == Upto(vs, i)
  <2>5. IsSeq(b) /\ Len(b) = i /\ \A k \in 1..i : b[k] = vs[k]
    BY <1>2, <2>1
  <2> HIDE DEF b
  <2>6. a = b
    BY <2>3, <2>4, <2>5, SameSeq
  <2> QED
    BY <2>6 DEF a, b, u
<1>4. Upto(vs, n) = vs
  BY <1>1 DEF Upto
<1>5. Upto(vs, 0) = <<>>
  <2>1. IsSeq(Upto(vs, 0)) /\ Len(Upto(vs, 0)) = 0
    BY <1>1, <1>2
  <2> QED
    BY <2>1, SeqFacts
<1> QED
  BY <1>1, <1>2, <1>3, <1>4, <1>5
-----------------------------------------------------------------------------
(* Streams.                                                                *)
IsStream(s) == IsSeq(s) /\ \A i \in 1..Len(s) : s[i].w \in Nat \ {0}

\* Two streams are joined to one.
LEMMA StreamJoined ==
  ASSUME NEW a, IsStream(a), NEW b, IsStream(b)
  PROVE  IsStream(a \o b) /\ IsSeq(a) /\ IsSeq(b)
<1>1. IsSeq(a) /\ IsSeq(b)
  BY DEF IsStream
<1>2. /\ IsSeq(a \o b) /\ Len(a \o b) = Len(a) + Len(b)
      /\ \A i \in 1..Len(a) : (a \o b)[i] = a[i]
      /\ \A i \in 1..Len(b) : (a \o b)[Len(a) + i] = b[i]
      /\ Len(a) \in Nat /\ Len(b) \in Nat
  <2>1. AreJoined(a \o b, a, b)
    BY <1>1, ConcatSeq
  <2> QED
    BY <2>1 DEF AreJoined
<1>3. ASSUME NEW i \in 1..Len(a \o b) PROVE (a \o b)[i].w \in Nat \ {0}
  <2>1. CASE i <= Len(a)
    BY <1>2, <2>1 DEF IsStream
  <2>2. CASE i > Len(a)
    <3>1. i - Len(a) \in 1..Len(b) /\ i = Len(a) + (i - Len(a))
      BY <1>2, <2>2
    <3>2. (a \o b)[i] = b[i - Len(a)]
      BY <1>2, <3>1
    <3> QED
      BY <3>1, <3>2 DEF IsStream
  <2> QED
    BY <1>2, <2>1, <2>2
<1> QED
  BY <1>1, <1>2, <1>3 DEF IsStream

\* Nothing is a stream.
LEMMA StreamNothing == IsStream(<<>>)
<1> QED
  BY EmptyIsSeq DEF IsStream

\* One field is a stream, even that without a byte.
LEMMA PutStream ==
  ASSUME NEW w \in Nat, NEW v
  PROVE  IsStream(Put(w, v))
<1>1. CASE w = 0
  BY <1>1, StreamNothing DEF Put
<1>2. CASE w # 0
  <2> DEFINE f == [w |-> w, v |-> v]
  <2>1. f.w = w
    OBVIOUS
  <2> HIDE DEF f
  <2>2. IsSeq(<<f>>) /\ Len(<<f>>) = 1 /\ <<f>>[1] = f
    BY OneIsSeq
  <2>3. IsStream(<<f>>)
    BY <1>2, <2>1, <2>2 DEF IsStream
  <2> QED
    BY <1>2, <2>3 DEF Put, f
<1> QED
  BY <1>1, <1>2

\* The widths of fields that are there.
Widths(ws) == IsSeq(ws) /\ \A i \in 1..Len(ws) : ws[i] \in Nat \ {0}

\* The fields that are written at once, one by one.
LEMMA PutAllIs ==
  ASSUME NEW ws, Widths(ws), NEW vs
  PROVE  /\ IsStream(PutAll(ws, vs)) /\ Len(PutAll(ws, vs)) = Len(ws)
         /\ \A i \in 1..Len(ws) : PutAll(ws, vs)[i].w = ws[i] /\ PutAll(ws, vs)[i].v = vs[i]
<1> DEFINE n == Len(ws)
           V == {[w |-> ws[i], v |-> vs[i]] : i \in 1..n}
           s == PutAll(ws, vs)
<1>1. n \in Nat /\ DOMAIN ws = 1..n
  BY SeqFacts DEF Widths
<1>2. s \in [1..n -> V] /\ \A i \in 1..n : s[i].w = ws[i] /\ s[i].v = vs[i]
  BY <1>1 DEF PutAll
<1> HIDE DEF s, V
<1>3. IsSeq(s) /\ Len(s) = n
  BY <1>1, <1>2, FunctionIs
<1> QED
  BY <1>2, <1>3 DEF IsStream, Widths, s

\* Streams are flattened to a stream.
LEMMA FlatStream ==
  ASSUME NEW ss, IsSeq(ss), \A i \in 1..Len(ss) : IsStream(ss[i])
  PROVE  IsStream(Flat(ss)) /\ IsSeqs(ss)
<1>1. IsSeqs(ss)
  BY DEF IsSeqs, IsStream
<1> DEFINE n == Len(ss)
           T == {k \in Nat : k <= n => IsStream(From(ss, n - k))}
<1>2. n \in Nat
  BY SeqFacts
<1>3. /\ From(ss, 0) = Flat(ss) /\ From(ss, n) = <<>>
      /\ \A i \in 1..n : From(ss, i - 1) = ss[i] \o From(ss, i)
  BY <1>1, FromIs
<1>4. 0 \in T
  <2>1. n - 0 = n
    BY <1>2
  <2> QED
    BY <1>3, <2>1, StreamNothing
<1>5. ASSUME NEW k \in Nat, k \in T PROVE k + 1 \in T
  <2> SUFFICES ASSUME k + 1 <= n PROVE IsStream(From(ss, n - (k + 1)))
    OBVIOUS
  <2>1. n - k \in 1..n /\ n - (k + 1) = n - k - 1 /\ k <= n
    BY <1>2
  <2>2. From(ss, n - k - 1) = ss[n - k] \o From(ss, n - k)
    BY <1>3, <2>1
  <2>3. IsStream(ss[n - k]) /\ IsStream(From(ss, n - k))
    BY <1>5, <2>1
  <2> QED
    BY <2>1, <2>2, <2>3, StreamJoined
<1> HIDE DEF T
<1>6. n \in T
  BY <1>2, <1>4, <1>5, AllNumbers
<1>7. n - n = 0 /\ n <= n
  BY <1>2
<1> QED
  BY <1>1, <1>3, <1>6, <1>7 DEF T
-----------------------------------------------------------------------------
(* Widths.                                                                 *)
WidthsOf(s) == [i \in DOMAIN s |-> s[i].w]

\* The width of a stream is the sum of the fields' widths.
LEMMA WidthsAre ==
  ASSUME NEW s, IsStream(s)
  PROVE  /\ Numbers(WidthsOf(s)) /\ Len(WidthsOf(s)) = Len(s) /\ Width(s) = Total(WidthsOf(s))
         /\ \A i \in 1..Len(s) : WidthsOf(s)[i] = s[i].w
<1>1. Len(s) \in Nat /\ DOMAIN s = 1..Len(s) /\ \A i \in 1..Len(s) : s[i].w \in Nat
  BY SeqFacts DEF IsStream
<1>2. WidthsOf(s) \in [1..Len(s) -> Nat] /\ \A i \in 1..Len(s) : WidthsOf(s)[i] = s[i].w
  BY <1>1 DEF WidthsOf
<1>3. IsSeq(WidthsOf(s)) /\ Len(WidthsOf(s)) = Len(s)
  BY <1>1, <1>2, FunctionIs
<1>4. Width(s) = Total(WidthsOf(s))
  BY DEF Width, WidthsOf
<1> QED
  BY <1>1, <1>2, <1>3, <1>4 DEF Numbers

\* The width of a stream is a number.
LEMMA WidthNat ==
  ASSUME NEW s, IsStream(s)
  PROVE  Width(s) \in Nat
<1> QED
  BY WidthsAre, TotalNat

\* Nothing has no bytes.
LEMMA WidthNothing == Width(<<>>) = 0
<1>1. IsStream(<<>>) /\ Len(<<>>) = 0
  BY StreamNothing, EmptyIsSeq
<1>2. IsSeq(WidthsOf(<<>>)) /\ Len(WidthsOf(<<>>)) = 0 /\ Width(<<>>) = Total(WidthsOf(<<>>))
  BY <1>1, WidthsAre DEF Numbers
<1>3. WidthsOf(<<>>) = <<>>
  BY <1>2, SeqFacts
<1> QED
  BY <1>2, <1>3, TotalEmpty

\* A field has the width it was given.
LEMMA WidthPut ==
  ASSUME NEW w \in Nat, NEW v
  PROVE  Width(Put(w, v)) = w
<1>1. CASE w = 0
  BY <1>1, WidthNothing DEF Put
<1>2. CASE w # 0
  <2> DEFINE s == Put(w, v)
             f == [w |-> w, v |-> v]
             ws == WidthsOf(s)
  <2>1. s = <<f>> /\ f.w = w
    BY <1>2 DEF Put
  <2>2. IsStream(s)
    BY PutStream
  <2> HIDE DEF s, f
  <2>3. Len(s) = 1 /\ s[1] = f
    BY <2>1, OneIsSeq
  <2>4. IsSeq(ws) /\ Len(ws) = 1 /\ ws[1] = w /\ Width(s) = Total(ws)
    <3>1. Numbers(ws) /\ Len(ws) = Len(s) /\ Width(s) = Total(ws) /\ \A i \in 1..Len(s) : ws[i] = s[i].w
      BY <2>2, WidthsAre
    <3> QED
      BY <2>1, <2>3, <3>1 DEF Numbers
  <2> HIDE DEF ws
  <2>5. ws = <<w>>
    <3>1. IsSeq(<<w>>) /\ Len(<<w>>) = 1 /\ <<w>>[1] = w
      BY OneIsSeq
    <3> DEFINE o == <<w>>
    <3>2. IsSeq(o) /\ Len(o) = 1 /\ o[1] = w
      BY <3>1
    <3> HIDE DEF o
    <3>3. ws = o
      BY <2>4, <3>2, SameSeq
    <3> QED
      BY <3>3 DEF o
  <2> QED
    BY <2>4, <2>5, TotalOne DEF s
<1> QED
  BY <1>1, <1>2

\* Fields have the sum of the widths they were given.
LEMMA WidthPutAll ==
  ASSUME NEW ws, Widths(ws), NEW vs
  PROVE  Width(PutAll(ws, vs)) = Total(ws)
<1> DEFINE s == PutAll(ws, vs)
<1>1. IsStream(s) /\ Len(s) = Len(ws) /\ \A i \in 1..Len(ws) : s[i].w = ws[i]
  BY PutAllIs
<1> HIDE DEF s
<1>2. Numbers(WidthsOf(s)) /\ Len(WidthsOf(s)) = Len(s) /\ Width(s) = Total(WidthsOf(s))
      /\ \A i \in 1..Len(s) : WidthsOf(s)[i] = s[i].w
  BY <1>1, WidthsAre
<1>3. WidthsOf(s) = ws
  BY <1>1, <1>2, SameSeq DEF Numbers, Widths
<1> QED
  BY <1>2, <1>3 DEF s

\* The widths of two streams add up.
LEMMA WidthJoined ==
  ASSUME NEW a, IsStream(a), NEW b, IsStream(b)
  PROVE  Width(a \o b) = Width(a) + Width(b)
<1> DEFINE c == a \o b
           p == WidthsOf(a)
           q == WidthsOf(b)
           r == WidthsOf(c)
<1>1. IsStream(c) /\ IsSeq(a) /\ IsSeq(b)
  BY StreamJoined
<1>2. /\ Len(c) = Len(a) + Len(b)
      /\ \A i \in 1..Len(a) : c[i] = a[i]
      /\ \A i \in 1..Len(b) : c[Len(a) + i] = b[i]
      /\ Len(a) \in Nat /\ Len(b) \in Nat
  <2>1. AreJoined(a \o b, a, b)
    BY <1>1, ConcatSeq
  <2> QED
    BY <2>1 DEF AreJoined
<1> HIDE DEF c
<1>3. Numbers(p) /\ Len(p) = Len(a) /\ Width(a) = Total(p) /\ \A i \in 1..Len(a) : p[i] = a[i].w
  BY WidthsAre
<1>4. Numbers(q) /\ Len(q) = Len(b) /\ Width(b) = Total(q) /\ \A i \in 1..Len(b) : q[i] = b[i].w
  BY WidthsAre
<1>5. Numbers(r) /\ Len(r) = Len(c) /\ Width(c) = Total(r) /\ \A i \in 1..Len(c) : r[i] = c[i].w
  BY <1>1, WidthsAre
<1> HIDE DEF p, q, r
<1> DEFINE d == p \o q
<1>6. Numbers(d) /\ Total(d) = Total(p) + Total(q)
  BY <1>3, <1>4, TotalConcat
<1>7. /\ Len(d) = Len(p) + Len(q)
      /\ \A i \in 1..Len(p) : d[i] = p[i]
      /\ \A i \in 1..Len(q) : d[Len(p) + i] = q[i]
  <2>1. IsSeq(p) /\ IsSeq(q)
    BY <1>3, <1>4 DEF Numbers
  <2>2. AreJoined(p \o q, p, q)
    BY <2>1, ConcatSeq
  <2> QED
    BY <2>2 DEF AreJoined
<1> HIDE DEF d
<1>8. r = d
  <2>1. Len(r) = Len(d)
    BY <1>2, <1>3, <1>4, <1>5, <1>7
  <2>2. ASSUME NEW i \in 1..Len(r) PROVE r[i] = d[i]
    <3>1. CASE i <= Len(a)
      <4>1. i \in 1..Len(a) /\ i \in 1..Len(p) /\ i \in 1..Len(c)
        BY <1>2, <1>3, <1>5, <3>1
      <4> QED
        BY <1>2, <1>3, <1>5, <1>7, <4>1, SMTT(60)
    <3>2. CASE i > Len(a)
      <4> DEFINE j == i - Len(a)
      <4>1. j \in 1..Len(b) /\ j \in 1..Len(q) /\ i \in 1..Len(c) /\ i = Len(a) + j /\ Len(a) = Len(p)
        BY <1>2, <1>3, <1>4, <1>5, <3>2
      <4> HIDE DEF j
      <4>2. c[Len(a) + j] = b[j] /\ d[Len(p) + j] = q[j] /\ q[j] = b[j].w /\ r[i] = c[i].w
        BY <1>2, <1>4, <1>5, <1>7, <4>1
      <4> QED
        BY <4>1, <4>2
    <3> QED
      BY <1>2, <1>5, <3>1, <3>2
  <2> QED
    BY <1>5, <1>6, <2>1, <2>2, SameSeq DEF Numbers
<1> QED
  BY <1>3, <1>4, <1>5, <1>6, <1>8 DEF c
-----------------------------------------------------------------------------
(* Readers.                                                                *)
LEMMA Rd1Put ==
  ASSUME NEW w \in Nat, NEW v, w = 0 => v = Garbage, NEW s, IsStream(s)
  PROVE  Rd1(w, Put(w, v) \o s) = Done(v, s)
<1>1. CASE w = 0
  <2>1. <<>> \o s = s
    BY NothingJoined DEF IsStream
  <2> QED
    BY <1>1, <2>1 DEF Rd1, Put
<1>2. CASE w # 0
  <2> DEFINE f == [w |-> w, v |-> v]
  <2>1. f.w = w /\ f.v = v /\ Put(w, v) = <<f>>
    BY <1>2 DEF Put
  <2> HIDE DEF f
  <2>2. <<f>> \o s # <<>> /\ Head(<<f>> \o s) = f /\ Tail(<<f>> \o s) = s
    BY FirstAndRest DEF IsStream
  <2> QED
    BY <1>2, <2>1, <2>2 DEF Rd1
<1> QED
  BY <1>1, <1>2

\* Bytes that were written are read.
LEMMA RdBytesPut ==
  ASSUME NEW b, IsBytes(b), NEW s, IsStream(s)
  PROVE  RdBytes(b[2], Put(b[2], b[1]) \o s) = Done(b, s)
<1>1. Rd1(b[2], Put(b[2], b[1]) \o s) = Done(b[1], s)
  BY Rd1Put DEF IsBytes
<1>2. b = <<b[1], b[2]>>
  BY DEF IsBytes
<1> DEFINE r == Rd1(b[2], Put(b[2], b[1]) \o s)
<1>3. RdBytes(b[2], Put(b[2], b[1]) \o s) = IF r.ok THEN Done(<<r.v, b[2]>>, r.in) ELSE r
  BY DEF RdBytes, Then
<1>4. r.ok /\ r.v = b[1] /\ r.in = s
  BY <1>1 DEF Done
<1> HIDE DEF r
<1>5. <<r.v, b[2]>> = b
  BY <1>2, <1>4
<1> QED
  BY <1>3, <1>4, <1>5

\* Fields that were written with their widths are read with them.
LEMMA RdPutAll ==
  ASSUME NEW ws, Widths(ws), NEW vs, IsSeq(vs), Len(vs) = Len(ws), NEW s, IsStream(s)
  PROVE  Rd(ws, PutAll(ws, vs) \o s) = Done(vs, s)
<1> DEFINE p == PutAll(ws, vs)
           in == p \o s
           n == Len(ws)
<1>1. IsStream(p) /\ Len(p) = n /\ \A i \in 1..n : p[i].w = ws[i] /\ p[i].v = vs[i]
  BY PutAllIs
<1>2. n \in Nat /\ DOMAIN ws = 1..n /\ vs = [i \in 1..n |-> vs[i]]
  BY SeqFacts DEF Widths
<1> HIDE DEF p
<1>3. /\ Len(in) = n + Len(s) /\ (\A i \in 1..n : in[i] = p[i]) /\ Len(s) \in Nat
      /\ SubSeq(in, n + 1, Len(in)) = s
  <2>1. IsSeq(p) /\ IsSeq(s)
    BY <1>1 DEF IsStream
  <2>2. /\ Len(in) = Len(p) + Len(s) /\ (\A i \in 1..Len(p) : in[i] = p[i]) /\ Len(s) \in Nat
    <3>1. AreJoined(p \o s, p, s)
      BY <2>1, ConcatSeq
    <3> QED
      BY <3>1 DEF AreJoined
  <2>3. SubSeq(in, Len(p) + 1, Len(in)) = s
    BY <2>1, CutApart
  <2> QED
    BY <1>1, <2>2, <2>3
<1> HIDE DEF in, n
<1>4. Len(in) >= n /\ \A i \in 1..n : in[i].w = ws[i] /\ in[i].v = vs[i]
  BY <1>1, <1>2, <1>3
<1>5. [i \in DOMAIN ws |-> in[i].v] = vs
  <2>1. [i \in DOMAIN ws |-> in[i].v] = [i \in 1..n |-> vs[i]]
    BY <1>2, <1>4
  <2> QED
    BY <1>2, <2>1
<1>6. Rd(ws, in) = Done([i \in DOMAIN ws |-> in[i].v], SubSeq(in, n + 1, Len(in)))
  BY <1>2, <1>4 DEF Rd, n
<1> QED
  BY <1>3, <1>5, <1>6 DEF in, p

\* A part of a stream is shorter, and the width says by which part it is.
LEMMA WidthLonger ==
  ASSUME NEW a, IsStream(a), NEW k \in 0..Len(a)
  PROVE  /\ IsStream(SubSeq(a, 1, k)) /\ Len(SubSeq(a, 1, k)) = k
         /\ Width(SubSeq(a, 1, k)) <= Width(a)
         /\ (k < Len(a) => Width(SubSeq(a, 1, k)) < Width(a))
         /\ a = SubSeq(a, 1, k) \o SubSeq(a, k + 1, Len(a))
<1> DEFINE V == Elements(a)
           p == SubSeq(a, 1, k)
           q == SubSeq(a, k + 1, Len(a))
<1>1. a \in Seq(V) /\ Len(a) \in Nat /\ k \in Nat /\ k <= Len(a)
  BY SeqFacts DEF IsStream
<1>2. \A i \in 1..Len(a) : a[i] \in V /\ a[i].w \in Nat \ {0}
  BY <1>1, ElementOfSeq DEF IsStream
<1> HIDE DEF V
<1>3. /\ p \in Seq(V) /\ Len(p) = IF 1 <= k THEN k - 1 + 1 ELSE 0
      /\ \A i \in 1..k - 1 + 1 : p[i] = a[1 + i - 1]
  <2>1. \A i \in 1..k : a[i] \in V
    BY <1>1, <1>2
  <2>2. 1 \in Int /\ k \in Int
    BY <1>1
  <2> QED
    BY <2>1, <2>2, SubSeqProperties
<1>4. /\ q \in Seq(V) /\ Len(q) = IF k + 1 <= Len(a) THEN Len(a) - (k + 1) + 1 ELSE 0
      /\ \A i \in 1..Len(a) - (k + 1) + 1 : q[i] = a[k + 1 + i - 1]
  <2>1. \A i \in k + 1..Len(a) : a[i] \in V
    BY <1>1, <1>2
  <2>2. k + 1 \in Int /\ Len(a) \in Int
    BY <1>1
  <2> QED
    BY <2>1, <2>2, SubSeqProperties
<1> HIDE DEF p, q
<1>5. Len(p) = k /\ (\A i \in 1..k : p[i] = a[i]) /\ Len(q) = Len(a) - k /\ \A i \in 1..Len(q) : q[i] = a[k + i]
  BY <1>1, <1>3, <1>4
<1>6. IsSeq(p) /\ IsSeq(q)
  BY <1>3, <1>4, SeqIs
<1>7. IsStream(p) /\ IsStream(q)
  <2>1. \A i \in 1..Len(p) : i \in 1..Len(a)
    BY <1>1, <1>5
  <2>2. \A i \in 1..Len(q) : k + i \in 1..Len(a)
    BY <1>1, <1>5
  <2> QED
    BY <1>2, <1>5, <1>6, <2>1, <2>2 DEF IsStream
<1>8. a = p \o q
  <2>1. /\ IsSeq(p \o q) /\ Len(p \o q) = Len(p) + Len(q)
        /\ \A i \in 1..Len(p) : (p \o q)[i] = p[i]
        /\ \A i \in 1..Len(q) : (p \o q)[Len(p) + i] = q[i]
    <3>1. AreJoined(p \o q, p, q)
      BY <1>6, ConcatSeq
    <3> QED
      BY <3>1 DEF AreJoined
  <2>2. ASSUME NEW i \in 1..Len(a) PROVE (p \o q)[i] = a[i]
    <3>1. CASE i <= k
      BY <1>1, <1>5, <2>1, <3>1
    <3>2. CASE ~(i <= k)
      <4>1. i - k \in 1..Len(q) /\ k + (i - k) = i
        BY <1>1, <1>5, <3>2
      <4>2. (p \o q)[Len(p) + (i - k)] = q[i - k] /\ q[i - k] = a[k + (i - k)]
        BY <1>5, <2>1, <4>1
      <4> QED
        BY <1>5, <4>1, <4>2
    <3> QED
      BY <3>1, <3>2
  <2>3. Len(p \o q) = Len(a) /\ IsSeq(a)
    BY <1>1, <1>5, <2>1 DEF IsStream
  <2> QED
    BY <2>1, <2>2, <2>3, SameSeq
<1>9. Width(a) = Width(p) + Width(q) /\ Width(p) \in Nat /\ Width(q) \in Nat
  BY <1>7, <1>8, WidthJoined, WidthNat
<1>10. ASSUME k < Len(a) PROVE Width(q) >= 1
  <2> DEFINE x == q[1]
  <2>1. Len(q) >= 1 /\ x.w \in Nat \ {0} /\ Len(q) \in Nat
    BY <1>1, <1>5, <1>7, <1>10 DEF IsStream
  <2>2. Numbers(WidthsOf(q)) /\ Len(WidthsOf(q)) = Len(q) /\ Width(q) = Total(WidthsOf(q))
        /\ \A i \in 1..Len(q) : WidthsOf(q)[i] = q[i].w
    BY <1>7, WidthsAre
  <2> DEFINE u == WidthsOf(q)
             m == Len(q)
             h == [i \in 1..(m - 1) |-> u[i]]
  <2>3. \A i \in 1..m : u[i] \in Nat \ {0}
    BY <1>7, <2>2 DEF IsStream
  <2> HIDE DEF u, x
  <2>4. h \in [1..(m - 1) -> Nat] /\ m - 1 \in Nat /\ \A i \in 1..(m - 1) : h[i] = u[i]
    BY <2>1, <2>3
  <2> HIDE DEF h
  <2>5. IsSeq(h) /\ Len(h) = m - 1
    BY <2>4, FunctionIs
  <2>6. Numbers(h)
    BY <2>4, <2>5 DEF Numbers
  <2>7. Numbers(u) /\ Len(u) = m /\ Width(q) = Total(u)
    BY <2>2 DEF u
  <2>8. Len(u) = Len(h) + 1 /\ \A i \in 1..Len(h) : u[i] = h[i]
    BY <2>1, <2>4, <2>5, <2>7
  <2>9. Total(u) = Total(h) + u[Len(u)]
    BY <2>6, <2>7, <2>8, TotalMore
  <2>10. Total(h) \in Nat
    BY <2>6, TotalNat
  <2>11. u[m] \in Nat \ {0}
    BY <2>1, <2>3
  <2> QED
    BY <2>7, <2>9, <2>10, <2>11
<1>11. Width(p) <= Width(a) /\ (k < Len(a) => Width(p) < Width(a))
  <2> DEFINE x == Width(p)
             y == Width(q)
             z == Width(a)
  <2>1. z = x + y /\ x \in Nat /\ y \in Nat /\ (k < Len(a) => y >= 1)
    BY <1>9, <1>10
  <2> HIDE DEF x, y, z
  <2>2. x <= z /\ (k < Len(a) => x < z)
    BY <2>1
  <2> QED
    BY <2>2 DEF x, z
<1>12. IsStream(p) /\ Len(p) = k /\ a = p \o q
  BY <1>5, <1>7, <1>8
<1> QED
  BY <1>11, <1>12 DEF p, q

\* The database cuts off a stream by its width what was written before it.
LEMMA CutIs ==
  ASSUME NEW a, IsStream(a), NEW b, IsStream(b)
  PROVE  Cut(Width(a), a \o b) = Done(a, b)
<1> DEFINE in == a \o b
           n == Len(a)
           ends == {k \in 0..Len(in) : Width(SubSeq(in, 1, k)) = Width(a)}
           least == CHOOSE k \in ends : \A j \in ends : k <= j
<1>1. IsStream(in) /\ IsSeq(a) /\ IsSeq(b)
  BY StreamJoined
<1>2. Len(in) = n + Len(b) /\ n \in Nat /\ Len(b) \in Nat
  <2>1. AreJoined(a \o b, a, b)
    BY <1>1, ConcatSeq
  <2> QED
    BY <2>1 DEF AreJoined
<1>3. SubSeq(in, 1, n) = a /\ SubSeq(in, n + 1, Len(in)) = b
  BY <1>1, CutApart
<1> HIDE DEF in
<1>4. n \in ends
  <2>1. n \in 0..Len(in)
    BY <1>2
  <2> QED
    BY <1>3, <2>1
<1>5. ASSUME NEW k \in ends PROVE k >= n
  <2> SUFFICES ASSUME k < n PROVE FALSE
    BY <1>2
  <2>1. k \in 0..n /\ k \in Nat /\ Width(SubSeq(in, 1, k)) = Width(a)
    BY <1>2
  <2>2. SubSeq(in, 1, k) = SubSeq(a, 1, k)
    <3> DEFINE p == SubSeq(in, 1, k)
               q == SubSeq(a, 1, k)
    <3>1. k \in 0..Len(in)
      BY <1>2, <2>1
    <3>2. IsStream(p) /\ Len(p) = k /\ in = p \o SubSeq(in, k + 1, Len(in))
      BY <1>1, <3>1, WidthLonger
    <3>3. IsStream(q) /\ Len(q) = k /\ a = q \o SubSeq(a, k + 1, Len(a))
      BY <2>1, WidthLonger
    <3>4. \A i \in 1..k : p[i] = in[i]
      BY <1>1, <2>1, <3>1 DEF IsStream
    <3>5. \A i \in 1..k : q[i] = a[i]
      BY <1>1, <2>1
    <3>6. \A i \in 1..n : in[i] = a[i]
      <4>1. AreJoined(a \o b, a, b)
        BY <1>1, ConcatSeq
      <4> QED
        BY <4>1 DEF AreJoined, in
    <3> HIDE DEF p, q
    <3>7. \A i \in 1..k : p[i] = q[i]
      BY <1>2, <2>1, <3>4, <3>5, <3>6
    <3>8. p = q
      BY <3>2, <3>3, <3>7, SameSeq DEF IsStream
    <3> QED
      BY <3>8 DEF p, q
  <2>3. Width(SubSeq(a, 1, k)) < Width(a)
    BY <2>1, WidthLonger
  <2>4. Width(a) \in Nat
    BY WidthNat
  <2>5. Width(a) < Width(a)
    BY <2>1, <2>2, <2>3
  <2> QED
    BY <2>4, <2>5
<1>6. least = n
  <2>1. n \in ends /\ \A j \in ends : n <= j
    BY <1>4, <1>5
  <2>2. \A k \in ends : k \in Nat
    BY <1>2
  <2> HIDE DEF ends
  <2>3. least \in ends /\ \A j \in ends : least <= j
    BY <2>1, Zenon
  <2> HIDE DEF least
  <2> QED
    BY <2>1, <2>2, <2>3, <1>2
<1>7. Cut(Width(a), in) = Done(SubSeq(in, 1, least), SubSeq(in, least + 1, Len(in)))
  <2>1. ends # {}
    BY <1>4
  <2> QED
    BY <2>1, Zenon DEF Cut
<1> HIDE DEF least
<1> QED
  BY <1>3, <1>6, <1>7 DEF in
-----------------------------------------------------------------------------
(* Powers of ten, and decimals without trailing zeros.                     *)
Tens(n, f) == f \in [0..n -> Nat] /\ f[0] = 1 /\ \A i \in 1..n : f[i] = 10 * f[i - 1]

\* There is a function of the first powers of ten.
LEMMA TensExist ==
  ASSUME NEW n \in Nat
  PROVE  \E f : Tens(n, f)
<1> DEFINE T == {k \in Nat : \E f : Tens(k, f)}
<1>1. 0 \in T
  <2>1. Tens(0, [i \in 0..0 |-> 1])
    BY DEF Tens
  <2> QED
    BY <2>1
<1>2. ASSUME NEW k \in Nat, k \in T PROVE k + 1 \in T
  <2>1. PICK f : Tens(k, f)
    BY <1>2
  <2> DEFINE g == [i \in 0..(k + 1) |-> IF i <= k THEN f[i] ELSE 10 * f[k]]
  <2>2. \A i \in 0..k : f[i] \in Nat
    BY <2>1 DEF Tens
  <2>3. k \in 0..k
    OBVIOUS
  <2>4. g \in [0..(k + 1) -> Nat] /\ g[0] = 1
    BY <2>1, <2>2, <2>3 DEF Tens
  <2>5. ASSUME NEW i \in 1..(k + 1) PROVE g[i] = 10 * g[i - 1]
    <3>1. CASE i <= k
      <4>1. f[i] = 10 * f[i - 1]
        BY <2>1, <3>1 DEF Tens
      <4> QED
        BY <3>1, <4>1
    <3>2. CASE i = k + 1
      BY <3>2
    <3> QED
      BY <3>1, <3>2
  <2> HIDE DEF g
  <2>6. Tens(k + 1, g)
    BY <2>4, <2>5 DEF Tens
  <2> QED
    BY <2>6
<1> HIDE DEF T
<1>3. n \in T
  BY <1>1, <1>2, AllNumbers
<1> QED
  BY <1>3 DEF T

\* And it is the same, however far it goes.
LEMMA TensSame ==
  ASSUME NEW n \in Nat, NEW m \in Nat, NEW f, NEW g, Tens(n, f), Tens(m, g), n <= m
  PROVE  f[n] = g[n]
<1> DEFINE T == {k \in Nat : k <= n => f[k] = g[k]}
<1>1. 0 \in T
  BY DEF Tens
<1>2. ASSUME NEW k \in Nat, k \in T PROVE k + 1 \in T
  <2> SUFFICES ASSUME k + 1 <= n PROVE f[k + 1] = g[k + 1]
    OBVIOUS
  <2>1. f[k] = g[k]
    BY <1>2
  <2>2. k + 1 \in 1..n /\ k + 1 \in 1..m /\ k + 1 - 1 = k
    OBVIOUS
  <2> QED
    BY <2>1, <2>2 DEF Tens
<1> HIDE DEF T
<1>3. n \in T
  BY <1>1, <1>2, AllNumbers
<1> QED
  BY <1>3 DEF T

\* The powers of ten, and that they grow.
LEMMA TenToIs ==
  /\ TenTo[0] = 1
  /\ \A n \in Nat : TenTo[n] \in Nat \ {0} /\ TenTo[n + 1] = 10 * TenTo[n] /\ TenTo[n] > n
<1> DEFINE pick(n) == CHOOSE f : Tens(n, f)
           F == [n \in Nat |-> pick(n)[n]]
           step(g) == [n \in Nat |-> IF n = 0 THEN 1 ELSE 10 * g[n - 1]]
<1>1. \A n \in Nat : Tens(n, pick(n))
  BY TensExist
<1> HIDE DEF pick
<1>2. ASSUME NEW n \in Nat PROVE F[n] = IF n = 0 THEN 1 ELSE 10 * F[n - 1]
  <2>1. CASE n = 0
    BY <1>1, <2>1 DEF Tens
  <2>2. CASE n # 0
    <3>1. n - 1 \in Nat /\ n - 1 <= n /\ n \in 1..n
      BY <2>2
    <3>2. Tens(n, pick(n)) /\ Tens(n - 1, pick(n - 1))
      BY <1>1, <3>1
    <3>3. pick(n - 1)[n - 1] = pick(n)[n - 1]
      BY <3>1, <3>2, TensSame
    <3>4. pick(n)[n] = 10 * pick(n)[n - 1]
      BY <3>1, <3>2 DEF Tens
    <3> QED
      BY <2>2, <3>1, <3>3, <3>4
  <2> QED
    BY <2>1, <2>2
<1>3. F = step(F)
  <2>1. F = [n \in Nat |-> F[n]]
    OBVIOUS
  <2> HIDE DEF F
  <2> QED
    BY <1>2, <2>1
<1> HIDE DEF F
<1>4. TenTo = CHOOSE g : g = [n \in Nat |-> IF n = 0 THEN 1 ELSE 10 * g[n - 1]]
  BY DEF TenTo
<1>5. \E g : g = [n \in Nat |-> IF n = 0 THEN 1 ELSE 10 * g[n - 1]]
  BY <1>3
<1>6. TenTo = [n \in Nat |-> IF n = 0 THEN 1 ELSE 10 * TenTo[n - 1]]
  BY <1>4, <1>5, Zenon
<1>7. TenTo[0] = 1 /\ \A n \in Nat : TenTo[n + 1] = 10 * TenTo[n]
  <2> DEFINE t == TenTo
  <2>1. t = [n \in Nat |-> IF n = 0 THEN 1 ELSE 10 * t[n - 1]]
    BY <1>6
  <2> HIDE DEF t
  <2>2. t[0] = 1
    BY <2>1
  <2>3. ASSUME NEW n \in Nat PROVE t[n + 1] = 10 * t[n]
    <3>1. n + 1 \in Nat /\ n + 1 # 0 /\ n + 1 - 1 = n
      OBVIOUS
    <3> QED
      BY <2>1, <3>1
  <2> QED
    BY <2>2, <2>3 DEF t
<1> DEFINE T == {k \in Nat : TenTo[k] \in Nat \ {0} /\ TenTo[k] > k}
<1>8. 0 \in T
  BY <1>7
<1>9. \A k \in Nat : k \in T => k + 1 \in T
  BY <1>7
<1> HIDE DEF T
<1>10. Nat \subseteq T
  BY <1>8, <1>9, AllNumbers
<1> QED
  BY <1>7, <1>10 DEF T

\* The exponents of powers add up.
LEMMA TenToSum ==
  ASSUME NEW i \in Nat, NEW j \in Nat
  PROVE  TenTo[i + j] = TenTo[i] * TenTo[j]
<1> DEFINE T == {k \in Nat : TenTo[i + k] = TenTo[i] * TenTo[k]}
<1>1. 0 \in T
  <2>1. TenTo[i] \in Nat /\ TenTo[0] = 1 /\ i + 0 = i
    BY TenToIs
  <2> QED
    BY <2>1
<1>2. ASSUME NEW k \in Nat, k \in T PROVE k + 1 \in T
  <2>1. TenTo[i + k] = TenTo[i] * TenTo[k]
    BY <1>2
  <2>2. i + k \in Nat /\ i + (k + 1) = (i + k) + 1 /\ k + 1 \in Nat
    OBVIOUS
  <2>3. TenTo[(i + k) + 1] = 10 * TenTo[i + k] /\ TenTo[k + 1] = 10 * TenTo[k]
    BY <2>2, TenToIs
  <2> DEFINE a == TenTo[i]
             b == TenTo[k]
  <2>4. a \in Nat /\ b \in Nat
    BY TenToIs
  <2>5. TenTo[i + (k + 1)] = 10 * (a * b) /\ TenTo[k + 1] = 10 * b
    BY <2>1, <2>2, <2>3
  <2>6. 10 * (a * b) = a * (10 * b)
    <3> HIDE DEF a, b
    <3> QED
      BY <2>4
  <2>7. TenTo[i + (k + 1)] = TenTo[i] * TenTo[k + 1]
    BY <2>5, <2>6
  <2> QED
    BY <2>2, <2>7
<1> HIDE DEF T
<1>3. j \in T
  BY <1>1, <1>2, AllNumbers
<1> QED
  BY <1>3 DEF T

Divides(d, a) == \E q \in Nat : a = d * q

\* Quotient and remainder.
LEMMA QuotientIs ==
  ASSUME NEW d \in Nat \ {0}, NEW q \in Nat, NEW r \in 0..(d - 1)
  PROVE  (d * q + r) \div d = q /\ (d * q + r) % d = r
<1> DEFINE a == d * q + r
           Q == a \div d
           R == a % d
<1>1. a \in Nat
  OBVIOUS
<1> HIDE DEF a
<1>2. Q \in Nat /\ R \in 0..(d - 1) /\ a = d * Q + R
  BY <1>1
<1> HIDE DEF Q, R
<1>3. d * Q + R = d * q + r
  BY <1>2 DEF a
<1>4. d * (Q - q) = r - R
  BY <1>2, <1>3
<1>5. ~(Q - q >= 1)
  <2> SUFFICES ASSUME Q - q >= 1 PROVE FALSE
    OBVIOUS
  <2>1. d * (Q - q - 1) >= 0
    BY <1>2
  <2>2. d * (Q - q - 1) = d * (Q - q) - d
    BY <1>2
  <2> QED
    BY <1>2, <1>4, <2>1, <2>2
<1>6. ~(q - Q >= 1)
  <2> SUFFICES ASSUME q - Q >= 1 PROVE FALSE
    OBVIOUS
  <2>1. d * (q - Q - 1) >= 0
    BY <1>2
  <2>2. d * (q - Q - 1) = 0 - d * (Q - q) - d
    BY <1>2
  <2> QED
    BY <1>2, <1>4, <2>1, <2>2
<1>7. Q = q
  BY <1>2, <1>5, <1>6
<1>8. R = r
  BY <1>2, <1>3, <1>7
<1> QED
  BY <1>7, <1>8 DEF Q, R, a

\* Without a remainder, a number is divided.
LEMMA DividesIs ==
  ASSUME NEW d \in Nat \ {0}, NEW a \in Nat
  PROVE  a % d = 0 <=> Divides(d, a)
<1>1. ASSUME a % d = 0 PROVE Divides(d, a)
  <2>1. a = d * (a \div d) + (a % d) /\ a \div d \in Nat
    OBVIOUS
  <2>2. a = d * (a \div d)
    BY <1>1, <2>1
  <2> QED
    BY <2>1, <2>2 DEF Divides
<1>2. ASSUME Divides(d, a) PROVE a % d = 0
  <2>1. PICK q \in Nat : a = d * q
    BY <1>2 DEF Divides
  <2>2. 0 \in 0..(d - 1) /\ d * q + 0 = d * q
    OBVIOUS
  <2>3. (d * q + 0) % d = 0
    BY <2>2, QuotientIs
  <2> QED
    BY <2>1, <2>2, <2>3
<1> QED
  BY <1>1, <1>2

\* What a power of ten divides, a smaller one does.
LEMMA TenToDivides ==
  ASSUME NEW i \in Nat, NEW j \in Nat, i <= j, NEW a \in Nat, Divides(TenTo[j], a)
  PROVE  Divides(TenTo[i], a)
<1>1. PICK q \in Nat : a = TenTo[j] * q
  BY DEF Divides
<1>2. j - i \in Nat /\ i + (j - i) = j
  OBVIOUS
<1>3. TenTo[i + (j - i)] = TenTo[i] * TenTo[j - i]
  BY <1>2, TenToSum
<1> DEFINE x == TenTo[i]
           y == TenTo[j - i]
<1>4. x \in Nat /\ y \in Nat
  BY <1>2, TenToIs
<1>5. a = (x * y) * q
  BY <1>1, <1>2, <1>3
<1> HIDE DEF x, y
<1>6. a = x * (y * q) /\ y * q \in Nat
  BY <1>4, <1>5
<1> QED
  BY <1>6 DEF Divides, x
-----------------------------------------------------------------------------
\* The number m * 10^e is n * 10^(e + k), and n has no trailing zero.
IsStripped(m, n, k) == n \in Int /\ k \in Nat /\ m = n * TenTo[k] /\ ~Divides(10, Abs(n))

\* The amount of a number.
LEMMA AbsIs ==
  ASSUME NEW m \in Int
  PROVE  Abs(m) \in Nat /\ (Abs(m) = 0 <=> m = 0)
<1> QED
  BY DEF Abs

\* Every number but 0 is one without trailing zeros, and zeros.
LEMMA StrippedExists ==
  ASSUME NEW m \in Int \ {0}
  PROVE  \E n \in Int, k \in Nat : IsStripped(m, n, k)
<1> DEFINE a == Abs(m)
           T == {k \in Nat : ~Divides(TenTo[k + 1], a)}
<1>1. a \in Nat \ {0}
  BY DEF Abs
<1> HIDE DEF a
<1>2. a \in T
  <2>1. a + 1 \in Nat
    BY <1>1
  <2>2. TenTo[a + 1] \in Nat /\ TenTo[a + 1] > a + 1
    BY <2>1, TenToIs
  <2> DEFINE t == TenTo[a + 1]
  <2>3. t \in Nat /\ t > a
    BY <1>1, <2>2
  <2> HIDE DEF t
  <2>4. ASSUME NEW q \in Nat, a = t * q PROVE FALSE
    <3>1. CASE q = 0
      BY <1>1, <2>3, <2>4, <3>1
    <3>2. CASE q >= 1
      <4>1. t * (q - 1) >= 0 /\ t * q = t * (q - 1) + t
        BY <2>3, <3>2
      <4> QED
        BY <1>1, <2>3, <2>4, <4>1
    <3> QED
      BY <3>1, <3>2
  <2>5. ~Divides(t, a)
    BY <2>4 DEF Divides
  <2> QED
    BY <1>1, <2>5 DEF t
<1>3. T \subseteq Nat /\ T # {}
  BY <1>2
<1>4. PICK k \in T : \A j \in T : k <= j
  <2> HIDE DEF T
  <2> QED
    BY <1>3, LeastOf
<1>5. k \in Nat /\ ~Divides(TenTo[k + 1], a)
  OBVIOUS
<1>6. Divides(TenTo[k], a)
  <2>1. CASE k = 0
    <3>1. TenTo[k] = 1 /\ a = 1 * a
      BY <1>1, <2>1, TenToIs
    <3> QED
      BY <1>1, <3>1 DEF Divides
  <2>2. CASE k # 0
    <3>1. k - 1 \in Nat /\ ~(k <= k - 1) /\ k - 1 + 1 = k
      BY <1>5, <2>2
    <3>2. k - 1 \notin T
      BY <1>4, <3>1
    <3> QED
      BY <3>1, <3>2
  <2> QED
    BY <2>1, <2>2
<1>7. PICK q \in Nat : a = TenTo[k] * q
  BY <1>6 DEF Divides
<1> DEFINE t == TenTo[k]
<1>8. t \in Nat \ {0} /\ TenTo[k + 1] = 10 * t
  BY <1>5, TenToIs
<1>9. ~Divides(10, q)
  <2> SUFFICES ASSUME NEW p \in Nat, q = 10 * p PROVE FALSE
    BY DEF Divides
  <2>1. a = t * (10 * p)
    BY <1>7
  <2> HIDE DEF t
  <2>2. t * (10 * p) = (10 * t) * p
    BY <1>8
  <2> QED
    BY <1>5, <1>8, <2>1, <2>2 DEF Divides
<1> DEFINE n == IF m < 0 THEN 0 - q ELSE q
<1>10. n \in Int /\ Abs(n) = q
  BY <1>7 DEF Abs
<1>11. m = n * TenTo[k]
  <2>1. m < 0 => m = 0 - a
    BY DEF a, Abs
  <2>2. ~(m < 0) => m = a
    BY DEF a, Abs
  <2>3. a = t * q
    BY <1>7
  <2> HIDE DEF t
  <2>4. n * t = IF m < 0 THEN 0 - t * q ELSE t * q
    BY <1>7, <1>8
  <2> HIDE DEF n
  <2>5. m = n * t
    BY <1>1, <1>7, <1>8, <2>1, <2>2, <2>3, <2>4
  <2> QED
    BY <2>5 DEF t
<1> HIDE DEF n
<1>12. IsStripped(m, n, k)
  BY <1>5, <1>9, <1>10, <1>11 DEF IsStripped
<1> QED
  BY <1>5, <1>10, <1>12

\* ZerosOf counts the zeros.
LEMMA ZerosAre ==
  ASSUME NEW m \in Int \ {0}, NEW n, NEW k, IsStripped(m, n, k)
  PROVE  ZerosOf(m) = k
<1> DEFINE a == Abs(m)
           b == Abs(n)
           t == TenTo[k]
           Good(j) == a % TenTo[j] = 0 /\ a % TenTo[j + 1] # 0
<1>1. n \in Int /\ k \in Nat /\ m = n * t /\ ~Divides(10, b)
  BY DEF IsStripped
<1>2. t \in Nat \ {0} /\ TenTo[k + 1] = 10 * t /\ t > k
  BY <1>1, TenToIs
<1>3. a \in Nat \ {0} /\ b \in Nat \ {0}
  <2>1. n # 0
    BY <1>1, <1>2
  <2> QED
    BY <1>1, <2>1 DEF Abs
<1>4. a = t * b
  <2> HIDE DEF t
  <2>1. n < 0 => n * t <= 0 /\ n * t = 0 - (0 - n) * t
    BY <1>1, <1>2
  <2>2. ~(n < 0) => n * t >= 0
    BY <1>1, <1>2
  <2>3. b = IF n < 0 THEN 0 - n ELSE n
    BY <1>1 DEF Abs
  <2>4. a = IF n * t < 0 THEN 0 - n * t ELSE n * t
    BY <1>1 DEF Abs
  <2>5. CASE n < 0
    <3>1. b = 0 - n /\ (0 - n) * t = 0 - n * t /\ n * t <= 0
      BY <1>1, <1>2, <2>1, <2>3, <2>5
    <3>2. a = 0 - n * t
      BY <1>1, <1>2, <2>4, <3>1
    <3> QED
      BY <1>1, <1>2, <3>1, <3>2
  <2>6. CASE ~(n < 0)
    BY <1>1, <1>2, <2>2, <2>3, <2>4, <2>6
  <2> QED
    BY <2>5, <2>6
<1> HIDE DEF a, b
<1>5. ASSUME NEW j \in Nat PROVE Good(j) <=> Divides(TenTo[j], a) /\ ~Divides(TenTo[j + 1], a)
  <2>1. j + 1 \in Nat
    OBVIOUS
  <2>2. TenTo[j] \in Nat \ {0} /\ TenTo[j + 1] \in Nat \ {0}
    BY <2>1, TenToIs
  <2>3. (a % TenTo[j] = 0 <=> Divides(TenTo[j], a)) /\ (a % TenTo[j + 1] = 0 <=> Divides(TenTo[j + 1], a))
    BY <1>3, <2>2, DividesIs
  <2> QED
    BY <2>3
<1>6. Divides(t, a)
  BY <1>3, <1>4 DEF Divides
<1>7. ~Divides(10 * t, a)
  <2> HIDE DEF t
  <2> SUFFICES ASSUME NEW q \in Nat, a = (10 * t) * q PROVE FALSE
    BY DEF Divides
  <2>1. t * b = t * (10 * q)
    BY <1>2, <1>4
  <2>2. b = 10 * q
    BY <1>2, <1>3, <2>1
  <2> QED
    BY <1>1, <2>2 DEF Divides
<1>8. Good(k)
  BY <1>1, <1>2, <1>5, <1>6, <1>7
<1>9. ASSUME NEW j \in Nat, Good(j) PROVE j = k
  <2>1. Divides(TenTo[j], a) /\ ~Divides(TenTo[j + 1], a)
    BY <1>5, <1>9
  <2>2. ~(j + 1 <= k)
    BY <1>1, <1>3, <1>6, <2>1, TenToDivides
  <2>3. ~(k + 1 <= j)
    BY <1>1, <1>2, <1>3, <1>7, <2>1, TenToDivides
  <2> QED
    BY <1>1, <2>2, <2>3
<1>10. k \in 0..a
  <2>1. t * (b - 1) >= 0 /\ t * b = t * (b - 1) + t
    BY <1>2, <1>3
  <2> QED
    BY <1>1, <1>2, <1>3, <1>4, <2>1
<1>11. ZerosOf(m) = CHOOSE j \in 0..a : Good(j)
  BY Zenon DEF ZerosOf, a
<1>12. \A j \in 0..a : Good(j) => j = k
  BY <1>3, <1>9
<1> HIDE DEF Good
<1> QED
  BY <1>8, <1>10, <1>11, <1>12

\* A multiple is divided exactly, whatever its sign.
LEMMA QuotExact ==
  ASSUME NEW n \in Int, NEW t \in Nat \ {0}
  PROVE  Quot(n * t, t) = n
<1>1. CASE n >= 0
  <2>1. n * t >= 0 /\ n * t = t * n + 0 /\ n \in Nat /\ 0 \in 0..(t - 1)
    BY <1>1
  <2>2. (t * n + 0) \div t = n
    BY <2>1, QuotientIs
  <2> QED
    BY <2>1, <2>2 DEF Quot
<1>2. CASE n < 0
  <2> DEFINE p == 0 - n
  <2>1. p \in Nat \ {0} /\ n = 0 - p
    BY <1>2
  <2> HIDE DEF p
  <2>2. n * t < 0 /\ 0 - n * t = t * p + 0 /\ 0 \in 0..(t - 1)
    BY <2>1
  <2>3. (t * p + 0) \div t = p
    BY <2>1, <2>2, QuotientIs
  <2> DEFINE x == n * t
  <2>4. x \in Int /\ x < 0 /\ -x = t * p + 0
    BY <2>2
  <2> HIDE DEF x
  <2>5. Quot(x, t) = -((-x) \div t)
    BY <2>4 DEF Quot
  <2> QED
    BY <2>1, <2>3, <2>4, <2>5 DEF x
<1> QED
  BY <1>1, <1>2

\* The decimal without trailing zeros.
LEMMA StrippedIs ==
  ASSUME NEW m \in Int \ {0}, NEW n, NEW k, IsStripped(m, n, k), NEW e \in Int
  PROVE  Stripped(m, e) = <<n, e + k>>
<1>1. ZerosOf(m) = k
  BY ZerosAre
<1>2. n \in Int /\ k \in Nat /\ m = n * TenTo[k] /\ TenTo[k] \in Nat \ {0}
  BY TenToIs DEF IsStripped
<1>3. Quot(m, TenTo[k]) = n
  BY <1>2, QuotExact
<1> QED
  BY <1>1, <1>3 DEF Stripped

\* Some more zeros, and the exponent so much less, are the same number.
LEMMA StrippedShifted ==
  ASSUME NEW m \in Int \ {0}, NEW e \in Int, NEW j \in Nat
  PROVE  /\ m * TenTo[j] \in Int \ {0}
         /\ Stripped(m * TenTo[j], e - j) = Stripped(m, e)
<1>1. PICK n \in Int, k \in Nat : IsStripped(m, n, k)
  BY StrippedExists
<1> DEFINE t == TenTo[j]
           u == TenTo[k]
<1>2. t \in Nat \ {0} /\ u \in Nat \ {0}
  BY TenToIs
<1>3. m * t \in Int \ {0}
  BY <1>2
<1>4. IsStripped(m * t, n, k + j)
  <2>1. TenTo[k + j] = u * t
    BY TenToSum
  <2>2. m = n * u /\ ~Divides(10, Abs(n))
    BY <1>1 DEF IsStripped
  <2> HIDE DEF t, u
  <2>3. m * t = n * (u * t)
    BY <1>2, <2>2
  <2>4. m * t = n * TenTo[k + j]
    BY <2>1, <2>3
  <2> QED
    BY <2>2, <2>4 DEF IsStripped
<1>5. Stripped(m, e) = <<n, e + k>>
  BY <1>1, StrippedIs
<1> DEFINE x == m * t
<1>6. x \in Int \ {0} /\ e - j \in Int /\ IsStripped(x, n, k + j)
  BY <1>3, <1>4
<1> HIDE DEF x
<1>7. Stripped(x, e - j) = <<n, (e - j) + (k + j)>>
  BY <1>6, StrippedIs
<1>8. (e - j) + (k + j) = e + k
  OBVIOUS
<1> QED
  BY <1>3, <1>5, <1>7, <1>8 DEF x

\* What is stripped has nothing more to strip.
LEMMA StrippedTwice ==
  ASSUME NEW m \in Int \ {0}, NEW e \in Int
  PROVE  LET s == Stripped(m, e) IN
         /\ s = <<s[1], s[2]>> /\ s[1] \in Int \ {0} /\ s[2] \in Int /\ (s[1] < 0 <=> m < 0)
         /\ Stripped(s[1], s[2]) = s
<1>1. PICK n \in Int, k \in Nat : IsStripped(m, n, k)
  BY StrippedExists
<1>2. Stripped(m, e) = <<n, e + k>>
  BY <1>1, StrippedIs
<1>3. m = n * TenTo[k] /\ ~Divides(10, Abs(n)) /\ TenTo[k] \in Nat \ {0} /\ TenTo[0] = 1
  BY <1>1, TenToIs DEF IsStripped
<1>4. n # 0 /\ (n < 0 <=> m < 0)
  <2> DEFINE t == TenTo[k]
  <2>1. m = n * t /\ t \in Nat \ {0}
    BY <1>3
  <2> HIDE DEF t
  <2>2. n = 0 => m = 0
    BY <2>1
  <2>3. n < 0 => n * t < 0
    BY <2>1
  <2>4. n > 0 => n * t > 0
    BY <2>1
  <2> QED
    BY <2>1, <2>2, <2>3, <2>4
<1>5. IsStripped(n, n, 0)
  BY <1>3 DEF IsStripped
<1>6. Stripped(n, e + k) = <<n, e + k + 0>>
  BY <1>4, <1>5, StrippedIs
<1> QED
  BY <1>2, <1>4, <1>6
-----------------------------------------------------------------------------
(* Numbers as the database has them.                                       *)
LEMMA NumberShifted ==
  ASSUME NEW m \in Int, NEW e \in Int, NEW j \in Nat
  PROVE  m * TenTo[j] \in Int /\ Number(m * TenTo[j], e - j) = Number(m, e)
<1>1. TenTo[j] \in Nat \ {0}
  BY TenToIs
<1>2. CASE m = 0
  <2>1. m * TenTo[j] = 0
    BY <1>1, <1>2
  <2> QED
    BY <1>2, <2>1 DEF Number
<1>3. CASE m # 0
  <2>1. m * TenTo[j] \in Int \ {0} /\ Stripped(m * TenTo[j], e - j) = Stripped(m, e)
    BY <1>3, StrippedShifted
  <2> QED
    BY <1>3, <2>1 DEF Number
<1> QED
  BY <1>2, <1>3

\* Numbers with one exponent that are the same have one mantissa.
LEMMA NumberInjective ==
  ASSUME NEW a \in Int, NEW b \in Int, NEW e \in Int, Number(a, e) = Number(b, e)
  PROVE  a = b
<1>0. Number(a, e).v = Number(b, e).v
  OBVIOUS
<1>1. (IF a = 0 THEN <<0, 0>> ELSE Stripped(a, e)) = (IF b = 0 THEN <<0, 0>> ELSE Stripped(b, e))
  BY <1>0 DEF Number, Content
<1>2. \A x \in {a, b} : x # 0 => Stripped(x, e)[1] # 0
  BY StrippedTwice
<1>3. CASE a = 0 \/ b = 0
  BY <1>1, <1>2, <1>3
<1>4. CASE a # 0 /\ b # 0
  <2>1. PICK n \in Int, k \in Nat : IsStripped(a, n, k)
    BY <1>4, StrippedExists
  <2>2. PICK p \in Int, j \in Nat : IsStripped(b, p, j)
    BY <1>4, StrippedExists
  <2>3. Stripped(a, e) = <<n, e + k>> /\ Stripped(b, e) = <<p, e + j>>
    BY <1>4, <2>1, <2>2, StrippedIs
  <2>4. n = p /\ e + k = e + j
    BY <1>1, <1>4, <2>3
  <2>5. k = j
    BY <2>4
  <2> QED
    BY <2>1, <2>2, <2>4, <2>5 DEF IsStripped
<1> QED
  BY <1>3, <1>4
-----------------------------------------------------------------------------
\* The widths of the contents by the code of their type.
LEMMA CodeWidthIs ==
  /\ \A c : c \in DOMAIN CodeWidth <=> c \in {1, 2, 3, 4, 28, 6, 7, 81, 82, 76, 61, 62, 63, 64}
  /\ CodeWidth[1] = 1 /\ CodeWidth[2] = 2 /\ CodeWidth[3] = 4 /\ CodeWidth[4] = 8 /\ CodeWidth[28] = 1
  /\ CodeWidth[6] = 4 /\ CodeWidth[7] = 8 /\ CodeWidth[81] = 8 /\ CodeWidth[82] = 12 /\ CodeWidth[76] = 16
  /\ CodeWidth[61] = 8 /\ CodeWidth[62] = 8 /\ CodeWidth[63] = 4 /\ CodeWidth[64] = 4
<1> QED
  BY DEF CodeWidth, FloatCodes, FixedCodes, DateCodes

\* The codes of the types that are announced.
LEMMA TypeCodeIs ==
  /\ TypeCode["TINYINT"] = 1 /\ TypeCode["SMALLINT"] = 2 /\ TypeCode["INT"] = 3 /\ TypeCode["BIGINT"] = 4
  /\ TypeCode["DECIMAL"] = 5 /\ TypeCode["REAL"] = 6 /\ TypeCode["DOUBLE"] = 7 /\ TypeCode["BINARY"] = 12
  /\ TypeCode["CLOB"] = 25 /\ TypeCode["NCLOB"] = 26 /\ TypeCode["BLOB"] = 27 /\ TypeCode["BOOLEAN"] = 28
  /\ TypeCode["STRING"] = 29 /\ TypeCode["TEXT"] = 51 /\ TypeCode["BINTEXT"] = 53
  /\ TypeCode["LONGDATE"] = 61 /\ TypeCode["SECONDDATE"] = 62 /\ TypeCode["DAYDATE"] = 63
  /\ TypeCode["SECONDTIME"] = 64 /\ TypeCode["FIXED16"] = 76 /\ TypeCode["FIXED8"] = 81
  /\ TypeCode["FIXED12"] = 82
<1> QED
  BY DEF TypeCode

\* No code looks like that of a NULL.
LEMMA TypeCodeSmall == \A t \in TypeIds : TypeCode[t] \in 1..82
<1> QED
  BY DEF TypeCode, TypeIds
-----------------------------------------------------------------------------
(* A value that is written, and taken by the database.                     *)
LEMMA CodeIsTaken ==
  ASSUME NEW d, NEW c, NEW b, IsStream(b), NEW s, IsStream(s)
  PROVE  TakeParameter(d, (Put(1, c) \o b) \o s) = TakeContent(d, c, b \o s)
<1>1. IsStream(Put(1, c)) /\ IsStream(b \o s) /\ IsSeq(Put(1, c)) /\ IsSeq(b) /\ IsSeq(s)
  BY PutStream, StreamJoined DEF IsStream
<1>2. (Put(1, c) \o b) \o s = Put(1, c) \o (b \o s)
  BY <1>1, Joined
<1> DEFINE in == b \o s
           r == Rd1(1, Put(1, c) \o in)
<1>3. r = Done(c, in)
  <2> HIDE DEF in
  <2> QED
    BY <1>1, Rd1Put DEF in
<1>4. r.ok /\ r.v = c /\ r.in = in
  BY <1>3 DEF Done
<1>5. TakeParameter(d, Put(1, c) \o in) = IF r.ok THEN TakeContent(d, r.v, r.in) ELSE r
  BY DEF TakeParameter, Then
<1> HIDE DEF r
<1> QED
  BY <1>2, <1>4, <1>5

\* The content behind a code.
LEMMA TakeContentIs ==
  ASSUME NEW d, NEW c \in Nat, NEW in
  PROVE  /\ c >= 128 => TakeContent(d, c, in) = Done(Null, in)
         /\ c \in DOMAIN CodeWidth =>
               LET r == Rd1(CodeWidth[c], in) IN
               TakeContent(d, c, in) = IF r.ok THEN Done(ContentOf(c, d, r.v), r.in) ELSE r
         /\ c = 5 =>
               LET r == Rd(<<14, 2>>, in) IN
               TakeContent(d, c, in) = IF r.ok THEN Done(DecimalOf(r.v[1], r.v[2]), r.in) ELSE r
         /\ c \in {12, 29} =>
               LET r == TakeBytes(in) IN
               TakeContent(d, c, in) =
                   IF r.ok THEN Done(Content(IF c = 12 THEN "bytes" ELSE "text", r.v), r.in) ELSE r
         /\ c \in {25, 26, 27, 51, 53} =>
               LET r == Rd(<<1, 4, 4>>, in) IN
               TakeContent(d, c, in) = IF r.ok THEN Done(Content("lob header", r.v), r.in) ELSE r
<1> DEFINE X1 == Done(Null, in)
           X2 == Then(Rd1(CodeWidth[c], in), LAMBDA n, s : Done(ContentOf(c, d, n), s))
           X3 == Then(Rd(<<14, 2>>, in), LAMBDA h, s : Done(DecimalOf(h[1], h[2]), s))
           X4 == Then(TakeBytes(in), LAMBDA b, s :
                      Done(Content(IF c = 12 THEN "bytes" ELSE "text", b), s))
           X5 == Then(Rd(<<1, 4, 4>>, in), LAMBDA h, s : Done(Content("lob header", h), s))
           X6 == Done(Rejected, Lost)
<1>1. /\ c \in DOMAIN CodeWidth <=> c \in {1, 2, 3, 4, 28, 6, 7, 81, 82, 76, 61, 62, 63, 64}
      /\ c \in LobCodes <=> c \in {25, 26, 27, 51, 53}
  BY CodeWidthIs DEF LobCodes
<1>2. TakeContent(d, c, in) = CASE c >= 128 -> X1 [] c \in DOMAIN CodeWidth -> X2 [] c = 5 -> X3
                                [] c \in {12, 29} -> X4 [] c \in LobCodes -> X5 [] OTHER -> X6
  BY DEF TakeContent
<1>3. LET r == Rd1(CodeWidth[c], in) IN X2 = IF r.ok THEN Done(ContentOf(c, d, r.v), r.in) ELSE r
  BY DEF Then
<1>4. LET r == Rd(<<14, 2>>, in) IN X3 = IF r.ok THEN Done(DecimalOf(r.v[1], r.v[2]), r.in) ELSE r
  BY DEF Then
<1>5. LET r == TakeBytes(in) IN
      X4 = IF r.ok THEN Done(Content(IF c = 12 THEN "bytes" ELSE "text", r.v), r.in) ELSE r
  BY DEF Then
<1>6. LET r == Rd(<<1, 4, 4>>, in) IN X5 = IF r.ok THEN Done(Content("lob header", r.v), r.in) ELSE r
  BY DEF Then
<1> HIDE DEF X2, X3, X4, X5, X6
<1>7. c >= 128 => TakeContent(d, c, in) = X1
  <2> HIDE DEF X1
  <2> QED
    BY <1>1, <1>2
<1> HIDE DEF X1
<1>8. c \in DOMAIN CodeWidth => TakeContent(d, c, in) = X2
  BY <1>1, <1>2
<1>9. c = 5 => TakeContent(d, c, in) = X3
  BY <1>1, <1>2
<1>10. c \in {12, 29} => TakeContent(d, c, in) = X4
  BY <1>1, <1>2
<1>11. c \in {25, 26, 27, 51, 53} => TakeContent(d, c, in) = X5
  BY <1>1, <1>2
<1>12. X1 = Done(Null, in)
  BY DEF X1
<1> QED
  BY <1>3, <1>4, <1>5, <1>6, <1>7, <1>8, <1>9, <1>10, <1>11, <1>12

\* The content behind the code of a number.
LEMMA NumberIsTaken ==
  ASSUME NEW d, NEW c \in DOMAIN CodeWidth, NEW n, NEW s, IsStream(s)
  PROVE  /\ TakeContent(d, c, Put(CodeWidth[c], n) \o s) = Done(ContentOf(c, d, n), s)
         /\ CodeWidth[c] \in Nat \ {0} /\ c \in Nat
<1>1. c \in Nat /\ CodeWidth[c] \in Nat \ {0}
  BY CodeWidthIs
<1> DEFINE w == CodeWidth[c]
           in == Put(w, n) \o s
           r == Rd1(w, in)
<1>2. r = Done(n, s)
  BY <1>1, Rd1Put
<1>3. r.ok /\ r.v = n /\ r.in = s
  BY <1>2 DEF Done
<1>4. TakeContent(d, c, in) = IF r.ok THEN Done(ContentOf(c, d, r.v), r.in) ELSE r
  <2> HIDE DEF in
  <2> QED
    BY <1>1, TakeContentIs, ZenonT(60)
<1> HIDE DEF r
<1> QED
  BY <1>1, <1>3, <1>4

\* Two fields, or three, are written.
LEMMA TwoAre ==
  ASSUME NEW a, NEW b
  PROVE  IsSeq(<<a, b>>) /\ Len(<<a, b>>) = 2 /\ <<a, b>>[1] = a /\ <<a, b>>[2] = b
<1>1. <<a, b>> \in Seq({a, b})
  OBVIOUS
<1> QED
  BY <1>1, SeqIs

\* Three elements are a sequence.
LEMMA ThreeAre ==
  ASSUME NEW a, NEW b, NEW c
  PROVE  /\ IsSeq(<<a, b, c>>) /\ Len(<<a, b, c>>) = 3
         /\ <<a, b, c>>[1] = a /\ <<a, b, c>>[2] = b /\ <<a, b, c>>[3] = c
<1>1. <<a, b, c>> \in Seq({a, b, c})
  OBVIOUS
<1> QED
  BY <1>1, SeqIs

IsSingle(s, x) == IsSeq(s) /\ Len(s) = 1 /\ s[1] = x

\* Two single elements are joined to two.
LEMMA SinglesJoined ==
  ASSUME NEW p, NEW q, NEW x, NEW y, IsSingle(p, x), IsSingle(q, y)
  PROVE  IsSeq(p \o q) /\ Len(p \o q) = 2 /\ (p \o q)[1] = x /\ (p \o q)[2] = y
<1>1. IsSeq(p) /\ IsSeq(q)
  BY DEF IsSingle
<1>2. /\ IsSeq(p \o q) /\ Len(p \o q) = Len(p) + Len(q)
      /\ (\A i \in 1..Len(p) : (p \o q)[i] = p[i])
      /\ \A i \in 1..Len(q) : (p \o q)[Len(p) + i] = q[i]
  <2>1. AreJoined(p \o q, p, q)
    BY <1>1, ConcatSeq
  <2> QED
    BY <2>1 DEF AreJoined
<1>3. Len(p) = 1 /\ Len(q) = 1 /\ p[1] = x /\ q[1] = y /\ 1 \in 1..1 /\ 1 + 1 = 2
  BY DEF IsSingle
<1> QED
  BY <1>2, <1>3

TwoFields(ws, vs, a, b, x, y) ==
    ws = <<a, b>> /\ vs = <<x, y>> /\ a \in Nat \ {0} /\ b \in Nat \ {0}

\* Two fields at once are one and another.
LEMMA PutTwo ==
  ASSUME NEW ws, NEW vs, NEW a, NEW b, NEW x, NEW y, TwoFields(ws, vs, a, b, x, y)
  PROVE  PutAll(ws, vs) = Put(a, x) \o Put(b, y)
<1> DEFINE f == [w |-> a, v |-> x]
           g == [w |-> b, v |-> y]
           p == Put(a, x)
           q == Put(b, y)
<1>1. IsSeq(ws) /\ Len(ws) = 2 /\ ws[1] = a /\ ws[2] = b
  <2>1. ws = <<a, b>>
    BY DEF TwoFields
  <2> QED
    BY <2>1, TwoAre
<1>2. vs[1] = x /\ vs[2] = y
  BY DEF TwoFields
<1>3. a \in Nat \ {0} /\ b \in Nat \ {0}
  BY DEF TwoFields
<1>4. p = <<f>> /\ q = <<g>> /\ f.w = a /\ f.v = x /\ g.w = b /\ g.v = y
  BY <1>3 DEF Put
<1>5. IsStream(PutAll(ws, vs)) /\ Len(PutAll(ws, vs)) = 2 /\ PutAll(ws, vs)[1] = f /\ PutAll(ws, vs)[2] = g
  <2>1. Widths(ws)
    BY <1>1, <1>3 DEF Widths
  <2>2. DOMAIN ws = 1..2
    BY <1>1, SeqFacts
  <2>3. PutAll(ws, vs)[1] = [w |-> ws[1], v |-> vs[1]] /\ PutAll(ws, vs)[2] = [w |-> ws[2], v |-> vs[2]]
    BY <2>2 DEF PutAll
  <2>4. IsStream(PutAll(ws, vs)) /\ Len(PutAll(ws, vs)) = 2
    BY <1>1, <2>1, PutAllIs
  <2> QED
    BY <1>1, <1>2, <2>3, <2>4
<1> HIDE DEF f, g
<1>6. /\ IsSeq(p) /\ Len(p) = 1 /\ p[1] = f
      /\ IsSeq(q) /\ Len(q) = 1 /\ q[1] = g
  BY <1>4, OneIsSeq
<1> HIDE DEF p, q
<1>7. IsSeq(p \o q) /\ Len(p \o q) = 2 /\ (p \o q)[1] = f /\ (p \o q)[2] = g
  <2>1. IsSingle(p, f) /\ IsSingle(q, g)
    BY <1>6 DEF IsSingle
  <2> QED
    BY <2>1, SinglesJoined
<1>8. PutAll(ws, vs) = p \o q
  <2>1. \A i \in 1..2 : PutAll(ws, vs)[i] = (p \o q)[i]
    <3>1. \A i \in 1..2 : i = 1 \/ i = 2
      OBVIOUS
    <3> QED
      BY <1>5, <1>7, <3>1
  <2> QED
    BY <1>5, <1>7, <2>1, SameSeq DEF IsStream
<1> QED
  BY <1>8 DEF p, q

\* The length and the bytes of a text.
LEMMA LengthIs ==
  ASSUME NEW l \in Nat
  PROVE  IsStream(LengthField(l)) /\ Width(LengthField(l)) + l = BinaryLength(l)
<1>1. CASE l <= 245
  <2>1. IsStream(Put(1, l)) /\ Width(Put(1, l)) = 1
    BY PutStream, WidthPut
  <2> QED
    BY <1>1, <2>1 DEF LengthField, BinaryLength
<1>2. CASE ~(l <= 245)
  <2> DEFINE w == IF l <= 32767 THEN 2 ELSE 4
             m == IF l <= 32767 THEN 246 ELSE 247
             ws == <<1, w>>
             vs == <<m, l>>
  <2>1. LengthField(l) = PutAll(ws, vs)
    BY <1>2 DEF LengthField
  <2>2. w \in Nat \ {0} /\ 1 \in Nat \ {0}
    OBVIOUS
  <2>3. BinaryLength(l) = 1 + w + l
    BY <1>2 DEF BinaryLength
  <2>0. TwoFields(ws, vs, 1, w, m, l)
    BY <2>2 DEF TwoFields
  <2> HIDE DEF w, m, ws, vs
  <2>4. LengthField(l) = Put(1, m) \o Put(w, l)
    <3>1. PutAll(ws, vs) = Put(1, m) \o Put(w, l)
      BY <2>0, PutTwo
    <3> QED
      BY <2>1, <3>1
  <2>5. IsStream(Put(1, m)) /\ IsStream(Put(w, l)) /\ Width(Put(1, m)) = 1 /\ Width(Put(w, l)) = w
    BY <2>2, PutStream, WidthPut
  <2>6. IsStream(LengthField(l)) /\ Width(LengthField(l)) = 1 + w
    BY <2>4, <2>5, StreamJoined, WidthJoined
  <2> QED
    BY <2>2, <2>3, <2>6
<1> QED
  BY <1>1, <1>2

\* A length with its bytes is as long as it was computed.
LEMMA LengthAndBytesAre ==
  ASSUME NEW b, IsBytes(b)
  PROVE  /\ IsStream(EmitLengthAndBytes(b[2], b[1]))
         /\ Width(EmitLengthAndBytes(b[2], b[1])) = BinaryLength(b[2])
         /\ IsStream(Put(b[2], b[1])) /\ IsStream(LengthField(b[2])) /\ b[2] \in Nat
<1>1. b[2] \in Nat
  BY DEF IsBytes
<1>2. IsStream(Put(b[2], b[1])) /\ Width(Put(b[2], b[1])) = b[2]
  BY <1>1, PutStream, WidthPut
<1>3. IsStream(LengthField(b[2])) /\ Width(LengthField(b[2])) + b[2] = BinaryLength(b[2])
  BY <1>1, LengthIs
<1>4. /\ IsStream(LengthField(b[2]) \o Put(b[2], b[1]))
      /\ Width(LengthField(b[2]) \o Put(b[2], b[1])) = Width(LengthField(b[2])) + b[2]
  BY <1>2, <1>3, StreamJoined, WidthJoined
<1> QED
  BY <1>1, <1>2, <1>3, <1>4 DEF EmitLengthAndBytes

\* The length as the database reads it.
LengthRead(in) ==
    Then(Rd1(1, in), LAMBDA l8, s :
         CASE l8 = 246 -> Rd1(2, s) [] l8 = 247 -> Rd1(4, s) [] OTHER -> Done(l8, s))

\* A length is read by the width it was written with.
LEMMA LengthIsRead ==
  ASSUME NEW l \in Nat, NEW s, IsStream(s)
  PROVE  LengthRead(LengthField(l) \o s) = Done(l, s)
<1> DEFINE G(k, t) == CASE k = 246 -> Rd1(2, t) [] k = 247 -> Rd1(4, t) [] OTHER -> Done(k, t)
<1>0. ASSUME NEW in, NEW k, NEW t, Rd1(1, in) = Done(k, t) PROVE LengthRead(in) = G(k, t)
  <2> DEFINE r == Rd1(1, in)
  <2>1. r.ok /\ r.v = k /\ r.in = t
    BY <1>0 DEF Done
  <2>2. LengthRead(in) = IF r.ok THEN G(r.v, r.in) ELSE r
    BY DEF LengthRead, Then
  <2> HIDE DEF r, G
  <2> QED
    BY <2>1, <2>2
<1>1. CASE l <= 245
  <2>1. LengthField(l) = Put(1, l)
    BY <1>1 DEF LengthField
  <2>2. Rd1(1, Put(1, l) \o s) = Done(l, s)
    BY Rd1Put
  <2>3. G(l, s) = Done(l, s)
    BY <1>1
  <2> HIDE DEF G
  <2> QED
    BY <1>0, <2>1, <2>2, <2>3
<1>2. CASE ~(l <= 245)
  <2> DEFINE w == IF l <= 32767 THEN 2 ELSE 4
             m == IF l <= 32767 THEN 246 ELSE 247
             ws == <<1, w>>
             vs == <<m, l>>
             t == Put(w, l) \o s
  <2>1. LengthField(l) = PutAll(ws, vs)
    BY <1>2 DEF LengthField
  <2>2. w \in Nat \ {0} /\ 1 \in Nat \ {0}
    OBVIOUS
  <2>7. G(m, t) = Rd1(w, t)
    <3> HIDE DEF t
    <3> QED
      OBVIOUS
  <2>0. TwoFields(ws, vs, 1, w, m, l)
    BY <2>2 DEF TwoFields
  <2> HIDE DEF w, m, ws, vs
  <2>4. LengthField(l) = Put(1, m) \o Put(w, l)
    <3>1. PutAll(ws, vs) = Put(1, m) \o Put(w, l)
      BY <2>0, PutTwo
    <3> QED
      BY <2>1, <3>1
  <2>5. IsStream(Put(1, m)) /\ IsStream(Put(w, l)) /\ IsStream(t)
    BY <2>2, PutStream, StreamJoined
  <2>6. LengthField(l) \o s = Put(1, m) \o t
    BY <2>4, <2>5, Joined DEF IsStream
  <2>8. Rd1(w, t) = Done(l, s)
    BY <2>2, Rd1Put
  <2>9. Rd1(1, Put(1, m) \o t) = Done(m, t)
    <3> HIDE DEF t
    <3> QED
      BY <2>5, Rd1Put
  <2> HIDE DEF G, t
  <2> QED
    BY <1>0, <2>6, <2>7, <2>8, <2>9
<1> QED
  BY <1>1, <1>2

\* The database takes the bytes that were written with their length.
LEMMA BytesAreTaken ==
  ASSUME NEW b, IsBytes(b), NEW s, IsStream(s)
  PROVE  TakeBytes(EmitLengthAndBytes(b[2], b[1]) \o s) = Done(b, s)
<1> DEFINE body == Put(b[2], b[1])
           in == EmitLengthAndBytes(b[2], b[1]) \o s
           r == LengthRead(in)
<1>1. IsStream(body) /\ IsStream(LengthField(b[2])) /\ b[2] \in Nat
  BY LengthAndBytesAre
<1>2. in = LengthField(b[2]) \o (body \o s)
  BY <1>1, Joined, SMTT(60) DEF IsStream, EmitLengthAndBytes
<1>3. IsStream(body \o s)
  BY <1>1, StreamJoined
<1>4. RdBytes(b[2], body \o s) = Done(b, s)
  BY RdBytesPut
<1> HIDE DEF body
<1>5. r = Done(b[2], body \o s)
  BY <1>1, <1>2, <1>3, LengthIsRead
<1>6. r.ok /\ r.v = b[2] /\ r.in = body \o s
  BY <1>5 DEF Done
<1>7. TakeBytes(in) = IF r.ok THEN RdBytes(r.v, r.in) ELSE r
  <2> HIDE DEF in
  <2> QED
    BY DEF TakeBytes, LengthRead, Then
<1> HIDE DEF r
<1> QED
  BY <1>4, <1>6, <1>7
-----------------------------------------------------------------------------
(* Values.                                                                 *)

Accepted(val, d) ==
    \/ val.t = "NULL"
    \/ /\ TypeIdForEmit(val, d.type) # "Err"
       /\ MatchesValueType(d.type, TypeIdForEmit(val, d.type))

Code(val, d) == Put(1, TypeCode[TypeIdForEmit(val, d.type)] + (IF val.t = "NULL" THEN 128 ELSE 0))

\* The types and their widths.
LEMMA TypesAre ==
  /\ IntTypes = {"TINYINT", "SMALLINT", "INT", "BIGINT"} /\ FixedTypes = {"FIXED8", "FIXED12", "FIXED16"}
  /\ DecTypes = {"FIXED8", "FIXED12", "FIXED16", "DECIMAL"}
  /\ DOMAIN DateWidth = {"LONGDATE", "SECONDDATE", "DAYDATE", "SECONDTIME"}
  /\ DateWidth["LONGDATE"] = 8 /\ DateWidth["SECONDDATE"] = 8
  /\ DateWidth["DAYDATE"] = 4 /\ DateWidth["SECONDTIME"] = 4
  /\ IntWidth["TINYINT"] = 1 /\ IntWidth["SMALLINT"] = 2 /\ IntWidth["INT"] = 4 /\ IntWidth["BIGINT"] = 8
  /\ FixedWidth["FIXED8"] = 8 /\ FixedWidth["FIXED12"] = 12 /\ FixedWidth["FIXED16"] = 16
  /\ LobVariants = {"CLOB", "NCLOB", "BLOB", "LOBSTREAM"}
<1> QED
  BY DEF IntTypes, FixedTypes, DecTypes, DateWidth, IntWidth, FixedWidth, LobVariants

\* What is written before what was written, whether it succeeded or failed.
LEMMA PutBefore ==
  ASSUME NEW x, NEW b, NEW c
  PROVE  /\ [Done(x, b) EXCEPT !.in = c \o @] = Done(x, c \o b)
         /\ [Fail(b) EXCEPT !.in = c \o @] = Fail(c \o b)
<1>1. ASSUME NEW ok, NEW v, NEW y
      PROVE  [[ok |-> ok, v |-> v, in |-> b] EXCEPT !.in = y] = [ok |-> ok, v |-> v, in |-> y]
  OBVIOUS
<1> DEFINE t == TRUE  f == FALSE  g == Garbage  y == c \o b
<1>2. Done(x, b).in = b /\ Fail(b).in = b
  BY DEF Done, Fail
<1>3. [[ok |-> t, v |-> x, in |-> b] EXCEPT !.in = y] = [ok |-> t, v |-> x, in |-> y]
  <2> HIDE DEF t, y
  <2> QED
    BY <1>1
<1>4. [[ok |-> f, v |-> g, in |-> b] EXCEPT !.in = y] = [ok |-> f, v |-> g, in |-> y]
  <2> HIDE DEF f, y, g
  <2> QED
    BY <1>1
<1>5. [Done(x, b) EXCEPT !.in = y] = Done(x, y)
  BY <1>3, Zenon DEF Done
<1>6. [Fail(b) EXCEPT !.in = y] = Fail(y)
  BY <1>4, Zenon DEF Fail
<1> HIDE DEF t, f, g
<1>7. [Done(x, b) EXCEPT !.in = c \o @] = [Done(x, b) EXCEPT !.in = y]
  BY <1>2, Zenon
<1>8. [Fail(b) EXCEPT !.in = c \o @] = [Fail(b) EXCEPT !.in = y]
  BY <1>2, Zenon
<1> QED
  BY <1>5, <1>6, <1>7, <1>8, Zenon

\* A decimal is written, or nothing is.
LEMMA DecimalIsWritten ==
  ASSUME NEW bd, NEW type, NEW scale
  PROVE  \/ \E b : EmitDecimal(bd, type, scale) = Done(<<>>, b)
         \/ EmitDecimal(bd, type, scale) = Fail(<<>>)
<1> DEFINE n == WithScale(bd[1], bd[2], scale)
           F == FromBigdecimal(bd)
           B1 == Put(IF Signed(FixedBits[12], n) THEN 12 ELSE 13, n)
           B2 == Put(FixedWidth[type], n)
           Q == Signed(FixedBits[FixedWidth[type]], n)
<1>1. (\E b : F = Done(<<>>, b)) \/ F = Fail(<<>>)
  <2> DEFINE s == Stripped(bd[1], bd[2])
             cut == CHOOSE k \in 0..Abs(s[1]) : Abs(s[1]) \div TenTo[k] < 2 ^ MantissaBits
                        /\ (k = 0 \/ Abs(s[1]) \div TenTo[k - 1] >= 2 ^ MantissaBits)
             m == Abs(s[1]) \div TenTo[cut]
             e == s[2] + cut
             B == PutAll(<<14, 2>>, << m % (2 ^ (MantissaBits - 1)),
                                       2 * (e + 6176) + (IF s[1] < 0 THEN 2 ^ 15 ELSE 0) >>)
             C == e < -6143 \/ e > 6144
  <2>1. F = IF C THEN Fail(<<>>) ELSE Done(<<>>, B)
    BY DEF FromBigdecimal
  <2> HIDE DEF C, B, F
  <2> QED
    BY <2>1
<1>2. EmitDecimal(bd, type, scale) =
        CASE type = "DECIMAL" -> F [] type = "FIXED12" -> Done(<<>>, B1)
          [] type \in {"FIXED8", "FIXED16"} -> IF Q THEN Done(<<>>, B2) ELSE Fail(<<>>)
          [] OTHER -> Fail(<<>>)
  BY DEF EmitDecimal
<1> HIDE DEF F, B1, B2, Q
<1> QED
  BY <1>1, <1>2

\* What HdbValue::emit writes, variant by variant: the code of the type, and the content.
LEMMA EmitValueIs ==
  ASSUME NEW val, NEW d, TypeIdForEmit(val, d.type) # "Err"
  PROVE  LET r == EmitValue(val, d)
             c == Code(val, d)
         IN  /\ val.t = "NULL" => r = Done(<<>>, c \o <<>>)
             /\ val.t = "BOOLEAN" => r = Done(<<>>, c \o Put(1, 2 * val.v[1]))
             /\ val.t \in IntTypes => r = Done(<<>>, c \o Put(IntWidth[val.t], val.v[1]))
             /\ val.t \in DOMAIN DateWidth => r = Done(<<>>, c \o Put(DateWidth[val.t], val.v[1]))
             /\ val.t = "REAL" => r = Done(<<>>, c \o Put(4, val.v[1]))
             /\ val.t = "DOUBLE" => r = Done(<<>>, c \o Put(8, val.v[1]))
             /\ val.t = "DECIMAL" =>
                   LET e == EmitDecimal(val.v, d.type, d.scale) IN
                   /\ r.ok = e.ok
                   /\ \A b : e = Done(<<>>, b) => r = Done(<<>>, c \o b)
             /\ val.t = "LOBSTREAM_NONE" =>
                   r = Done(<<>>, c \o PutAll(<<1, 4, 4>>, <<0, 0, 0>>))
             /\ val.t \in Binaries => r = Done(<<>>, c \o EmitLengthAndBytes(val.v[2], val.v[1]))
<1> DEFINE X0 == Fail(<<>>)
           X1 == Done(<<>>, <<>>)
           B2 == Put(1, 2 * val.v[1])
           B3 == Put(IntWidth[val.t], val.v[1])
           B4 == Put(DateWidth[val.t], val.v[1])
           B5 == Put(4, val.v[1])
           B6 == Put(8, val.v[1])
           X7 == EmitDecimal(val.v, d.type, d.scale)
           B8 == PutAll(<<1, 4, 4>>, <<0, 0, 0>>)
           B9 == EmitLengthAndBytes(val.v[2], val.v[1])
           w == CASE NotSendable(val) -> X0
                  [] val.t = "NULL" -> X1
                  [] val.t = "BOOLEAN" -> Done(<<>>, B2)
                  [] val.t \in IntTypes -> Done(<<>>, B3)
                  [] val.t \in DOMAIN DateWidth -> Done(<<>>, B4)
                  [] val.t = "REAL" -> Done(<<>>, B5)
                  [] val.t = "DOUBLE" -> Done(<<>>, B6)
                  [] val.t = "DECIMAL" -> X7
                  [] val.t = "LOBSTREAM_NONE" -> Done(<<>>, B8)
                  [] OTHER -> Done(<<>>, B9)
           c == Code(val, d)
           r == EmitValue(val, d)
<1>1. r = [w EXCEPT !.in = c \o @]
  BY DEF EmitValue, Code
<1>2. /\ NotSendable(val) <=> val.t \in {"CLOB", "NCLOB", "BLOB", "LOBSTREAM"}
      /\ val.t \in IntTypes <=> val.t \in {"TINYINT", "SMALLINT", "INT", "BIGINT"}
      /\ val.t \in DOMAIN DateWidth <=> val.t \in {"LONGDATE", "SECONDDATE", "DAYDATE", "SECONDTIME"}
  BY TypesAre DEF NotSendable
<1> HIDE DEF B2, B3, B4, B5, B6, X7, B8, B9, X0, c, r
<1>3. /\ val.t = "NULL" => w = Done(<<>>, <<>>)
      /\ val.t = "BOOLEAN" => w = Done(<<>>, B2)
      /\ val.t \in IntTypes => w = Done(<<>>, B3)
      /\ val.t \in DOMAIN DateWidth => w = Done(<<>>, B4)
      /\ val.t = "REAL" => w = Done(<<>>, B5)
      /\ val.t = "DOUBLE" => w = Done(<<>>, B6)
      /\ val.t = "DECIMAL" => w = X7
      /\ val.t = "LOBSTREAM_NONE" => w = Done(<<>>, B8)
      /\ val.t \in {"STR", "STRING", "BINARY", "GEOMETRY", "POINT"} => w = Done(<<>>, B9)
  BY <1>2
<1> HIDE DEF w
<1>4. ASSUME NEW b, w = Done(<<>>, b) PROVE r = Done(<<>>, c \o b)
  BY <1>1, <1>4, PutBefore
<1>5. val.t = "DECIMAL" => r.ok = X7.ok
  <2> SUFFICES ASSUME val.t = "DECIMAL" PROVE r.ok = X7.ok
    OBVIOUS
  <2>1. (\E b : X7 = Done(<<>>, b)) \/ X7 = Fail(<<>>)
    BY DecimalIsWritten DEF X7
  <2>2. CASE \E b : X7 = Done(<<>>, b)
    <3>1. PICK b : X7 = Done(<<>>, b)
      BY <2>2
    <3>2. w = Done(<<>>, b)
      BY <1>3, <3>1
    <3>3. r = Done(<<>>, c \o b)
      BY <1>4, <3>2
    <3> QED
      BY <3>1, <3>3 DEF Done
  <2>3. CASE X7 = Fail(<<>>)
    <3>1. r = Fail(c \o <<>>)
      BY <1>1, <1>3, <2>3, PutBefore
    <3> QED
      BY <2>3, <3>1 DEF Fail
  <2> QED
    BY <2>1, <2>2, <2>3
<1>6. val.t = "DECIMAL" => /\ r.ok = X7.ok
                           /\ \A b : X7 = Done(<<>>, b) => r = Done(<<>>, c \o b)
  BY <1>3, <1>4, <1>5
<1>7. /\ val.t = "NULL" => r = Done(<<>>, c \o <<>>)
      /\ val.t = "BOOLEAN" => r = Done(<<>>, c \o B2)
      /\ val.t \in IntTypes => r = Done(<<>>, c \o B3)
      /\ val.t \in DOMAIN DateWidth => r = Done(<<>>, c \o B4)
      /\ val.t = "REAL" => r = Done(<<>>, c \o B5)
      /\ val.t = "DOUBLE" => r = Done(<<>>, c \o B6)
      /\ val.t = "LOBSTREAM_NONE" => r = Done(<<>>, c \o B8)
      /\ val.t \in {"STR", "STRING", "BINARY", "GEOMETRY", "POINT"} => r = Done(<<>>, c \o B9)
  BY <1>3, <1>4
<1> QED
  BY <1>6, <1>7 DEF B2, B3, B4, B5, B6, X7, B8, B9, c, r, Binaries
-----------------------------------------------------------------------------
(* Decimals.                                                               *)
ReadsAs(word, e, k) ==
    /\ word \in Nat /\ word % 2 = 0 /\ ((word % 32768) \div 2) - 6176 = e
    /\ (word >= 32768 <=> k # 0)

\* A number doubled comes back from 15 bits, with and without the sign above them.
LEMMA Doubled ==
  ASSUME NEW n \in Nat, n < 16384
  PROVE  /\ 2 * n \in Nat /\ (2 * n) % 2 = 0 /\ ((2 * n) % 32768) \div 2 = n /\ 2 * n < 32768
         /\ 2 * n + 32768 \in Nat /\ (2 * n + 32768) % 2 = 0 /\ ((2 * n + 32768) % 32768) \div 2 = n
<1>1. 2 * n \in Nat /\ 2 * n < 32768
  OBVIOUS
<1>2. (2 * n) % 32768 = 2 * n /\ (2 * n + 32768) % 32768 = 2 * n
  OBVIOUS
<1>3. (2 * n) \div 2 = n
  OBVIOUS
<1>4. (2 * n) % 2 = 0 /\ (2 * n + 32768) % 2 = 0 /\ 2 * n + 32768 \in Nat
  OBVIOUS
<1> QED
  BY <1>1, <1>2, <1>3, <1>4

\* The exponent and the sign come back from the two bytes that hold them.
LEMMA Shift ==
  ASSUME NEW e \in Int, -6143 <= e, e <= 6144, NEW k \in {0, 32768}
  PROVE  ReadsAs(2 * (e + 6176) + k, e, k)
<1> DEFINE n == e + 6176
<1>1. n \in Nat /\ n < 16384 /\ n - 6176 = e
  OBVIOUS
<1> HIDE DEF n
<1> DEFINE w == 2 * n  x == 2 * n + 32768
<1>2. w \in Nat /\ w % 2 = 0 /\ (w % 32768) \div 2 = n /\ w < 32768
  BY <1>1, Doubled
<1>3. x \in Nat /\ x % 2 = 0 /\ (x % 32768) \div 2 = n
  BY <1>1, Doubled
<1>4. x = w + 32768 /\ w + 0 = w
  BY <1>1
<1> HIDE DEF w, x
<1>5. ReadsAs(w, e, 0)
  BY <1>1, <1>2 DEF ReadsAs
<1>6. ReadsAs(x, e, 32768)
  <2>1. x >= 32768 /\ 32768 # 0
    BY <1>2, <1>4
  <2> QED
    BY <1>1, <1>3, <2>1 DEF ReadsAs
<1>7. ReadsAs(w + k, e, k)
  BY <1>4, <1>5, <1>6
<1> QED
  BY <1>7 DEF n, w

\* By how many digits a mantissa is shortened.
DigitsCut(n) == CHOOSE k \in 0..n : n \div TenTo[k] < 2 ^ MantissaBits
                /\ (k = 0 \/ n \div TenTo[k - 1] >= 2 ^ MantissaBits)

\* What is made of a number, stripped of its zeros, and the digits to cut.
Packed(s, cut) ==
    LET e == s[2] + cut IN
    IF e < -6143 \/ e > 6144 THEN Fail(<<>>)
    ELSE Done(<<>>, PutAll(<<14, 2>>,
              <<(Abs(s[1]) \div TenTo[cut]) % (2 ^ (MantissaBits - 1)),
                2 * (e + 6176) + (IF s[1] < 0 THEN 2 ^ 15 ELSE 0)>>))

\* A decimal is packed with the digits cut that do not fit.
LEMMA FromBigdecimalIs ==
  ASSUME NEW bd
  PROVE  FromBigdecimal(bd) = Packed(Stripped(bd[1], bd[2]), DigitsCut(Abs(Stripped(bd[1], bd[2])[1])))
<1> QED
  BY DEF FromBigdecimal, Packed, DigitsCut

\* What the sign adds to the word.
LEMMA SignBit == ASSUME NEW n PROVE (IF n < 0 THEN 2 ^ 15 ELSE 0) = IF n < 0 THEN 32768 ELSE 0
<1>1. 2 ^ 15 = 32768
  BY SMTT(60)
<1> QED
  BY <1>1

IsShort(bd) == Abs(Stripped(bd[1], bd[2])[1]) < 2 ^ (MantissaBits - 1)

\* A short mantissa is not cut.
LEMMA NotCut ==
  ASSUME NEW a \in Nat, a < 2 ^ (MantissaBits - 1)
  PROVE  DigitsCut(a) = 0
<1> DEFINE L == 2 ^ MantissaBits
           Good(k) == a \div TenTo[k] < L /\ (k = 0 \/ a \div TenTo[k - 1] >= L)
<1>1. L \in Nat /\ a < L
  BY PowerAssumption
<1> HIDE DEF L
<1>2. ASSUME NEW k \in Nat PROVE a \div TenTo[k] <= a /\ a \div TenTo[k] \in Nat
  <2> DEFINE t == TenTo[k]
  <2>1. t \in Nat \ {0}
    BY TenToIs
  <2> HIDE DEF t
  <2>2. a = t * (a \div t) + (a % t) /\ a \div t \in Nat /\ a % t \in Nat
    BY <2>1
  <2> DEFINE q == a \div t  r == a % t
  <2>3. q \in Nat /\ r \in Nat /\ a = t * q + r
    BY <2>2
  <2> HIDE DEF q, r
  <2> DEFINE p == t * q
  <2>4. p \in Nat /\ p >= q
    BY <2>1, <2>3
  <2>6. a = p + r
    BY <2>3
  <2> HIDE DEF p
  <2>5. q <= a /\ q \in Nat
    BY <2>3, <2>4, <2>6
  <2> QED
    BY <2>5 DEF q, t
<1>3. Good(0)
  <2>1. a \div TenTo[0] <= a /\ a \div TenTo[0] \in Nat
    BY <1>2
  <2> QED
    BY <1>1, <2>1
<1>4. ASSUME NEW k \in 0..a, Good(k) PROVE k = 0
  <2> SUFFICES ASSUME k # 0 PROVE FALSE
    OBVIOUS
  <2>1. a \div TenTo[k - 1] <= a /\ a \div TenTo[k - 1] \in Nat
    BY <1>2
  <2> QED
    BY <1>1, <1>4, <2>1
<1>5. 0 \in 0..a
  OBVIOUS
<1> HIDE DEF Good
<1>6. (CHOOSE k \in 0..a : Good(k)) = 0
  BY <1>3, <1>4, <1>5
<1> QED
  BY <1>6 DEF DigitsCut, Good, L

\* The kernel of the mantissa, its words, and what they are read as.
LEMMA DecimalIsSent ==
  ASSUME NEW bd, bd[1] \in Int, bd[2] \in Int, FromBigdecimal(bd).ok, IsShort(bd)
  PROVE  \E low, word :
            /\ FromBigdecimal(bd) = Done(<<>>, PutAll(<<14, 2>>, <<low, word>>))
            /\ DecimalOf(low, word) = Number(bd[1], bd[2])
<1> DEFINE s == Stripped(bd[1], bd[2])
           a == Abs(s[1])
           L == 2 ^ (MantissaBits - 1)
           cut == DigitsCut(a)
           m == a \div TenTo[cut]
           e == s[2] + cut
           k == IF s[1] < 0 THEN 32768 ELSE 0
           low == m % L
           word == 2 * (e + 6176) + k
<1>1. s[1] \in Int /\ s[2] \in Int /\ (bd[1] = 0 => s[1] = 0 /\ s[2] = bd[2])
      /\ (bd[1] # 0 => s[1] # 0 /\ Stripped(s[1], s[2]) = s)
  <2>1. CASE bd[1] = 0
    BY <2>1 DEF Stripped
  <2>2. CASE bd[1] # 0
    BY <2>2, StrippedTwice
  <2> QED
    BY <2>1, <2>2
<1>2. a \in Nat /\ a < L /\ L \in Nat \ {0}
  BY <1>1, AbsIs, PowerAssumption DEF IsShort
<1>3. cut = 0
  <2> HIDE DEF a
  <2> QED
    BY <1>2, NotCut
<1>4. m = a
  <2>1. TenTo[0] = 1
    BY TenToIs
  <2> HIDE DEF a, cut
  <2> QED
    BY <1>2, <1>3, <2>1
<1>5. e = s[2]
  <2> DEFINE x == s[2]
  <2>1. x \in Int
    BY <1>1
  <2> HIDE DEF x
  <2>2. x + 0 = x
    BY <2>1
  <2> HIDE DEF cut, s
  <2> QED
    BY <1>3, <2>2 DEF x
<1>6. FromBigdecimal(bd) = IF e < -6143 \/ e > 6144 THEN Fail(<<>>)
                           ELSE Done(<<>>, PutAll(<<14, 2>>, <<low, word>>))
  <2>1. FromBigdecimal(bd) = Packed(s, cut)
    BY FromBigdecimalIs
  <2>2. k = IF s[1] < 0 THEN 2 ^ 15 ELSE 0
    BY SignBit
  <2> HIDE DEF s, cut, k
  <2> QED
    BY <2>1, <2>2 DEF Packed
<1>7. k \in {0, 32768}
  OBVIOUS
<1>8. k # 0 <=> s[1] < 0
  BY SMT
<1> HIDE DEF k
<1>9. a = IF s[1] < 0 THEN -s[1] ELSE s[1]
  BY DEF Abs
<1>10. ~(e < -6143 \/ e > 6144)
  <2> HIDE DEF e, low, word
  <2> DEFINE out == e < -6143 \/ e > 6144
             B == PutAll(<<14, 2>>, <<low, word>>)
  <2>1. FromBigdecimal(bd) = IF out THEN Fail(<<>>) ELSE Done(<<>>, B)
    BY <1>6
  <2> HIDE DEF out, B
  <2>2. ~out
    BY <2>1 DEF Fail
  <2> QED
    BY <2>2 DEF out
<1>11. FromBigdecimal(bd) = Done(<<>>, PutAll(<<14, 2>>, <<low, word>>))
  <2> HIDE DEF e, low, word
  <2> DEFINE B == PutAll(<<14, 2>>, <<low, word>>)
  <2> HIDE DEF B
  <2> QED
    BY <1>6, <1>10 DEF B
<1>12. low = a
  <2> HIDE DEF m, a, L
  <2>1. L * 0 + a = a /\ a \in 0..(L - 1) /\ 0 \in Nat
    BY <1>2
  <2>2. (L * 0 + a) % L = a
    BY <1>2, <2>1, QuotientIs
  <2> QED
    BY <1>4, <2>1, <2>2
<1> HIDE DEF a, cut, m, L, low
<1>13. e \in Int /\ -6143 <= e /\ e <= 6144
  <2>1. e \in Int
    BY <1>1, <1>5
  <2> HIDE DEF e
  <2> QED
    BY <1>10, <2>1
<1> HIDE DEF e
<1>14. /\ word \in Nat /\ word % 2 = 0 /\ ((word % (2 ^ 15)) \div 2) - 6176 = e
       /\ (word >= 2 ^ 15 <=> k # 0)
  <2>1. ReadsAs(word, e, k)
    <3> HIDE DEF k
    <3> QED
      BY <1>7, <1>13, Shift
  <2>2. 2 ^ 15 = 32768
    BY SMTT(60)
  <2> HIDE DEF word
  <2> QED
    BY <2>1, <2>2 DEF ReadsAs
<1> HIDE DEF word
<1>15. DecimalOf(low, word) = Number(s[1], s[2])
  <2> DEFINE x == IF word >= 2 ^ 15 THEN -1 ELSE 1
             y == low + (word % 2) * (2 ^ (MantissaBits - 1))
  <2>1. DecimalOf(low, word) = Number(x * y, ((word % (2 ^ 15)) \div 2) - 6176)
    BY DEF DecimalOf
  <2>2. y = a
    <3>1. (word % 2) * L = 0
      BY <1>2, <1>14
    <3> QED
      BY <1>2, <1>12, <3>1 DEF L
  <2>3. x = IF s[1] < 0 THEN -1 ELSE 1
    BY <1>8, <1>14
  <2> HIDE DEF x, y, s
  <2>4. x * y = s[1]
    <3>1. CASE s[1] < 0
      BY <1>1, <1>9, <2>2, <2>3, <3>1
    <3>2. CASE ~(s[1] < 0)
      BY <1>1, <1>9, <2>2, <2>3, <3>2
    <3> QED
      BY <3>1, <3>2
  <2> QED
    BY <1>5, <1>14, <2>1, <2>4
<1>16. Number(s[1], s[2]) = Number(bd[1], bd[2])
  BY <1>1 DEF Number
<1> QED
  BY <1>11, <1>15, <1>16
-----------------------------------------------------------------------------
(* A value is taken as the database is told it.                            *)
Sends(val, d) ==
    /\ IsValue(val) /\ IsColumn(d) /\ Accepted(val, d) /\ SizeIsOk(val, d.type)
    /\ val.t = "LOBSTREAM_NONE" => d.type \in LobColumns
    /\ ~Overflows(val, d, FixedTypes)
    /\ val.t = "DECIMAL" /\ d.type = "DECIMAL" => FromBigdecimal(val.v).ok /\ IsShort(val.v)

\* The bytes b are the value v for the column d, whatever follows.
IsTakenAs(d, b, v) ==
    IsStream(b) /\ \A s : IsStream(s) => TakeParameter(d, b \o s) = Done(v, s)

\* With its code before it, a content is taken as a parameter.
LEMMA CodeBefore ==
  ASSUME NEW d, NEW c, NEW x, IsStream(x), NEW v,
         \A s : IsStream(s) => TakeContent(d, c, x \o s) = Done(v, s)
  PROVE  IsTakenAs(d, Put(1, c) \o x, v) /\ Width(Put(1, c) \o x) = 1 + Width(x)
<1>1. IsStream(Put(1, c)) /\ Width(Put(1, c)) = 1
  BY PutStream, WidthPut
<1>2. IsStream(Put(1, c) \o x) /\ Width(Put(1, c) \o x) = 1 + Width(x)
  BY <1>1, StreamJoined, WidthJoined
<1>3. ASSUME NEW s, IsStream(s) PROVE TakeParameter(d, (Put(1, c) \o x) \o s) = Done(v, s)
  <2>1. TakeParameter(d, (Put(1, c) \o x) \o s) = TakeContent(d, c, x \o s)
    BY <1>3, CodeIsTaken
  <2> QED
    BY <1>3, <2>1
<1> QED
  BY <1>2, <1>3 DEF IsTakenAs

\* A number behind its code.
LEMMA NumberBehind ==
  ASSUME NEW d, NEW c \in DOMAIN CodeWidth, NEW w, w = CodeWidth[c], NEW n
  PROVE  /\ IsTakenAs(d, Put(1, c) \o Put(w, n), ContentOf(c, d, n))
         /\ Width(Put(1, c) \o Put(w, n)) = 1 + w
<1>1. w \in Nat
  BY CodeWidthIs
<1>2. IsStream(Put(w, n)) /\ Width(Put(w, n)) = w
  BY <1>1, PutStream, WidthPut
<1>3. ASSUME NEW s, IsStream(s) PROVE TakeContent(d, c, Put(w, n) \o s) = Done(ContentOf(c, d, n), s)
  BY <1>3, NumberIsTaken
<1> QED
  BY <1>2, <1>3, CodeBefore

\* Bytes behind their code.
LEMMA BytesBehind ==
  ASSUME NEW d, NEW c \in {12, 29}, NEW b, IsBytes(b)
  PROVE  LET x == EmitLengthAndBytes(b[2], b[1]) IN
         /\ IsTakenAs(d, Put(1, c) \o x, Content(IF c = 12 THEN "bytes" ELSE "text", b))
         /\ Width(Put(1, c) \o x) = 1 + BinaryLength(b[2])
<1> DEFINE x == EmitLengthAndBytes(b[2], b[1])
           v == Content(IF c = 12 THEN "bytes" ELSE "text", b)
<1>1. IsStream(x) /\ Width(x) = BinaryLength(b[2])
  BY LengthAndBytesAre
<1>2. ASSUME NEW s, IsStream(s) PROVE TakeContent(d, c, x \o s) = Done(v, s)
  <2> DEFINE in == x \o s
             r == TakeBytes(in)
  <2>1. r = Done(b, s)
    BY <1>2, BytesAreTaken
  <2>2. r.ok /\ r.v = b /\ r.in = s
    BY <2>1 DEF Done
  <2> HIDE DEF in
  <2>3. TakeContent(d, c, in) =
            IF r.ok THEN Done(Content(IF c = 12 THEN "bytes" ELSE "text", r.v), r.in) ELSE r
    <3>1. c \in Nat
      OBVIOUS
    <3> HIDE DEF r
    <3>2. LET t == TakeBytes(in) IN
          TakeContent(d, c, in) =
            IF t.ok THEN Done(Content(IF c = 12 THEN "bytes" ELSE "text", t.v), t.in) ELSE t
      BY <3>1, TakeContentIs
    <3> QED
      BY <3>2 DEF r
  <2> HIDE DEF r
  <2> QED
    BY <2>2, <2>3 DEF in
<1> HIDE DEF x, v
<1>3. IsTakenAs(d, Put(1, c) \o x, v) /\ Width(Put(1, c) \o x) = 1 + Width(x)
  BY <1>1, <1>2, CodeBefore
<1> QED
  BY <1>1, <1>3 DEF x, v

\* The code of a NULL, and nothing behind it.
LEMMA NullBehind ==
  ASSUME NEW d, NEW c \in Nat, c >= 128
  PROVE  /\ IsTakenAs(d, Put(1, c) \o <<>>, Null)
         /\ Width(Put(1, c) \o <<>>) = 1
<1>1. ASSUME NEW s, IsStream(s) PROVE TakeContent(d, c, <<>> \o s) = Done(Null, s)
  <2>1. <<>> \o s = s
    BY <1>1, NothingJoined DEF IsStream
  <2> QED
    BY <2>1, TakeContentIs, ZenonT(60)
<1>2. IsStream(<<>>) /\ Width(<<>>) = 0
  BY StreamNothing, WidthNothing
<1> DEFINE x == <<>>
<1> HIDE DEF x
<1>3. IsStream(x) /\ Width(x) = 0 /\ \A s : IsStream(s) => TakeContent(d, c, x \o s) = Done(Null, s)
  BY <1>1, <1>2 DEF x
<1>4. IsTakenAs(d, Put(1, c) \o x, Null) /\ Width(Put(1, c) \o x) = 1 + Width(x)
  BY <1>3, CodeBefore
<1> QED
  BY <1>3, <1>4 DEF x

\* A floating decimal behind its code.
LEMMA DecimalBehind ==
  ASSUME NEW d, NEW low, NEW word
  PROVE  LET x == PutAll(<<14, 2>>, <<low, word>>) IN
         /\ IsTakenAs(d, Put(1, 5) \o x, DecimalOf(low, word))
         /\ Width(Put(1, 5) \o x) = 17
<1> DEFINE ws == <<14, 2>>
           vs == <<low, word>>
           x == PutAll(ws, vs)
<1>1. IsSeq(ws) /\ Len(ws) = 2 /\ ws[1] = 14 /\ ws[2] = 2
  BY TwoAre
<1>2. IsSeq(vs) /\ Len(vs) = 2 /\ vs[1] = low /\ vs[2] = word
  BY TwoAre
<1>3. TwoFields(ws, vs, 14, 2, low, word)
  BY DEF TwoFields
<1>5. ASSUME NEW s, IsStream(s), NEW in, in = x \o s
      PROVE  TakeContent(d, 5, in) = Done(DecimalOf(low, word), s)
  <2> DEFINE r == Rd(ws, in)
  <2>1. r = Done(vs, s)
    <3>1. Widths(ws)
      BY <1>1 DEF Widths
    <3> HIDE DEF ws, vs
    <3> QED
      BY <1>1, <1>2, <1>5, <3>1, RdPutAll
  <2>2. r.ok /\ r.v = vs /\ r.in = s
    BY <2>1 DEF Done
  <2>3. TakeContent(d, 5, in) = IF r.ok THEN Done(DecimalOf(r.v[1], r.v[2]), r.in) ELSE r
    <3> HIDE DEF x
    <3> QED
      BY TakeContentIs
  <2> HIDE DEF r
  <2>4. vs[1] = low /\ vs[2] = word
    BY <1>2
  <2> HIDE DEF vs
  <2> QED
    BY <2>2, <2>3, <2>4
<1> HIDE DEF ws, vs
<1>6. x = Put(14, low) \o Put(2, word)
  BY <1>3, PutTwo
<1>7. IsStream(Put(14, low)) /\ IsStream(Put(2, word)) /\ Width(Put(14, low)) = 14 /\ Width(Put(2, word)) = 2
  BY PutStream, WidthPut
<1>8. IsStream(x) /\ Width(x) = 16
  BY <1>6, <1>7, StreamJoined, WidthJoined
<1> HIDE DEF x
<1>9. \A s : IsStream(s) => TakeContent(d, 5, x \o s) = Done(DecimalOf(low, word), s)
  BY <1>5
<1>10. IsTakenAs(d, Put(1, 5) \o x, DecimalOf(low, word)) /\ Width(Put(1, 5) \o x) = 1 + Width(x)
  BY <1>8, <1>9, CodeBefore
<1> QED
  BY <1>8, <1>10 DEF x, ws, vs

\* The header of a LOB without data, behind its code.
LEMMA NoLobBehind ==
  ASSUME NEW d, NEW c \in {25, 26, 27, 51, 53}
  PROVE  LET x == PutAll(<<1, 4, 4>>, <<0, 0, 0>>) IN
         /\ IsTakenAs(d, Put(1, c) \o x, Content("lob header", <<0, 0, 0>>))
         /\ Width(Put(1, c) \o x) = 10
<1> DEFINE ws == <<1, 4, 4>>
           vs == <<0, 0, 0>>
           x == PutAll(ws, vs)
           v == Content("lob header", vs)
<1>1. IsSeq(ws) /\ Len(ws) = 3 /\ ws[1] = 1 /\ ws[2] = 4 /\ ws[3] = 4
  BY ThreeAre
<1>2. IsSeq(vs) /\ Len(vs) = 3
  BY ThreeAre
<1>3. Total(ws) = 9
  <2> DEFINE a == <<1>>  b == <<1, 4>>
  <2>1. Numbers(a) /\ Total(a) = 1
    BY TotalOne
  <2>2. b = Append(a, 4) /\ ws = Append(b, 4)
    OBVIOUS
  <2>3. 4 \in Nat
    OBVIOUS
  <2> HIDE DEF a, b, ws
  <2>4. Numbers(Append(a, 4)) /\ Total(Append(a, 4)) = Total(a) + 4
    BY <2>1, <2>3, TotalAppend
  <2>5. Numbers(b) /\ Total(b) = 5
    BY <2>1, <2>2, <2>4
  <2>6. Total(Append(b, 4)) = Total(b) + 4
    BY <2>3, <2>5, TotalAppend
  <2> QED
    BY <2>2, <2>5, <2>6
<1>4. Widths(ws)
  <2>1. \A i \in 1..3 : i = 1 \/ i = 2 \/ i = 3
    OBVIOUS
  <2> HIDE DEF ws
  <2> QED
    BY <1>1, <2>1 DEF Widths
<1> HIDE DEF ws, vs
<1>5. IsStream(x) /\ Width(x) = 9
  BY <1>3, <1>4, PutAllIs, WidthPutAll
<1>6. ASSUME NEW s, IsStream(s), NEW in, in = x \o s
      PROVE  TakeContent(d, c, in) = Done(v, s)
  <2> DEFINE r == Rd(ws, in)
  <2>1. r = Done(vs, s)
    BY <1>1, <1>2, <1>4, <1>6, RdPutAll
  <2>2. r.ok /\ r.v = vs /\ r.in = s
    BY <2>1 DEF Done
  <2>3. TakeContent(d, c, in) = IF r.ok THEN Done(Content("lob header", r.v), r.in) ELSE r
    <3>1. c \in Nat
      OBVIOUS
    <3> HIDE DEF r
    <3>2. LET t == Rd(<<1, 4, 4>>, in) IN
          TakeContent(d, c, in) = IF t.ok THEN Done(Content("lob header", t.v), t.in) ELSE t
      BY <3>1, TakeContentIs
    <3> QED
      BY <3>2 DEF r, ws
  <2> HIDE DEF r
  <2> QED
    BY <2>2, <2>3
<1> HIDE DEF x, v
<1>7. \A s : IsStream(s) => TakeContent(d, c, x \o s) = Done(v, s)
  BY <1>6
<1>8. IsTakenAs(d, Put(1, c) \o x, v) /\ Width(Put(1, c) \o x) = 1 + Width(x)
  BY <1>5, <1>7, CodeBefore
<1>9. IsTakenAs(d, Put(1, c) \o x, v) /\ Width(Put(1, c) \o x) = 10
  BY <1>5, <1>8
<1> QED
  BY <1>9, Zenon DEF x, v, ws, vs
-----------------------------------------------------------------------------
(* Every value that is sent is taken, in as many bytes as its size says.   *)
IsSent(val, d, b) ==
    /\ EmitValue(val, d) = Done(<<>>, b)
    /\ IsTakenAs(d, b, Told(val, d))
    /\ Width(b) = ValueSize(val, d.type)

\* What should be understood of a value, variant by variant.
LEMMA ToldIs ==
  ASSUME NEW val, NEW d
  PROVE  /\ val.t = "NULL" => Told(val, d) = Null
         /\ val.t \in {"TINYINT", "SMALLINT", "INT", "BIGINT", "BOOLEAN"} => Told(val, d) = Number(val.v[1], 0)
         /\ val.t = "DECIMAL" =>
               Told(val, d) = IF d.type \in FixedTypes
                              THEN Number(WithScale(val.v[1], val.v[2], d.scale), -d.scale)
                              ELSE Number(val.v[1], val.v[2])
         /\ val.t \in {"REAL", "DOUBLE"} => Told(val, d) = Content("float", val.v)
         /\ val.t \in {"STR", "STRING"} => Told(val, d) = Content("text", val.v)
         /\ val.t \in {"BINARY", "GEOMETRY", "POINT"} => Told(val, d) = Content("bytes", val.v)
         /\ val.t \in {"LONGDATE", "SECONDDATE", "DAYDATE", "SECONDTIME"} => Told(val, d) = Content("raw", val.v)
         /\ val.t = "LOBSTREAM_NONE" => Told(val, d) = Content("lob header", <<0, 0, 0>>)
<1> DEFINE X1 == Number(val.v[1], 0)
           X2 == IF d.type \in FixedTypes
                 THEN Number(WithScale(val.v[1], val.v[2], d.scale), -d.scale)
                 ELSE Number(val.v[1], val.v[2])
           X3 == Content("float", val.v)
           X4 == Content("text", val.v)
           X5 == Content("bytes", val.v)
           X6 == Content("raw", val.v)
           X7 == Content("lob header", <<0, 0, 0>>)
<1>1. Told(val, d) =
        CASE val.t = "NULL" -> Null
          [] val.t \in IntTypes \cup {"BOOLEAN"} -> X1
          [] val.t = "DECIMAL" -> X2
          [] val.t \in {"REAL", "DOUBLE"} -> X3
          [] val.t \in {"STR", "STRING"} -> X4
          [] val.t \in {"BINARY", "GEOMETRY", "POINT"} -> X5
          [] val.t \in DOMAIN DateWidth -> X6
          [] OTHER -> X7
  BY DEF Told
<1> HIDE DEF X1, X2, X3, X4, X5, X6, X7
<1>2. /\ val.t = "NULL" => Told(val, d) = Null
      /\ val.t \in {"TINYINT", "SMALLINT", "INT", "BIGINT", "BOOLEAN"} => Told(val, d) = X1
      /\ val.t = "DECIMAL" => Told(val, d) = X2
      /\ val.t \in {"REAL", "DOUBLE"} => Told(val, d) = X3
      /\ val.t \in {"STR", "STRING"} => Told(val, d) = X4
      /\ val.t \in {"BINARY", "GEOMETRY", "POINT"} => Told(val, d) = X5
      /\ val.t \in {"LONGDATE", "SECONDDATE", "DAYDATE", "SECONDTIME"} => Told(val, d) = X6
      /\ val.t = "LOBSTREAM_NONE" => Told(val, d) = X7
  BY <1>1, TypesAre
<1> QED
  BY <1>2 DEF X1, X2, X3, X4, X5, X6, X7

\* The type that a value announces, variant by variant.
LEMMA AnnouncedIs ==
  ASSUME NEW val, NEW type
  PROVE  LET a == TypeIdForEmit(val, type) IN
         /\ val.t = "NOTHING" => a = "Err"
         /\ val.t = "NULL" => a = IF type = "SECONDTIME" THEN "SECONDDATE" ELSE type
         /\ val.t = "DECIMAL" => a = IF type \in DecTypes THEN type ELSE "Err"
         /\ val.t \in {"CLOB", "NCLOB", "BLOB", "LOBSTREAM", "LOBSTREAM_NONE"} => a = type
         /\ val.t = "STR" => a = "STRING"
         /\ val.t \in {"GEOMETRY", "POINT"} => a = "BINARY"
         /\ val.t \in Numbered \cup {"STRING", "BINARY"} => a = val.t
<1>1. LobVariants \cup {"LOBSTREAM_NONE"} = {"CLOB", "NCLOB", "BLOB", "LOBSTREAM", "LOBSTREAM_NONE"}
  BY TypesAre
<1>2. Numbered \cup {"STRING", "BINARY"} =
        {"TINYINT", "SMALLINT", "INT", "BIGINT", "BOOLEAN", "REAL", "DOUBLE", "LONGDATE",
         "SECONDDATE", "DAYDATE", "SECONDTIME", "STRING", "BINARY"}
  BY TypesAre DEF Numbered
<1> QED
  BY <1>1, <1>2 DEF TypeIdForEmit

\* What HdbValue::size says, variant by variant.
LEMMA SizeIs ==
  ASSUME NEW val, NEW type
  PROVE  LET n == ValueSize(val, type) IN
         /\ val.t = "NULL" => n = 1
         /\ val.t = "BOOLEAN" => n = 1 + 1
         /\ val.t \in {"TINYINT", "SMALLINT", "INT", "BIGINT"} => n = 1 + IntWidth[val.t]
         /\ val.t = "REAL" => n = 1 + 4
         /\ val.t = "DOUBLE" => n = 1 + 8
         /\ val.t \in {"LONGDATE", "SECONDDATE", "DAYDATE", "SECONDTIME"} => n = 1 + DateWidth[val.t]
         /\ val.t = "DECIMAL" => n = 1 + (IF type \in FixedTypes THEN FixedWidth[type] ELSE 16)
         /\ val.t = "LOBSTREAM_NONE" => n = 1 + 9
         /\ val.t \in Binaries => n = 1 + BinaryLength(val.v[2])
<1> DEFINE X1 == IF type \in FixedTypes THEN FixedWidth[type] ELSE 16
           X2 == BinaryLength(val.v[2])
           X == CASE val.t \in {"NULL", "NOTHING"} -> 0
                  [] val.t = "BOOLEAN" -> 1
                  [] val.t \in IntTypes -> IntWidth[val.t]
                  [] val.t = "REAL" -> 4
                  [] val.t = "DOUBLE" -> 8
                  [] val.t \in DOMAIN DateWidth -> DateWidth[val.t]
                  [] val.t = "DECIMAL" -> X1
                  [] val.t = "LOBSTREAM_NONE" -> 9
                  [] OTHER -> X2
<1>1. ValueSize(val, type) = 1 + X
  BY DEF ValueSize
<1> HIDE DEF X1, X2
<1>2. /\ val.t = "NULL" => X = 0
      /\ val.t = "BOOLEAN" => X = 1
      /\ val.t \in {"TINYINT", "SMALLINT", "INT", "BIGINT"} => X = IntWidth[val.t]
      /\ val.t = "REAL" => X = 4
      /\ val.t = "DOUBLE" => X = 8
      /\ val.t \in {"LONGDATE", "SECONDDATE", "DAYDATE", "SECONDTIME"} => X = DateWidth[val.t]
      /\ val.t = "DECIMAL" => X = X1
      /\ val.t = "LOBSTREAM_NONE" => X = 9
      /\ val.t \in {"STR", "STRING", "BINARY", "GEOMETRY", "POINT"} => X = X2
  BY TypesAre
<1> HIDE DEF X
<1> QED
  BY <1>1, <1>2 DEF X1, X2, Binaries

\* The code a value is written with.
CodeOf(val, d) == TypeCode[TypeIdForEmit(val, d.type)] + (IF val.t = "NULL" THEN 128 ELSE 0)

\* What is behind the code of a number.
LEMMA ContentIs ==
  ASSUME NEW d, NEW c, NEW n
  PROVE  /\ c \in {6, 7} => ContentOf(c, d, n) = Content("float", <<n>>)
         /\ c \in {81, 82, 76} => ContentOf(c, d, n) = Number(n, -d.scale)
         /\ c \in {61, 62, 63, 64} => ContentOf(c, d, n) = Content("raw", <<n>>)
<1> DEFINE X1 == Content("float", <<n>>)
           X2 == Number(n, -d.scale)
           X3 == Content("raw", <<n>>)
           X4 == Number(IF n = 0 THEN 0 ELSE 1, 0)
           X5 == Number(n, 0)
<1>1. ContentOf(c, d, n) = CASE c \in {6, 7} -> X1 [] c \in {81, 82, 76} -> X2 [] c \in {61, 62, 63, 64} -> X3
                             [] c = 28 -> X4 [] OTHER -> X5
  BY DEF ContentOf, FloatCodes, FixedCodes, DateCodes
<1> HIDE DEF X1, X2, X3, X4, X5
<1>2. /\ c \in {1, 2, 3, 4} => ContentOf(c, d, n) = X5
      /\ c = 28 => ContentOf(c, d, n) = X4
      /\ c \in {6, 7} => ContentOf(c, d, n) = X1
      /\ c \in {81, 82, 76} => ContentOf(c, d, n) = X2
      /\ c \in {61, 62, 63, 64} => ContentOf(c, d, n) = X3
  BY <1>1
<1> QED
  BY <1>2 DEF X1, X2, X3, X4, X5

\* What an integer is for the database.
LEMMA IntIs ==
  ASSUME NEW d, NEW c, NEW n, c \in {1, 2, 3, 4}
  PROVE  ContentOf(c, d, n) = Number(n, 0)
<1>1. c \notin FloatCodes /\ c \notin FixedCodes /\ c \notin DateCodes /\ c # 28
  BY DEF FloatCodes, FixedCodes, DateCodes
<1> QED
  BY <1>1 DEF ContentOf

\* What a boolean is: 2 is written for true, and read as 1.
LEMMA BooleanIs ==
  ASSUME NEW d, NEW n
  PROVE  ContentOf(28, d, n) = Number(IF n = 0 THEN 0 ELSE 1, 0)
<1>1. 28 \notin FloatCodes /\ 28 \notin FixedCodes /\ 28 \notin DateCodes
  BY DEF FloatCodes, FixedCodes, DateCodes
<1> QED
  BY <1>1 DEF ContentOf

\* A value that is a number of so many bytes behind its code.
LEMMA NumberIsSent ==
  ASSUME NEW val, NEW d, NEW c \in DOMAIN CodeWidth, NEW w, w = CodeWidth[c], NEW n,
         CodeOf(val, d) = c,
         EmitValue(val, d) = Done(<<>>, Code(val, d) \o Put(w, n)),
         Told(val, d) = ContentOf(c, d, n), ValueSize(val, d.type) = 1 + w
  PROVE  \E b : IsSent(val, d, b)
<1> DEFINE b == Put(1, c) \o Put(w, n)
<1>1. IsTakenAs(d, b, ContentOf(c, d, n)) /\ Width(b) = 1 + w
  BY NumberBehind
<1>2. Code(val, d) = Put(1, c)
  BY DEF Code, CodeOf
<1> HIDE DEF b
<1>3. IsSent(val, d, b)
  BY <1>1, <1>2 DEF IsSent, b
<1> QED
  BY <1>3

\* An integer is sent with the announced size, and taken for the same integer.
LEMMA IntIsSent ==
  ASSUME NEW val, NEW d, Sends(val, d), val.t \in {"TINYINT", "SMALLINT", "INT", "BIGINT"}
  PROVE  \E b : IsSent(val, d, b)
<1> DEFINE c == TypeCode[val.t]
           w == IntWidth[val.t]
           n == val.v[1]
<1>1. TypeIdForEmit(val, d.type) = val.t /\ val.t # "Err" /\ val.t # "NULL"
  BY AnnouncedIs, TypesAre DEF Numbered
<1>2. c \in DOMAIN CodeWidth /\ w = CodeWidth[c] /\ c \in {1, 2, 3, 4}
  BY CodeWidthIs, TypeCodeIs, TypesAre
<1>3. CodeOf(val, d) = c
  BY <1>1, <1>2 DEF CodeOf
<1>4. EmitValue(val, d) = Done(<<>>, Code(val, d) \o Put(w, n))
  BY <1>1, EmitValueIs, TypesAre
<1>5. Told(val, d) = Number(n, 0)
  BY ToldIs
<1>6. ContentOf(c, d, n) = Number(n, 0)
  <2>1. c \in {1, 2, 3, 4}
    BY <1>2
  <2> HIDE DEF c, n
  <2> QED
    BY <2>1, IntIs
<1>7. ValueSize(val, d.type) = 1 + w
  BY SizeIs
<1> HIDE DEF c, w, n
<1> QED
  BY <1>2, <1>3, <1>4, <1>5, <1>6, <1>7, NumberIsSent

\* A boolean is.
LEMMA BooleanIsSent ==
  ASSUME NEW val, NEW d, Sends(val, d), val.t = "BOOLEAN"
  PROVE  \E b : IsSent(val, d, b)
<1> DEFINE c == 28
           w == 1
           n == 2 * val.v[1]
<1>1. TypeIdForEmit(val, d.type) = "BOOLEAN"
  BY AnnouncedIs DEF Numbered
<1>2. c \in DOMAIN CodeWidth /\ w = CodeWidth[c] /\ c = 28
  BY CodeWidthIs
<1>3. CodeOf(val, d) = c
  BY <1>1, TypeCodeIs DEF CodeOf
<1>4. EmitValue(val, d) = Done(<<>>, Code(val, d) \o Put(w, n))
  BY <1>1, EmitValueIs
<1>5. Told(val, d) = Number(val.v[1], 0)
  BY ToldIs
<1>6. val.v[1] \in {0, 1}
  BY DEF Sends, IsValue
<1>7. val.v[1] = IF n = 0 THEN 0 ELSE 1
  BY <1>6
<1> HIDE DEF c, w, n
<1>8. ContentOf(c, d, n) = Number(val.v[1], 0)
  <2>1. ContentOf(c, d, n) = Number(IF n = 0 THEN 0 ELSE 1, 0)
    BY BooleanIs DEF c
  <2> QED
    BY <1>7, <2>1
<1>9. ValueSize(val, d.type) = 1 + w
  BY SizeIs DEF w
<1> QED
  BY <1>2, <1>3, <1>4, <1>5, <1>8, <1>9, NumberIsSent

\* A float is.
LEMMA FloatIsSent ==
  ASSUME NEW val, NEW d, Sends(val, d), val.t \in {"REAL", "DOUBLE"}
  PROVE  \E b : IsSent(val, d, b)
<1> DEFINE c == IF val.t = "REAL" THEN 6 ELSE 7
           w == IF val.t = "REAL" THEN 4 ELSE 8
           n == val.v[1]
<1>1. TypeIdForEmit(val, d.type) = val.t /\ val.t # "Err" /\ val.t # "NULL"
  BY AnnouncedIs DEF Numbered
<1>2. c \in DOMAIN CodeWidth /\ w = CodeWidth[c] /\ c \in {6, 7}
  BY CodeWidthIs
<1>3. CodeOf(val, d) = c
  BY <1>1, TypeCodeIs DEF CodeOf
<1>4. EmitValue(val, d) = Done(<<>>, Code(val, d) \o Put(w, n))
  BY <1>1, EmitValueIs
<1>5. Told(val, d) = Content("float", <<n>>)
  <2>1. val.v = <<n>>
    BY DEF Sends, IsValue, Numbered
  <2> QED
    BY <2>1, ToldIs
<1>6. ContentOf(c, d, n) = Content("float", <<n>>)
  <2>1. c \in {6, 7}
    BY <1>2
  <2> HIDE DEF c, n
  <2> QED
    BY <2>1, ContentIs
<1>7. ValueSize(val, d.type) = 1 + w
  BY SizeIs
<1> HIDE DEF c, w, n
<1> QED
  BY <1>2, <1>3, <1>4, <1>5, <1>6, <1>7, NumberIsSent

\* A date is.
LEMMA DateIsSent ==
  ASSUME NEW val, NEW d, Sends(val, d), val.t \in {"LONGDATE", "SECONDDATE", "DAYDATE", "SECONDTIME"}
  PROVE  \E b : IsSent(val, d, b)
<1> DEFINE c == TypeCode[val.t]
           w == DateWidth[val.t]
           n == val.v[1]
<1>1. TypeIdForEmit(val, d.type) = val.t /\ val.t # "Err" /\ val.t # "NULL"
  BY AnnouncedIs, TypesAre DEF Numbered
<1>2. c \in DOMAIN CodeWidth /\ w = CodeWidth[c] /\ c \in {61, 62, 63, 64}
  BY CodeWidthIs, TypeCodeIs, TypesAre
<1>3. CodeOf(val, d) = c
  BY <1>1, <1>2 DEF CodeOf
<1>4. EmitValue(val, d) = Done(<<>>, Code(val, d) \o Put(w, n))
  BY <1>1, EmitValueIs, TypesAre
<1>5. Told(val, d) = Content("raw", <<n>>)
  <2>1. val.v = <<n>>
    BY TypesAre DEF Sends, IsValue, Numbered
  <2> QED
    BY <2>1, ToldIs
<1>6. ContentOf(c, d, n) = Content("raw", <<n>>)
  BY <1>2, ContentIs
<1>7. ValueSize(val, d.type) = 1 + w
  BY SizeIs
<1> HIDE DEF c, w, n
<1> QED
  BY <1>2, <1>3, <1>4, <1>5, <1>6, <1>7, NumberIsSent

\* NULL is.
LEMMA NullIsSent ==
  ASSUME NEW val, NEW d, Sends(val, d), val.t = "NULL"
  PROVE  \E b : IsSent(val, d, b)
<1> DEFINE a == TypeIdForEmit(val, d.type)
           c == TypeCode[a] + 128
           b == Put(1, c) \o <<>>
<1>1. a \in TypeIds /\ a # "Err"
  <2>1. d.type \in TypeIds
    BY DEF Sends, IsColumn
  <2>2. a = IF d.type = "SECONDTIME" THEN "SECONDDATE" ELSE d.type
    BY AnnouncedIs
  <2>3. "SECONDDATE" \in TypeIds /\ "Err" \notin TypeIds
    BY DEF TypeIds, TypeCode
  <2> QED
    BY <2>1, <2>2, <2>3
<1>2. c \in Nat /\ c >= 128
  <2>1. TypeCode[a] \in 1..82
    BY <1>1, TypeCodeSmall
  <2> HIDE DEF a
  <2> QED
    BY <2>1
<1>3. Code(val, d) = Put(1, c)
  BY DEF Code
<1>4. EmitValue(val, d) = Done(<<>>, Code(val, d) \o <<>>)
  BY <1>1, EmitValueIs
<1>5. Told(val, d) = Null
  BY ToldIs
<1>6. ValueSize(val, d.type) = 1
  BY SizeIs
<1> HIDE DEF c
<1>7. IsTakenAs(d, b, Null) /\ Width(b) = 1
  BY <1>2, NullBehind
<1>8. EmitValue(val, d) = Done(<<>>, b)
  BY <1>3, <1>4
<1> HIDE DEF b
<1> QED
  BY <1>5, <1>6, <1>7, <1>8 DEF IsSent

\* Texts and bytes are.
LEMMA BytesAreSent ==
  ASSUME NEW val, NEW d, Sends(val, d), val.t \in Binaries
  PROVE  \E b : IsSent(val, d, b)
<1> DEFINE c == IF val.t \in {"STR", "STRING"} THEN 29 ELSE 12
           x == EmitLengthAndBytes(val.v[2], val.v[1])
           b == Put(1, c) \o x
           a == TypeIdForEmit(val, d.type)
<1>1. a = (IF val.t \in {"STR", "STRING"} THEN "STRING" ELSE "BINARY") /\ val.t # "NULL"
  BY AnnouncedIs DEF Binaries
<1>2. a # "Err" /\ TypeCode[a] = c /\ c \in {12, 29}
  BY <1>1, TypeCodeIs
<1>3. Code(val, d) = Put(1, c)
  <2>1. CodeOf(val, d) = c
    BY <1>1, <1>2 DEF CodeOf
  <2> QED
    BY <2>1 DEF Code, CodeOf
<1>4. EmitValue(val, d) = Done(<<>>, Code(val, d) \o x)
  BY <1>2, EmitValueIs
<1>5. IsBytes(val.v)
  BY DEF Sends, IsValue
<1>6. Told(val, d) = Content(IF c = 12 THEN "bytes" ELSE "text", val.v)
  <2>1. CASE val.t \in {"STR", "STRING"}
    <3>1. ~(c = 12)
      BY <2>1
    <3>2. Told(val, d) = Content("text", val.v)
      BY <2>1, ToldIs
    <3> QED
      BY <3>1, <3>2
  <2>2. CASE ~(val.t \in {"STR", "STRING"})
    <3>1. val.t \in {"BINARY", "GEOMETRY", "POINT"} /\ c = 12
      BY <2>2 DEF Binaries
    <3> QED
      BY <3>1, ToldIs
  <2> QED
    BY <2>1, <2>2
<1>7. ValueSize(val, d.type) = 1 + BinaryLength(val.v[2])
  BY SizeIs
<1> HIDE DEF c, a
<1>8. /\ IsTakenAs(d, b, Content(IF c = 12 THEN "bytes" ELSE "text", val.v))
      /\ Width(b) = 1 + BinaryLength(val.v[2])
  <2> DEFINE v == val.v
  <2>1. IsBytes(v)
    BY <1>5
  <2> HIDE DEF v
  <2>2. LET y == EmitLengthAndBytes(v[2], v[1]) IN
        /\ IsTakenAs(d, Put(1, c) \o y, Content(IF c = 12 THEN "bytes" ELSE "text", v))
        /\ Width(Put(1, c) \o y) = 1 + BinaryLength(v[2])
    BY <1>2, <2>1, BytesBehind
  <2> QED
    BY <2>2 DEF v
<1>9. EmitValue(val, d) = Done(<<>>, b)
  BY <1>3, <1>4
<1> HIDE DEF b
<1> QED
  BY <1>6, <1>7, <1>8, <1>9 DEF IsSent

\* A LOB that is streamed later is.
LEMMA NoLobIsSent ==
  ASSUME NEW val, NEW d, Sends(val, d), val.t = "LOBSTREAM_NONE"
  PROVE  \E b : IsSent(val, d, b)
<1> DEFINE c == TypeCode[d.type]
           x == PutAll(<<1, 4, 4>>, <<0, 0, 0>>)
           b == Put(1, c) \o x
<1>1. TypeIdForEmit(val, d.type) = d.type /\ val.t # "NULL"
  BY AnnouncedIs
<1>2. d.type \in LobColumns
  BY DEF Sends
<1>3. d.type # "Err" /\ c \in {25, 26, 27, 51, 53}
  BY <1>2, TypeCodeIs DEF LobColumns
<1>4. Code(val, d) = Put(1, c)
  <2>1. CodeOf(val, d) = c
    <3>1. TypeCodeSmall => c + 0 = c
      BY <1>3
    <3> QED
      BY <1>1, <1>3 DEF CodeOf
  <2> QED
    BY <2>1 DEF Code, CodeOf
<1>5. EmitValue(val, d) = Done(<<>>, Code(val, d) \o x)
  BY <1>1, <1>3, EmitValueIs
<1>6. Told(val, d) = Content("lob header", <<0, 0, 0>>)
  BY ToldIs
<1>7. ValueSize(val, d.type) = 10
  BY SizeIs
<1> HIDE DEF c
<1>8. IsTakenAs(d, b, Content("lob header", <<0, 0, 0>>)) /\ Width(b) = 10
  BY <1>3, NoLobBehind
<1>9. EmitValue(val, d) = Done(<<>>, b)
  BY <1>4, <1>5
<1> HIDE DEF b
<1> QED
  BY <1>6, <1>7, <1>8, <1>9 DEF IsSent
-----------------------------------------------------------------------------
\* What HdbDecimal::emit writes into the types of decimals.
LEMMA EmitDecimalIs ==
  ASSUME NEW bd, NEW type, NEW scale
  PROVE  LET n == WithScale(bd[1], bd[2], scale)
             r == EmitDecimal(bd, type, scale)
         IN  /\ type = "DECIMAL" => r = FromBigdecimal(bd)
             /\ type \in {"FIXED8", "FIXED12", "FIXED16"} /\ Signed(FixedBits[FixedWidth[type]], n) =>
                    r = Done(<<>>, Put(FixedWidth[type], n))
<1> DEFINE n == WithScale(bd[1], bd[2], scale)
           F == FromBigdecimal(bd)
           W == IF Signed(FixedBits[12], n) THEN 12 ELSE 13
           B1 == Done(<<>>, Put(W, n))
           B2 == Done(<<>>, Put(FixedWidth[type], n))
           Q == Signed(FixedBits[FixedWidth[type]], n)
           r == EmitDecimal(bd, type, scale)
<1>1. r = CASE type = "DECIMAL" -> F [] type = "FIXED12" -> B1
            [] type \in {"FIXED8", "FIXED16"} -> IF Q THEN B2 ELSE Fail(<<>>)
            [] OTHER -> Fail(<<>>)
  BY DEF EmitDecimal
<1>2. type = "FIXED12" /\ Q => B1 = B2
  <2> SUFFICES ASSUME type = "FIXED12", Q PROVE B1 = B2
    OBVIOUS
  <2> HIDE DEF n
  <2>1. FixedWidth[type] = 12
    BY TypesAre
  <2>2. W = 12
    BY <2>1
  <2> QED
    BY <2>1, <2>2
<1> HIDE DEF F, B1, B2, Q, r
<1>3. type = "DECIMAL" => r = F
  BY <1>1
<1>4. type \in {"FIXED8", "FIXED12", "FIXED16"} /\ Q => r = B2
  BY <1>1, <1>2
<1> QED
  BY <1>3, <1>4 DEF F, B2, Q, r

\* What a number with a fixed scale is for the database.
LEMMA FixedIs ==
  ASSUME NEW d, NEW c, NEW n, c \in {81, 82, 76}
  PROVE  ContentOf(c, d, n) = Number(n, -d.scale)
<1>1. c \notin FloatCodes /\ c \in FixedCodes
  BY DEF FloatCodes, FixedCodes
<1>2. c \notin DateCodes /\ c # 28
  BY DEF DateCodes
<1> DEFINE X == Number(n, -d.scale)
<1>3. ContentOf(c, d, n) = CASE c \in FloatCodes -> Content("float", <<n>>)
      [] c \in FixedCodes -> X
      [] c \in DateCodes -> Content("raw", <<n>>)
      [] c = 28 -> Number(IF n = 0 THEN 0 ELSE 1, 0)
      [] OTHER -> Number(n, 0)
  BY DEF ContentOf
<1> HIDE DEF X
<1>4. ContentOf(c, d, n) = X
  BY <1>1, <1>2, <1>3
<1> QED
  BY <1>4 DEF X

\* A decimal is sent to a column with a fixed scale, cut off behind it.
LEMMA FixedIsSent ==
  ASSUME NEW val, NEW d, Sends(val, d), val.t = "DECIMAL", d.type \in {"FIXED8", "FIXED12", "FIXED16"}
  PROVE  \E b : IsSent(val, d, b)
<1> DEFINE c == TypeCode[d.type]
           w == FixedWidth[d.type]
           n == WithScale(val.v[1], val.v[2], d.scale)
<1>1. TypeIdForEmit(val, d.type) = d.type /\ d.type # "Err"
  BY AnnouncedIs, TypesAre
<1>2. c \in DOMAIN CodeWidth /\ w = CodeWidth[c] /\ c \in {81, 82, 76}
  BY CodeWidthIs, TypeCodeIs, TypesAre
<1>3. CodeOf(val, d) = c
  BY <1>1, <1>2 DEF CodeOf
<1>4. EmitValue(val, d) = Done(<<>>, Code(val, d) \o Put(w, n))
  <2>1. Signed(FixedBits[w], n)
    BY TypesAre DEF Sends, Overflows
  <2>2. EmitDecimal(val.v, d.type, d.scale) = Done(<<>>, Put(w, n))
    BY <2>1, EmitDecimalIs
  <2> HIDE DEF w, n
  <2> QED
    BY <1>1, <2>2, EmitValueIs
<1>5. Told(val, d) = Number(n, -d.scale)
  BY ToldIs, TypesAre
<1>6. ContentOf(c, d, n) = Number(n, -d.scale)
  <2>1. c \in {81, 82, 76}
    BY <1>2
  <2> HIDE DEF c, n
  <2> QED
    BY <2>1, FixedIs
<1>7. ValueSize(val, d.type) = 1 + w
  BY SizeIs, TypesAre
<1> HIDE DEF c, w, n
<1> QED
  BY <1>2, <1>3, <1>4, <1>5, <1>6, <1>7, NumberIsSent

\* A decimal is sent to a DECIMAL column.
LEMMA FloatingIsSent ==
  ASSUME NEW val, NEW d, Sends(val, d), val.t = "DECIMAL", d.type = "DECIMAL"
  PROVE  \E b : IsSent(val, d, b)
<1> DEFINE bd == val.v
<1>1. bd[1] \in Int /\ bd[2] \in Int /\ FromBigdecimal(bd).ok /\ IsShort(bd)
  BY DEF Sends, IsValue
<1> HIDE DEF bd
<1>2. PICK low, word : /\ FromBigdecimal(bd) = Done(<<>>, PutAll(<<14, 2>>, <<low, word>>))
                       /\ DecimalOf(low, word) = Number(bd[1], bd[2])
  BY <1>1, DecimalIsSent
<1> DEFINE x == PutAll(<<14, 2>>, <<low, word>>)
           b == Put(1, 5) \o x
<1>3. TypeIdForEmit(val, d.type) = "DECIMAL"
  BY AnnouncedIs, TypesAre
<1>4. Code(val, d) = Put(1, 5)
  <2>1. TypeCode["DECIMAL"] + 0 = 5
    BY TypeCodeIs
  <2> QED
    BY <1>3, <2>1 DEF Code
<1>5. EmitDecimal(bd, d.type, d.scale) = FromBigdecimal(bd)
  BY EmitDecimalIs
<1>6. /\ IsTakenAs(d, b, DecimalOf(low, word)) /\ Width(b) = 17
  BY DecimalBehind
<1> HIDE DEF x
<1>7. EmitValue(val, d) = Done(<<>>, b)
  <2>1. FromBigdecimal(bd) = Done(<<>>, x)
    BY <1>2 DEF x
  <2>2. EmitDecimal(val.v, d.type, d.scale) = Done(<<>>, x)
    BY <1>5, <2>1 DEF bd
  <2>3. EmitValue(val, d) = Done(<<>>, Code(val, d) \o x)
    BY <1>3, <2>2, EmitValueIs
  <2> QED
    BY <1>4, <2>3
<1>8. Told(val, d) = Number(bd[1], bd[2])
  BY ToldIs, TypesAre DEF bd
<1>9. ValueSize(val, d.type) = 17
  BY SizeIs, TypesAre
<1> HIDE DEF b
<1> QED
  BY <1>2, <1>6, <1>7, <1>8, <1>9 DEF IsSent

\* RESULT (HdbValue::size and emit): every value that can be sent for a column has as
\* many bytes as its size says, and the database takes them for the value.
THEOREM ValueIsSent ==
  ASSUME NEW val, NEW d, Sends(val, d)
  PROVE  \E b : IsSent(val, d, b)
<1>1. val.t \in {"NULL", "DECIMAL", "LOBSTREAM_NONE"} \cup {"TINYINT", "SMALLINT", "INT", "BIGINT"}
        \cup {"BOOLEAN"} \cup {"REAL", "DOUBLE"}
        \cup {"LONGDATE", "SECONDDATE", "DAYDATE", "SECONDTIME"} \cup Binaries
  <2>1. val.t \in Numbered \cup Binaries \cup LobVariants \cup {"NULL", "NOTHING", "DECIMAL", "LOBSTREAM_NONE"}
    BY DEF Sends, IsValue
  <2>2. val.t \notin {"CLOB", "NCLOB", "BLOB", "LOBSTREAM"}
    BY DEF Sends, SizeIsOk, NotSendable
  <2>3. val.t # "NOTHING"
    <3>1. val.t = "NOTHING" => TypeIdForEmit(val, d.type) = "Err"
      BY AnnouncedIs
    <3> QED
      BY <3>1 DEF Sends, Accepted
  <2> QED
    BY <2>1, <2>2, <2>3, TypesAre DEF Numbered
<1>2. CASE val.t = "NULL"
  BY <1>2, NullIsSent
<1>3. CASE val.t = "LOBSTREAM_NONE"
  BY <1>3, NoLobIsSent
<1>4. CASE val.t \in {"TINYINT", "SMALLINT", "INT", "BIGINT"}
  BY <1>4, IntIsSent
<1>5. CASE val.t = "BOOLEAN"
  BY <1>5, BooleanIsSent
<1>6. CASE val.t \in {"REAL", "DOUBLE"}
  BY <1>6, FloatIsSent
<1>7. CASE val.t \in {"LONGDATE", "SECONDDATE", "DAYDATE", "SECONDTIME"}
  BY <1>7, DateIsSent
<1>8. CASE val.t \in Binaries
  BY <1>8, BytesAreSent
<1>9. CASE val.t = "DECIMAL"
  <2>1. d.type \in {"FIXED8", "FIXED12", "FIXED16", "DECIMAL"}
    BY <1>9, TypesAre DEF Sends, SizeIsOk
  <2> QED
    BY <1>9, <2>1, FixedIsSent, FloatingIsSent
<1> QED
  BY <1>1, <1>2, <1>3, <1>4, <1>5, <1>6, <1>7, <1>8, <1>9
-----------------------------------------------------------------------------
(* Days: what is stored for one is shown as it.                            *)

\* The days of the month m of the year y, without those that were skipped in 1582.
DaysIn(y, m) ==
  CASE m = 2 -> IF IsLeap(y) THEN 29 ELSE 28
    [] m \in {4, 6, 9, 11} -> 30
    [] OTHER -> 31

IsDay(y, m, d) ==
  /\ y \in Nat \ {0} /\ m \in 1..12 /\ d \in 1..DaysIn(y, m)
  /\ ~(y = 1582 /\ m = 10 /\ d \in 5..14)

\* The year that begins in March, and the day in it.
MarchYear(y, m) == IF m > 2 THEN y ELSE y - 1
MarchDay(m, d) == DaysBefore[m] + d - 1 + (IF m > 2 THEN 0 - 59 ELSE 306)

\* The number of a day in the Julian calendar, by these.
JulianOf(y, m, d) == LET Y == MarchYear(y, m) IN 365 * Y + Y \div 4 + MarchDay(m, d) + 1721118

\* The day in the year that begins in March is less than 366, and 365 only in a leap year.
LEMMA MarchDayIs ==
  ASSUME NEW y, NEW m, NEW d, IsDay(y, m, d)
  PROVE  /\ y \in Nat \ {0} /\ m \in 1..12 /\ d \in 1..31
         /\ DaysBefore[m] \in Nat /\ MarchDay(m, d) \in 0..365
         /\ MarchDay(m, d) = 365 => m = 2 /\ d = 29 /\ IsLeap(y)
<1>1. IsLeap(y) \in BOOLEAN
  BY SMT DEF IsLeap
<1>2. /\ y \in Nat \ {0} /\ m \in 1..12 /\ d \in 1..DaysIn(y, m)
  BY SMT DEF IsDay
<1>3. m \in {1,2,3,4,5,6,7,8,9,10,11,12}
  BY SMT, <1>2
<1> QED
  BY SMT, <1>1, <1>2, <1>3 DEF DaysIn, MarchDay, DaysBefore

\* The year, month and day that are computed from the number of a day have it.
LEMMA FromJulianIs ==
  ASSUME NEW y, NEW m, NEW d, IsDay(y, m, d)
  PROVE  FromJulian(JulianOf(y, m, d)) = <<y, m, d>>
<1> DEFINE Y == MarchYear(y, m)
           M == MarchDay(m, d)
           jb == JulianOf(y, m, d) + 1524
           jc == Quot(6680 * 36525 + 100 * (jb - 2439870) - 12210, 36525)
           jd == 365 * jc + Quot(jc, 4)
           je == Quot(10000 * (jb - jd), 306001)
<1>1. /\ y \in Nat \ {0} /\ m \in 1..12 /\ d \in 1..31
      /\ M \in 0..365 /\ (M = 365 => m = 2 /\ d = 29 /\ IsLeap(y))
  BY SMT, MarchDayIs
<1>2. Y \in Nat /\ (M = 365 => (Y + 1) % 4 = 0)
  BY SMT, <1>1 DEF MarchYear, IsLeap
<1>3. jb = 365 * Y + Y \div 4 + M + 1722642
  BY SMT, <1>1, <1>2 DEF JulianOf
<1> HIDE DEF Y, M, jb
<1>4. jc = Y + 4716
  <2>1. jc = (100 * jb - 12210) \div 36525
    BY SMT, <1>1, <1>2, <1>3 DEF Quot
  <2> DEFINE k == Y \div 4
             r == Y % 4
  <2>2. Y = 4 * k + r /\ r \in 0..3 /\ k \in Nat /\ (M = 365 => r = 3)
    BY SMT, <1>2
  <2> HIDE DEF k, r
  <2>3. 100 * jb - 12210 = 36525 * (Y + 4716) + 100 * M + 90 - 25 * r
    BY SMT, <1>1, <1>2, <1>3, <2>2
  <2>4. \A t \in Int : 0 <= t /\ t < 36525 => (36525 * (Y + 4716) + t) \div 36525 = Y + 4716
    BY SMT, <1>2
  <2> DEFINE t == 100 * M + 90 - 25 * r
  <2>5. M \in Int /\ 0 <= M /\ M <= 365 /\ r \in Int /\ 0 <= r /\ r <= 3 /\ (M = 365 => r = 3)
    BY SMT, <1>1, <2>2
  <2>6. t \in Int /\ 0 <= t /\ t < 36525
    BY SMT, <2>5
  <2>7. 100 * jb - 12210 = 36525 * (Y + 4716) + t
    BY SMT, <1>2, <2>3, <2>5
  <2> QED
    BY SMT, <2>1, <2>4, <2>6, <2>7
<1>5. jb - jd = M + 123
  BY SMT, <1>1, <1>2, <1>3, <1>4 DEF Quot
<1> HIDE DEF jc, jd
<1>6. m \in {1,2,3,4,5,6,7,8,9,10,11,12}
  BY SMT, <1>1
<1>7. /\ je = IF m > 2 THEN m + 1 ELSE m + 13
      /\ d = M + 123 - Quot(306001 * je, 10000)
  BY SMT, <1>1, <1>5, <1>6 DEF Quot, M, MarchDay, DaysBefore, IsDay, DaysIn
<1> HIDE DEF je
<1> DEFINE day == jb - jd - Quot(306001 * je, 10000)
           month == IF je - 1 > 12 THEN je - 13 ELSE je - 1
           year == jc - 4715 - (IF month > 2 THEN 1 ELSE 0)
<1>8. FromJulian(JulianOf(y, m, d)) = << IF year <= 0 THEN year - 1 ELSE year, month, day >>
  BY SMT DEF FromJulian, jb, jc, jd, je
<1>9. day = d
  <2> DEFINE Q == Quot(306001 * je, 10000)
  <2>1. Q \in Int
    BY SMT, <1>1, <1>7 DEF Quot
  <2>2. d = M + 123 - Q /\ jb - jd = M + 123 /\ day = jb - jd - Q
    BY SMT, <1>5, <1>7
  <2> HIDE DEF Q, day
  <2> QED
    BY SMT, <1>1, <2>1, <2>2
<1>10. month = m
  BY SMT, <1>1, <1>7
<1> HIDE DEF month
<1>11. year = y
  BY SMT, <1>1, <1>4, <1>10 DEF Y, MarchYear
<1> HIDE DEF year, day
<1> QED
  BY SMT, <1>1, <1>8, <1>9, <1>10, <1>11

\* What the tens of days that were skipped, and centuries without a leap day, make of it.
LEMMA NumberIs ==
  ASSUME NEW y, NEW m, NEW d, IsDay(y, m, d)
  PROVE  LET Y == MarchYear(y, m)
             N == DayNumber(y, m, d) + ZEITENWENDE
         IN  /\ DayNumber(y, m, d) \in Nat /\ Y \in Nat
             /\ ~IsGregorian(y, m, d) => N = JulianOf(y, m, d) /\ N < JGREG
             /\ IsGregorian(y, m, d) =>
                  N + Y \div 100 - Y \div 400 - 2 = JulianOf(y, m, d) /\ N >= JGREG
<1> DEFINE Y == MarchYear(y, m)
           M == MarchDay(m, d)
           N == DayNumber(y, m, d) + ZEITENWENDE
           n == y - 1
           leap == IF m > 2 /\ IsLeap(y) THEN 1 ELSE 0
<1>1. /\ y \in Nat \ {0} /\ m \in 1..12 /\ d \in 1..31 /\ DaysBefore[m] \in Nat
      /\ M \in 0..365 /\ (M = 365 => m = 2 /\ d = 29 /\ IsLeap(y))
  BY SMT, MarchDayIs
<1>2. Y \in Nat /\ n \in Nat /\ IsLeap(y) \in BOOLEAN /\ IsGregorian(y, m, d) \in BOOLEAN
  BY SMT, <1>1 DEF MarchYear, IsLeap, IsGregorian
<1>3. JulianOf(y, m, d) = 365 * Y + Y \div 4 + M + 1721118
  BY SMT DEF JulianOf
<1>4. M = DaysBefore[m] + d - 1 + (IF m > 2 THEN 0 - 59 ELSE 306)
  BY SMT DEF MarchDay
<1>5. CASE ~IsGregorian(y, m, d)
  <2>1. DayNumber(y, m, d) = 365 * n + n \div 4 - 0 + DaysBefore[m] + d - 1 + leap
    BY SMT, <1>1, <1>2, <1>5 DEF DayNumber
  <2>2. y <= 1582 /\ leap = IF m > 2 /\ y % 4 = 0 THEN 1 ELSE 0
    BY SMT, <1>1, <1>5 DEF IsGregorian, IsLeap
  <2> HIDE DEF M, leap
  <2>3. N = JulianOf(y, m, d)
    BY SMT, <1>1, <1>2, <1>3, <1>4, <2>1, <2>2 DEF MarchYear, ZEITENWENDE
  <2>4. Y <= 1581 \/ (Y = 1582 /\ M <= 217)
    <3>1. CASE y < 1582
      BY SMT, <1>1, <3>1 DEF MarchYear
    <3>2. CASE y = 1582
      <4>1. 100 * m + d < 1015 /\ m \in {1,2,3,4,5,6,7,8,9,10}
        BY SMT, <1>1, <1>5, <3>2 DEF IsGregorian
      <4>2. m <= 2 \/ M <= 217
        BY SMT, <1>1, <1>4, <4>1, IsDay(y, m, d), <3>2 DEF IsDay, DaysBefore
      <4> QED
        BY SMT, <1>1, <3>2, <4>2 DEF MarchYear
    <3> QED
      BY SMT, <2>2, <1>1, <3>1, <3>2
  <2>5. N < JGREG /\ DayNumber(y, m, d) \in Nat
    BY SMT, <1>1, <1>2, <1>3, <2>1, <2>3, <2>4 DEF JGREG, leap
  <2> QED
    BY SMT, <1>2, <1>5, <2>3, <2>5
<1>6. CASE IsGregorian(y, m, d)
  <2> DEFINE c == n \div 100 - n \div 400 - 2
  <2>1. DayNumber(y, m, d) = 365 * n + n \div 4 - c + DaysBefore[m] + d - 1 + leap
    BY SMT, <1>1, <1>2, <1>6 DEF DayNumber
  <2>2. y >= 1582
    BY SMT, <1>1, <1>6 DEF IsGregorian
  <2>3. m > 2 => leap = y \div 4 - n \div 4 - (y \div 100 - n \div 100) + (y \div 400 - n \div 400)
    <3>1. y = 1582 => y % 4 # 0
      BY SMT
    <3>2. IsLeap(y) <=> y % 4 = 0 /\ (y % 100 # 0 \/ y % 400 = 0)
      BY SMT, <1>1, <2>2, <3>1 DEF IsLeap
    <3> QED
      BY SMT, <1>1, <3>2
  <2>4. m <= 2 => leap = 0 /\ Y = n
    BY SMT, <1>1 DEF MarchYear
  <2>5. m > 2 => Y = y
    BY SMT, <1>1 DEF MarchYear
  <2> HIDE DEF M, leap, Y
  <2>6. N + Y \div 100 - Y \div 400 - 2 = JulianOf(y, m, d)
    <3>1. CASE m > 2
      BY SMT, <1>1, <1>2, <1>3, <1>4, <2>1, <2>3, <2>5, <3>1 DEF ZEITENWENDE
    <3>2. CASE m <= 2
      BY SMT, <1>1, <1>2, <1>3, <1>4, <2>1, <2>4, <3>2 DEF ZEITENWENDE
    <3> QED
      BY SMT, <1>1, <3>1, <3>2
  <2>7. Y >= 1583 \/ (Y = 1582 /\ M >= 228)
    <3>1. CASE y > 1583
      BY SMT, <1>1, <2>4, <2>5, <3>1
    <3>2. CASE y = 1583
      <4>1. m <= 2 => M >= 306
        BY SMT, <1>1, <1>4
      <4> QED
        BY SMT, <1>1, <2>4, <2>5, <3>2, <4>1
    <3>3. CASE y = 1582
      <4>1. 100 * m + d >= 1015 /\ m \in {10, 11, 12}
        BY SMT, <1>1, <1>6, <3>3 DEF IsGregorian
      <4>2. M >= 228
        BY SMT, <1>1, <1>4, <4>1 DEF DaysBefore
      <4> QED
        BY SMT, <2>5, <3>3, <4>1, <4>2
    <3> QED
      BY SMT, <1>1, <2>2, <3>1, <3>2, <3>3
  <2>8. leap \in Int /\ DayNumber(y, m, d) \in Int /\ N = DayNumber(y, m, d) + 1721424
    BY SMT, <1>1, <1>2, <2>1 DEF ZEITENWENDE, leap
  <2> HIDE DEF N
  <2>9. N = 365 * Y + Y \div 4 + M + 1721118 - (Y \div 100 - Y \div 400 - 2) /\ N \in Int
    BY SMT, <1>1, <1>2, <1>3, <2>6, <2>8
  <2>10. N >= 2299161
    BY SMT, <1>1, <1>2, <2>7, <2>9
  <2>11. N >= JGREG /\ DayNumber(y, m, d) \in Nat
    BY SMT, <2>8, <2>10 DEF JGREG
  <2> QED
    BY SMT, <1>2, <1>6, <2>6, <2>11 DEF N, Y
<1> QED
  BY SMT, <1>2, <1>5, <1>6

\* The day that is shown is the one that has the number.
THEOREM DaysAreShown ==
  ASSUME NEW y, NEW m, NEW d, IsDay(y, m, d)
  PROVE  YearMonthDay(DayNumber(y, m, d)) = <<y, m, d>> /\ DayNumber(y, m, d) \in Nat
<1> DEFINE Y == MarchYear(y, m)
           M == MarchDay(m, d)
           julian == DayNumber(y, m, d) + ZEITENWENDE
<1>1. YearMonthDay(DayNumber(y, m, d)) = FromJulian(IF julian >= JGREG THEN ToJulian(julian) ELSE julian)
  BY SMT DEF YearMonthDay
<1>2. /\ DayNumber(y, m, d) \in Nat /\ Y \in Nat
      /\ ~IsGregorian(y, m, d) => julian = JulianOf(y, m, d) /\ julian < JGREG
      /\ IsGregorian(y, m, d) =>
           julian + Y \div 100 - Y \div 400 - 2 = JulianOf(y, m, d) /\ julian >= JGREG
  BY SMT, NumberIs
<1>3. julian \in Nat
  BY SMT, <1>2 DEF ZEITENWENDE
<1> HIDE DEF julian
<1>4. CASE ~IsGregorian(y, m, d)
  <2>1. (IF julian >= JGREG THEN ToJulian(julian) ELSE julian) = JulianOf(y, m, d)
    BY SMT, <1>2, <1>3, <1>4 DEF JGREG
  <2> QED
    BY SMT, <1>1, <1>2, <2>1, FromJulianIs
<1>5. CASE IsGregorian(y, m, d)
  <2> DEFINE c == Y \div 100
             r == Y % 100
             q == c \div 4
             p == c % 4
             w == 365 * r + r \div 4 + M
  <2>1. /\ M \in 0..365 /\ (M = 365 => m = 2 /\ d = 29 /\ IsLeap(y))
        /\ y \in Nat \ {0}
    BY SMT, MarchDayIs
  <2>2. M = 365 => Y = y - 1 /\ y % 4 = 0 /\ (y % 100 # 0 \/ y % 400 = 0)
    <3>1. M = 365 => y # 1582
      BY SMT, <2>1 DEF IsLeap
    <3>2. y >= 1582
      BY SMT, <1>5, <2>1, IsDay(y, m, d) DEF IsGregorian, IsDay, DaysIn
    <3> QED
      BY SMT, <2>1, <3>1, <3>2 DEF IsLeap, MarchYear
  <2> HIDE DEF Y, M
  <2>3. Y = 100 * c + r /\ r \in 0..99 /\ c \in Nat /\ c = 4 * q + p /\ p \in 0..3 /\ q \in Nat
    BY SMT, <1>2
  <2>4. Y \div 4 = 25 * c + r \div 4 /\ Y \div 400 = q
    BY SMT, <1>2
  <2>5. JulianOf(y, m, d) = 365 * Y + Y \div 4 + M + 1721118
    BY SMT DEF JulianOf, Y, M
  <2>6. M = 365 /\ r = 99 => p = 3
    BY SMT, <1>2, <2>1, <2>2
  <2> HIDE DEF c, r, q, p
  <2>7. w \in Nat /\ w <= 36523 + (IF p = 3 THEN 1 ELSE 0)
    <3>1. M <= 364 => w <= 36523 /\ w \in Nat
      BY SMT, <2>1, <2>3
    <3>2. M = 365 /\ r # 99 => w <= 36523 /\ w \in Nat
      BY SMT, <2>1, <2>3
    <3>3. M = 365 /\ r = 99 => w = 36524
      BY SMT, <2>1, <2>2
    <3> QED
      BY SMT, <2>1, <2>3, <2>6, <3>1, <3>2, <3>3
  <2>8. julian = 36524 * c + w + 1721118 + q + 2
    BY SMT, <1>2, <1>3, <1>5, <2>1, <2>3, <2>4, <2>5 DEF c
  <2> DEFINE x == 4 * (julian - 1867216) - 1
             t == 4 * w + 3 - p
  <2>9. x = 146097 * (c - 4) + t /\ t \in Int /\ 0 <= t /\ t < 146097
    BY SMT, <2>3, <2>7, <2>8
  <2>10. c >= 15
    BY SMT, <1>2, <1>3, <1>5, <2>3, <2>7, <2>8 DEF JGREG
  <2> HIDE DEF w, t, x
  <2>11. Quot(x, 146097) = c - 4
    BY SMT, <2>3, <2>9, <2>10 DEF Quot
  <2>12. Quot(c - 4, 4) = q - 1
    BY SMT, <2>3, <2>10 DEF Quot
  <2>13. ToJulian(julian) = julian + 1 + (c - 4) - (q - 1)
    BY SMT, <2>11, <2>12 DEF ToJulian, x
  <2>14. (IF julian >= JGREG THEN ToJulian(julian) ELSE julian) = JulianOf(y, m, d)
    BY SMT, <1>2, <1>3, <1>5, <2>3, <2>4, <2>13 DEF c
  <2> QED
    BY SMT, <1>1, <1>2, <2>14, FromJulianIs
<1> QED
  BY SMT, <1>2, <1>4, <1>5
=============================================================================
