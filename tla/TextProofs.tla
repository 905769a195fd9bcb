----------------------------- MODULE TextProofs -----------------------------
(***************************************************************************)
(* Lemmas about sequences that are joined, chosen from and reversed        *)
(* (SeqOps), and about UTF-8 (Utf8): where text can be cut, and that its   *)
(* conversion is CESU-8 and can be done piece by piece.                    *)
(***************************************************************************)
EXTENDS Utf8, FiniteSetTheorems, SequenceTheorems, WellFoundedInduction, TLAPS

-----------------------------------------------------------------------------
(* Induction over numbers.                                                 *)

\* A set of numbers has a least one.
LEMMA LeastOf ==
  ASSUME NEW T, T \subseteq Nat, T # {}
  PROVE  \E x \in T : \A y \in T : x <= y
<1> DEFINE R == OpToRel(<, Nat)
<1>1. IsWellFoundedOn(R, Nat)
  BY NatLessThanWellFounded
<1>2. \A x, y \in Nat : y < x => <<y, x>> \in R
  BY DEF OpToRel
<1> HIDE DEF R
<1>3. PICK x \in T : \A y \in T : ~(<<y, x>> \in R)
  BY <1>1, WFMin
<1>4. \A y \in T : ~(y < x)
  BY <1>2, <1>3
<1>5. \A y \in T : x \in Nat /\ y \in Nat
  BY <1>3
<1> QED BY <1>3, <1>4, <1>5

\* A set with 0, and with n + 1 for each n that it has, has all numbers.
LEMMA AllNumbers ==
  ASSUME NEW T, 0 \in T, \A n \in Nat : n \in T => n + 1 \in T
  PROVE  Nat \subseteq T
<1> SUFFICES ASSUME Nat \ T # {} PROVE FALSE
  OBVIOUS
<1>1. PICK x \in Nat \ T : \A y \in Nat \ T : x <= y
  BY LeastOf
<1>2. x # 0 /\ x - 1 \in Nat
  BY <1>1
<1>3. x - 1 \in T
  BY <1>1, <1>2
<1>4. (x - 1) + 1 \in T
  BY <1>2, <1>3
<1> QED
  BY <1>1, <1>4

-----------------------------------------------------------------------------
(* FlattenSeq.                                                             *)

\* The function by which FlattenSeq is defined.
Joins(s, g) == g = [i \in 1..Len(s) |-> IF i = 1 THEN s[i] ELSE g[i - 1] \o s[i]]

\* Nothing is joined.
LEMMA FlatEmpty == S!FlattenSeq(<<>>) = <<>>
<1>1. Len(<<>>) = 0
  BY EmptySeq
<1> QED
  BY <1>1 DEF S!FlattenSeq

\* There is such a function, for one sequence more if there is one.
LEMMA JoinsMore ==
  ASSUME NEW T, NEW s \in Seq(Seq(T)), NEW x \in Seq(T), NEW g \in [1..Len(s) -> Seq(T)],
         Joins(s, g)
  PROVE  \E h \in [1..Len(Append(s, x)) -> Seq(T)] :
           /\ Joins(Append(s, x), h)
           /\ h[Len(Append(s, x))] = IF s = <<>> THEN x ELSE g[Len(s)] \o x
<1> DEFINE t == Append(s, x)
           y == IF s = <<>> THEN x ELSE g[Len(s)] \o x
           n == Len(s)
           h == [i \in 1..(n + 1) |-> IF i <= n THEN g[i] ELSE y]
<1>1. /\ t \in Seq(Seq(T)) /\ Len(t) = n + 1 /\ n \in Nat
      /\ \A i \in 1..n : t[i] = s[i]
      /\ t[n + 1] = x
  BY AppendProperties, LenProperties
<1>2. s # <<>> => n \in 1..n
  BY EmptySeq
<1>3. n # 0 <=> s # <<>>
  BY EmptySeq
<1>4. y \in Seq(T)
  <2>1. CASE s = <<>>
    BY <2>1
  <2>2. CASE s # <<>>
    <3>1. g[n] \in Seq(T)
      BY <1>2, <2>2
    <3>2. g[n] \o x \in Seq(T)
      BY <3>1, ConcatProperties
    <3> QED
      BY <2>2, <3>2
  <2> QED
    BY <2>1, <2>2
<1>5. y = IF n = 0 THEN x ELSE g[n] \o x
  BY <1>3
<1> HIDE DEF t, y, n
<1>6. /\ \A i \in 1..n : h[i] = g[i]
      /\ h[n + 1] = y /\ DOMAIN h = 1..(n + 1)
  BY <1>1
<1>7. \A i \in 1..n : g[i] = IF i = 1 THEN s[i] ELSE g[i - 1] \o s[i]
  BY DEF Joins, n
<1>8. ASSUME NEW i \in 1..(n + 1) PROVE h[i] = IF i = 1 THEN t[i] ELSE h[i - 1] \o t[i]
  <2>1. CASE i <= n
    <3>1. i \in 1..n /\ (i # 1 => i - 1 \in 1..n)
      BY <1>1, <2>1
    <3> QED
      BY <1>1, <1>6, <1>7, <3>1
  <2>2. CASE i = n + 1 /\ n = 0
    BY <1>1, <1>5, <1>6, <2>2
  <2>3. CASE i = n + 1 /\ n # 0
    <3>1. i # 1 /\ i - 1 = n /\ n \in 1..n
      BY <1>1, <2>3
    <3> QED
      BY <1>1, <1>5, <1>6, <2>3, <3>1
  <2> QED
    BY <1>1, <2>1, <2>2, <2>3
<1>9. Joins(t, h)
  <2>1. h = [i \in 1..(n + 1) |-> h[i]]
    OBVIOUS
  <2> HIDE DEF h
  <2>2. h = [i \in 1..(n + 1) |-> IF i = 1 THEN t[i] ELSE h[i - 1] \o t[i]]
    BY <1>8, <2>1
  <2> QED
    BY <1>1, <2>2 DEF Joins
<1>10. h \in [1..Len(t) -> Seq(T)]
  <2>1. \A i \in 1..(n + 1) : h[i] \in Seq(T)
    <3> TAKE i \in 1..(n + 1)
    <3>1. CASE i <= n
      <4>1. i \in 1..n
        BY <1>1, <3>1
      <4>2. g[i] \in Seq(T)
        BY <4>1 DEF n
      <4> QED BY <1>6, <4>1, <4>2
    <3>2. CASE i = n + 1
      BY <1>4, <1>6, <3>2
    <3> QED BY <1>1, <3>1, <3>2
  <2> HIDE DEF h
  <2>2. h = [i \in 1..(n + 1) |-> h[i]]
    BY DEF h
  <2> QED
    BY <1>1, <2>1, <2>2
<1>11. h[Len(t)] = y
  BY <1>1, <1>6
<1> HIDE DEF h
<1> QED
  BY <1>9, <1>10, <1>11 DEF t, y, n

\* Every sequence has one.
LEMMA JoinsExists ==
  ASSUME NEW T, NEW s \in Seq(Seq(T))
  PROVE  \E g \in [1..Len(s) -> Seq(T)] : Joins(s, g)
<1> DEFINE N == {n \in Nat : \A u \in Seq(Seq(T)) : Len(u) = n =>
                               \E g \in [1..Len(u) -> Seq(T)] : Joins(u, g)}
<1>1. 0 \in N
  <2> SUFFICES ASSUME NEW u \in Seq(Seq(T)), Len(u) = 0
               PROVE  \E g \in [1..Len(u) -> Seq(T)] : Joins(u, g)
    OBVIOUS
  <2> DEFINE g == [i \in 1..0 |-> <<>>]
  <2>1. g \in [1..Len(u) -> Seq(T)]
    OBVIOUS
  <2>2. Joins(u, g)
    BY DEF Joins
  <2> QED
    BY <2>1, <2>2
<1>2. ASSUME NEW n \in Nat, n \in N PROVE n + 1 \in N
  <2> SUFFICES ASSUME NEW u \in Seq(Seq(T)), Len(u) = n + 1
               PROVE  \E g \in [1..Len(u) -> Seq(T)] : Joins(u, g)
    OBVIOUS
  <2>1. u # <<>>
    BY EmptySeq
  <2>2. PICK v \in Seq(Seq(T)), x \in Seq(T) : u = Append(v, x)
    BY <2>1, SequenceEmptyOrAppend
  <2>3. Len(v) = n
    BY <2>2, AppendProperties, LenProperties
  <2>4. PICK g \in [1..Len(v) -> Seq(T)] : Joins(v, g)
    BY <1>2, <2>3
  <2> QED
    BY <2>2, <2>4, JoinsMore
<1> HIDE DEF N
<1>3. Nat \subseteq N
  BY <1>1, <1>2, AllNumbers
<1>4. Len(s) \in N
  BY <1>3, LenProperties
<1> QED
  BY <1>4 DEF N

\* And only one.
LEMMA JoinsUnique ==
  ASSUME NEW T, NEW s \in Seq(Seq(T)), NEW g, NEW h, Joins(s, g), Joins(s, h)
  PROVE  g = h
<1> DEFINE n == Len(s)
           N == {i \in Nat : i \in 1..n => g[i] = h[i]}
<1>1. n \in Nat
  BY LenProperties
<1> HIDE DEF n
<1>2. /\ \A i \in 1..n : g[i] = IF i = 1 THEN s[i] ELSE g[i - 1] \o s[i]
      /\ \A i \in 1..n : h[i] = IF i = 1 THEN s[i] ELSE h[i - 1] \o s[i]
      /\ g = [i \in 1..n |-> g[i]] /\ h = [i \in 1..n |-> h[i]]
  BY DEF Joins, n
<1>3. 0 \in N
  OBVIOUS
<1>4. ASSUME NEW i \in Nat, i \in N PROVE i + 1 \in N
  <2> SUFFICES ASSUME i + 1 \in 1..n PROVE g[i + 1] = h[i + 1]
    OBVIOUS
  <2>0. /\ g[i + 1] = IF i + 1 = 1 THEN s[i + 1] ELSE g[(i + 1) - 1] \o s[i + 1]
        /\ h[i + 1] = IF i + 1 = 1 THEN s[i + 1] ELSE h[(i + 1) - 1] \o s[i + 1]
    BY <1>2
  <2>1. CASE i = 0
    <3>1. i + 1 = 1
      BY <2>1
    <3> QED
      BY <2>0, <3>1
  <2>2. CASE i # 0
    <3>1. i \in 1..n /\ (i + 1) - 1 = i /\ i + 1 # 1
      BY <1>1, <2>2
    <3>2. g[i] = h[i]
      BY <1>4, <3>1
    <3> HIDE DEF N
    <3> QED
      BY <2>0, <3>1, <3>2
  <2> QED BY <2>1, <2>2
<1> HIDE DEF N
<1>5. Nat \subseteq N
  BY <1>3, <1>4, AllNumbers
<1>6. \A i \in 1..n : g[i] = h[i]
  BY <1>5 DEF N
<1> QED
  BY <1>2, <1>6

\* What FlattenSeq is.
LEMMA FlatIs ==
  ASSUME NEW T, NEW s \in Seq(Seq(T)), s # <<>>, NEW g, Joins(s, g)
  PROVE  S!FlattenSeq(s) = g[Len(s)]
<1> DEFINE f == CHOOSE f : f = [i \in 1..Len(s) |-> IF i = 1 THEN s[i] ELSE f[i - 1] \o s[i]]
<1>1. Len(s) # 0
  BY EmptySeq
<1>2. S!FlattenSeq(s) = f[Len(s)]
  BY <1>1, Zenon DEF S!FlattenSeq
<1>3. \E k : k = [i \in 1..Len(s) |-> IF i = 1 THEN s[i] ELSE k[i - 1] \o s[i]]
  BY Zenon DEF Joins
<1>4. f = [i \in 1..Len(s) |-> IF i = 1 THEN s[i] ELSE f[i - 1] \o s[i]]
  BY <1>3, Zenon
<1> HIDE DEF f
<1>5. Joins(s, f)
  BY <1>4, Zenon DEF Joins
<1>6. f = g
  BY <1>5, JoinsUnique
<1> QED
  BY <1>2, <1>6

\* One sequence more.
LEMMA FlatAppended ==
  ASSUME NEW T, NEW s \in Seq(Seq(T)), NEW x \in Seq(T)
  PROVE  /\ S!FlattenSeq(Append(s, x)) = S!FlattenSeq(s) \o x
         /\ S!FlattenSeq(Append(s, x)) \in Seq(T)
<1> DEFINE t == Append(s, x)
<1>1. PICK g \in [1..Len(s) -> Seq(T)] : Joins(s, g)
  BY JoinsExists
<1> DEFINE y == IF s = <<>> THEN x ELSE g[Len(s)] \o x
<1>2. PICK h \in [1..Len(t) -> Seq(T)] : Joins(t, h) /\ h[Len(t)] = y
  BY <1>1, JoinsMore
<1>3. t # <<>> /\ t \in Seq(Seq(T))
  BY AppendProperties
<1> HIDE DEF t, y
<1>4. S!FlattenSeq(t) = y /\ y \in Seq(T)
  <2>1. Len(t) \in 1..Len(t)
    BY <1>3, EmptySeq
  <2> QED BY <1>2, <1>3, <2>1, FlatIs
<1>5. CASE s = <<>>
  BY <1>4, <1>5, FlatEmpty, ConcatEmptySeq DEF t, y
<1>6. CASE s # <<>>
  <2>1. S!FlattenSeq(s) = g[Len(s)]
    BY <1>1, <1>6, FlatIs
  <2> QED
    BY <1>4, <1>6, <2>1 DEF t, y
<1> QED
  BY <1>5, <1>6

\* FlattenSeq gives a sequence.
LEMMA FlatType ==
  ASSUME NEW T, NEW s \in Seq(Seq(T))
  PROVE  S!FlattenSeq(s) \in Seq(T)
<1>1. CASE s = <<>>
  BY <1>1, FlatEmpty, EmptySeq
<1>2. CASE s # <<>>
  <2>1. PICK u \in Seq(Seq(T)), x \in Seq(T) : s = Append(u, x)
    BY <1>2, SequenceEmptyOrAppend
  <2> QED
    BY <2>1, FlatAppended
<1> QED
  BY <1>1, <1>2

\* A single sequence.
LEMMA FlatOne ==
  ASSUME NEW T, NEW x \in Seq(T)
  PROVE  S!FlattenSeq(<<x>>) = x
<1>1. <<>> \in Seq(Seq(T)) /\ Append(<<>>, x) = <<x>>
  BY EmptySeq
<1>2. S!FlattenSeq(Append(<<>>, x)) = S!FlattenSeq(<<>>) \o x
  BY <1>1, FlatAppended
<1>3. <<>> \o x = x
  BY ConcatEmptySeq
<1> QED
  BY <1>1, <1>2, <1>3, FlatEmpty

\* One element more, after a second sequence.
LEMMA AppendAfter ==
  ASSUME NEW T, NEW s \in Seq(T), NEW t \in Seq(T), NEW x \in T
  PROVE  s \o Append(t, x) = Append(s \o t, x)
<1>1. Append(t, x) = t \o <<x>> /\ s \o t \in Seq(T) /\ <<x>> \in Seq(T)
  BY AppendIsConcat, ConcatProperties
<1>2. Append(s \o t, x) = (s \o t) \o <<x>>
  BY <1>1, AppendIsConcat
<1> QED
  BY <1>1, <1>2, ConcatAssociative

\* Sequences can be joined in two parts: one more in the second part.
LEMMA FlatConcatMore ==
  ASSUME NEW T, NEW s \in Seq(Seq(T)), NEW v \in Seq(Seq(T)), NEW x \in Seq(T),
         S!FlattenSeq(s \o v) = S!FlattenSeq(s) \o S!FlattenSeq(v)
  PROVE  S!FlattenSeq(s \o Append(v, x)) = S!FlattenSeq(s) \o S!FlattenSeq(Append(v, x))
<1>1. s \o Append(v, x) = Append(s \o v, x) /\ s \o v \in Seq(Seq(T))
  BY AppendAfter, ConcatProperties, SMTT(60)
<1>2. /\ S!FlattenSeq(Append(s \o v, x)) = S!FlattenSeq(s \o v) \o x
      /\ S!FlattenSeq(Append(v, x)) = S!FlattenSeq(v) \o x
  BY <1>1, FlatAppended
<1>3. S!FlattenSeq(s) \in Seq(T) /\ S!FlattenSeq(v) \in Seq(T)
  BY FlatType
<1>4. (S!FlattenSeq(s) \o S!FlattenSeq(v)) \o x = S!FlattenSeq(s) \o (S!FlattenSeq(v) \o x)
  BY <1>3, ConcatAssociative, SMTT(30)
<1> QED
  BY <1>1, <1>2, <1>4

\* Sequences can be joined in two parts.
LEMMA FlatConcat ==
  ASSUME NEW T, NEW s \in Seq(Seq(T)), NEW t \in Seq(Seq(T))
  PROVE  S!FlattenSeq(s \o t) = S!FlattenSeq(s) \o S!FlattenSeq(t)
<1> DEFINE N == {n \in Nat : \A u \in Seq(Seq(T)) :
                   Len(u) = n => S!FlattenSeq(s \o u) = S!FlattenSeq(s) \o S!FlattenSeq(u)}
<1>1. 0 \in N
  <2> SUFFICES ASSUME NEW u \in Seq(Seq(T)), Len(u) = 0
               PROVE  S!FlattenSeq(s \o u) = S!FlattenSeq(s) \o S!FlattenSeq(u)
    OBVIOUS
  <2>1. u = <<>>
    BY EmptySeq
  <2> QED
    BY <2>1, FlatEmpty, FlatType, ConcatEmptySeq
<1>2. ASSUME NEW n \in Nat, n \in N PROVE n + 1 \in N
  <2> SUFFICES ASSUME NEW u \in Seq(Seq(T)), Len(u) = n + 1
               PROVE  S!FlattenSeq(s \o u) = S!FlattenSeq(s) \o S!FlattenSeq(u)
    OBVIOUS
  <2>1. u # <<>>
    BY EmptySeq
  <2>2. PICK v \in Seq(Seq(T)), x \in Seq(T) : u = Append(v, x)
    BY <2>1, SequenceEmptyOrAppend
  <2>3. Len(v) = n
    BY <2>2, AppendProperties, LenProperties
  <2>4. S!FlattenSeq(s \o v) = S!FlattenSeq(s) \o S!FlattenSeq(v)
    BY <1>2, <2>3
  <2> QED
    BY <2>2, <2>4, FlatConcatMore
<1> HIDE DEF N
<1>3. Nat \subseteq N
  BY <1>1, <1>2, AllNumbers
<1>4. Len(t) \in N
  BY <1>3, LenProperties
<1> QED
  BY <1>4 DEF N

\* No sequence is empty: there are at least as many elements.
LEMMA FlatLength ==
  ASSUME NEW T, NEW s \in Seq(Seq(T)), \A i \in 1..Len(s) : Len(s[i]) >= 1
  PROVE  Len(S!FlattenSeq(s)) >= Len(s)
<1> DEFINE N == {n \in Nat : \A u \in Seq(Seq(T)) :
                   Len(u) = n /\ (\A i \in 1..Len(u) : Len(u[i]) >= 1) => Len(S!FlattenSeq(u)) >= Len(u)}
<1>1. 0 \in N
  <2> SUFFICES ASSUME NEW u \in Seq(Seq(T)), Len(u) = 0 PROVE Len(S!FlattenSeq(u)) >= Len(u)
    OBVIOUS
  <2>1. S!FlattenSeq(u) \in Seq(T)
    BY FlatType
  <2> QED
    BY <2>1, LenProperties
<1>2. ASSUME NEW n \in Nat, n \in N PROVE n + 1 \in N
  <2> SUFFICES ASSUME NEW u \in Seq(Seq(T)), Len(u) = n + 1, \A i \in 1..Len(u) : Len(u[i]) >= 1
               PROVE  Len(S!FlattenSeq(u)) >= Len(u)
    OBVIOUS
  <2>1. u # <<>>
    BY EmptySeq
  <2>2. PICK v \in Seq(Seq(T)), x \in Seq(T) : u = Append(v, x)
    BY <2>1, SequenceEmptyOrAppend
  <2>3. Len(v) = n /\ (\A i \in 1..n : u[i] = v[i]) /\ u[n + 1] = x
    BY <2>2, AppendProperties, LenProperties
  <2>4. Len(x) >= 1 /\ \A i \in 1..Len(v) : Len(v[i]) >= 1
    BY <2>3
  <2>5. Len(S!FlattenSeq(v)) >= n
    BY <1>2, <2>3, <2>4
  <2>6. S!FlattenSeq(u) = S!FlattenSeq(v) \o x /\ S!FlattenSeq(v) \in Seq(T)
    BY <2>2, FlatAppended, FlatType
  <2> HIDE DEF N
  <2>7. Len(S!FlattenSeq(u)) = Len(S!FlattenSeq(v)) + Len(x) /\ Len(S!FlattenSeq(v)) \in Nat /\ Len(x) \in Nat
    BY <2>6, ConcatProperties, LenProperties
  <2> QED
    BY <2>4, <2>5, <2>7
<1> HIDE DEF N
<1>3. Nat \subseteq N
  BY <1>1, <1>2, AllNumbers
<1>4. Len(s) \in N
  BY <1>3, LenProperties
<1> QED
  BY <1>4 DEF N

-----------------------------------------------------------------------------
(* Elements that are kept.                                                 *)

\* A set with the empty sequence, and with Append(q, x) for each q that it has,
\* has all sequences.
LEMMA AllSequences ==
  ASSUME NEW T, NEW Q, <<>> \in Q, \A q \in Seq(T) : \A x \in T : q \in Q => Append(q, x) \in Q
  PROVE  Seq(T) \subseteq Q
<1> DEFINE N == {n \in Nat : \A q \in Seq(T) : Len(q) = n => q \in Q}
<1>1. 0 \in N
  <2> SUFFICES ASSUME NEW q \in Seq(T), Len(q) = 0 PROVE q \in Q
    OBVIOUS
  <2> QED BY EmptySeq
<1>2. ASSUME NEW n \in Nat, n \in N PROVE n + 1 \in N
  <2> SUFFICES ASSUME NEW q \in Seq(T), Len(q) = n + 1 PROVE q \in Q
    OBVIOUS
  <2>1. q # <<>>
    BY EmptySeq
  <2>2. PICK r \in Seq(T), x \in T : q = Append(r, x)
    BY <2>1, SequenceEmptyOrAppend
  <2>3. Len(r) = n
    BY <2>2, AppendProperties, LenProperties
  <2> QED BY <1>2, <2>2, <2>3
<1> HIDE DEF N
<1>3. Nat \subseteq N
  BY <1>1, <1>2, AllNumbers
<1> SUFFICES ASSUME NEW q \in Seq(T) PROVE q \in Q
  OBVIOUS
<1>4. Len(q) \in N
  BY <1>3, LenProperties
<1> QED
  BY <1>4 DEF N

\* An element that is among those that are joined.
LEMMA FlatHas ==
  ASSUME NEW T, NEW s \in Seq(Seq(T)), NEW i \in 1..Len(s), NEW x \in T, s[i] = <<x>>
  PROVE  \E j \in 1..Len(S!FlattenSeq(s)) : S!FlattenSeq(s)[j] = x
<1> DEFINE U == Seq(T)
           Has(u) == \A k \in 1..Len(u) : \A y \in T :
                       u[k] = <<y>> => \E j \in 1..Len(S!FlattenSeq(u)) : S!FlattenSeq(u)[j] = y
           Q == {u \in Seq(U) : Has(u)}
<1>1. <<>> \in Q
  OBVIOUS
<1>2. ASSUME NEW u \in Seq(U), NEW z \in U, u \in Q PROVE Append(u, z) \in Q
  <2> DEFINE w == Append(u, z)
             n == Len(u)
             f == S!FlattenSeq(u)
             g == S!FlattenSeq(w)
             m == Len(f)
  <2>1. f \in Seq(T) /\ z \in Seq(T) /\ g = f \o z
    BY FlatType, FlatAppended
  <2> HIDE DEF U
  <2>2. n \in Nat /\ w \in Seq(U) /\ Len(w) = n + 1 /\ w[n + 1] = z /\ \A k \in 1..n : w[k] = u[k]
    OBVIOUS
  <2>3. Has(u)
    BY <1>2
  <2> SUFFICES ASSUME NEW k \in 1..(n + 1), NEW y \in T, w[k] = <<y>>
               PROVE  \E j \in 1..Len(g) : g[j] = y
    BY <2>2
  <2> HIDE DEF w, n, f, g, m
  <2>4. /\ m \in Nat /\ Len(z) \in Nat /\ Len(g) = m + Len(z)
        /\ \A j \in 1..(m + Len(z)) : g[j] = IF j <= m THEN f[j] ELSE z[j - m]
    BY <2>1, ConcatProperties, LenProperties DEF m
  <2>5. CASE k \in 1..n
    <3>1. PICK j \in 1..m : f[j] = y
      BY <2>2, <2>3, <2>5 DEF m, f, n
    <3>2. j \in 1..(m + Len(z)) /\ j <= m
      BY <2>4, <3>1
    <3> QED BY <2>4, <3>1, <3>2
  <2>6. CASE k = n + 1
    <3>1. z = <<y>>
      BY <2>2, <2>6
    <3>2. Len(z) = 1 /\ z[1] = y
      BY <3>1
    <3>3. m + 1 \in 1..(m + Len(z)) /\ ~(m + 1 <= m) /\ (m + 1) - m = 1
      BY <2>4, <3>2
    <3> QED BY <2>4, <3>2, <3>3
  <2>7. k \in 1..n \/ k = n + 1
    BY <2>2
  <2> QED BY <2>5, <2>6, <2>7
<1>3. Seq(U) \subseteq Q
  <2> HIDE DEF Q, U
  <2> QED BY <1>1, <1>2, AllSequences
<1> QED
  BY <1>3

\* Each element that is chosen, as a sequence.
Picked(q, positions) == [i \in DOMAIN q |-> IF i \in positions THEN <<q[i]>> ELSE <<>>]

\* What is kept are these sequences, joined.
LEMMA KeptIs == \A q, positions : Kept(q, positions) = S!FlattenSeq(Picked(q, positions))
BY DEF Kept, Picked

\* There is a sequence for each element.
LEMMA PickedIs ==
  ASSUME NEW T, NEW q \in Seq(T), NEW P
  PROVE  /\ Picked(q, P) \in Seq(Seq(T)) /\ Len(Picked(q, P)) = Len(q)
         /\ \A i \in 1..Len(q) : Picked(q, P)[i] = (IF i \in P THEN <<q[i]>> ELSE <<>>)
<1>1. DOMAIN q = 1..Len(q) /\ Len(q) \in Nat /\ \A i \in 1..Len(q) : q[i] \in T
  BY LenProperties, ElementOfSeq
<1>2. <<>> \in Seq(T) /\ \A x \in T : <<x>> \in Seq(T)
  BY EmptySeq
<1>3. Picked(q, P) \in [1..Len(q) -> Seq(T)]
  BY <1>1, <1>2 DEF Picked
<1>4. Picked(q, P) \in Seq(Seq(T))
  BY <1>1, <1>3, SeqDef
<1>5. Len(Picked(q, P)) = Len(q)
  BY <1>1, <1>3, <1>4, LenProperties
<1> QED
  BY <1>1, <1>4, <1>5 DEF Picked

\* The elements that are kept are among those that there are.
LEMMA KeptType ==
  ASSUME NEW T, NEW q \in Seq(T), NEW P
  PROVE  Kept(q, P) \in Seq(T)
BY PickedIs, KeptIs, FlatType

\* Only the positions of the sequence matter.
LEMMA KeptSame ==
  ASSUME NEW q, NEW P, NEW Q, \A i \in DOMAIN q : i \in P <=> i \in Q
  PROVE  Kept(q, P) = Kept(q, Q)
<1>1. Picked(q, P) = Picked(q, Q)
  BY DEF Picked
<1> QED
  BY <1>1, KeptIs

\* The positions of the elements of r, in q \o r.
Behind(q, r, positions) == {i \in DOMAIN r : Len(q) + i \in positions}

\* What is kept of two sequences that are joined.
LEMMA KeptConcat ==
  ASSUME NEW T, NEW q \in Seq(T), NEW r \in Seq(T), NEW P
  PROVE  Kept(q \o r, P) = Kept(q, P) \o Kept(r, Behind(q, r, P))
<1> DEFINE w == q \o r
           R == Behind(q, r, P)
           a == Picked(q, P)
           b == Picked(r, R)
           c == Picked(w, P)
           m == Len(q)
           n == Len(r)
<1>1. /\ w \in Seq(T) /\ Len(w) = m + n /\ m \in Nat /\ n \in Nat /\ DOMAIN r = 1..n
      /\ \A i \in 1..(m + n) : w[i] = IF i <= m THEN q[i] ELSE r[i - m]
  BY ConcatProperties, LenProperties
<1>2. /\ a \in Seq(Seq(T)) /\ Len(a) = m
      /\ \A i \in 1..m : a[i] = (IF i \in P THEN <<q[i]>> ELSE <<>>)
  BY PickedIs
<1>3. /\ b \in Seq(Seq(T)) /\ Len(b) = n
      /\ \A i \in 1..n : b[i] = (IF i \in R THEN <<r[i]>> ELSE <<>>)
  BY PickedIs
<1>4. \A i \in 1..n : i \in R <=> m + i \in P
  BY <1>1 DEF Behind
<1> HIDE DEF a, b, R, w, m, n
<1>5. /\ c \in Seq(Seq(T)) /\ Len(c) = m + n
      /\ \A i \in 1..(m + n) : c[i] = (IF i \in P THEN <<w[i]>> ELSE <<>>)
  BY <1>1, PickedIs
<1> HIDE DEF c
<1>6. /\ a \o b \in Seq(Seq(T)) /\ Len(a \o b) = m + n
      /\ \A i \in 1..(m + n) : (a \o b)[i] = IF i <= m THEN a[i] ELSE b[i - m]
  <2> DEFINE U == Seq(T)
  <2>1. a \in Seq(U) /\ b \in Seq(U)
    BY <1>2, <1>3
  <2> HIDE DEF U
  <2>2. /\ a \o b \in Seq(U) /\ Len(a \o b) = Len(a) + Len(b)
        /\ \A i \in 1..(Len(a) + Len(b)) : (a \o b)[i] = IF i <= Len(a) THEN a[i] ELSE b[i - Len(a)]
    BY <2>1, ConcatProperties
  <2> QED BY <1>2, <1>3, <2>2 DEF U
<1>7. ASSUME NEW i \in 1..(m + n) PROVE c[i] = (a \o b)[i]
  <2>1. CASE i <= m
    <3>1. i \in 1..m
      BY <1>1, <2>1
    <3> QED BY <1>1, <1>2, <1>5, <1>6, <2>1, <3>1, ZenonT(60)
  <2>2. CASE ~(i <= m)
    <3>1. i - m \in 1..n /\ m + (i - m) = i
      BY <1>1, <2>2
    <3>2. i - m \in R <=> i \in P
      BY <1>4, <3>1
    <3>3. b[i - m] = (IF i \in P THEN <<r[i - m]>> ELSE <<>>)
      BY <1>3, <3>1, <3>2
    <3> QED BY <1>1, <1>5, <1>6, <2>2, <3>3
  <2> QED BY <2>1, <2>2
<1>8. c = a \o b
  BY <1>5, <1>6, <1>7, SeqEqual
<1>9. S!FlattenSeq(a \o b) = S!FlattenSeq(a) \o S!FlattenSeq(b)
  BY <1>2, <1>3, FlatConcat
<1> QED
  BY <1>8, <1>9, KeptIs DEF a, b, c, R, w

\* There is nothing to keep.
LEMMA KeptEmpty == \A P : Kept(<<>>, P) = <<>>
<1> SUFFICES ASSUME NEW P PROVE Kept(<<>>, P) = <<>>
  OBVIOUS
<1>1. <<>> \in Seq({}) /\ Len(<<>>) = 0
  BY EmptySeq
<1>2. Len(Picked(<<>>, P)) = 0 /\ Picked(<<>>, P) \in Seq(Seq({}))
  BY <1>1, PickedIs
<1>3. Picked(<<>>, P) = <<>>
  BY <1>2, EmptySeq
<1> QED
  BY <1>3, KeptIs, FlatEmpty

\* A single element is kept or not.
LEMMA KeptOne == \A x, P : Kept(<<x>>, P) = (IF 1 \in P THEN <<x>> ELSE <<>>)
<1> SUFFICES ASSUME NEW x, NEW P PROVE Kept(<<x>>, P) = (IF 1 \in P THEN <<x>> ELSE <<>>)
  OBVIOUS
<1> DEFINE y == IF 1 \in P THEN <<x>> ELSE <<>>
           z == <<x>>
<1>1. <<>> \in Seq({x}) /\ Len(<<>>) = 0 /\ z = Append(<<>>, x)
  BY EmptySeq
<1>2. z \in Seq({x}) /\ Len(z) = 1 /\ z[1] = x
  BY <1>1, AppendProperties
<1> HIDE DEF z
<1>3. Picked(z, P) \in Seq(Seq({x})) /\ Len(Picked(z, P)) = 1 /\ Picked(z, P)[1] = y
  <2> DEFINE w == Picked(z, P)
  <2>1. /\ w \in Seq(Seq({x})) /\ Len(w) = Len(z)
        /\ \A i \in 1..Len(z) : w[i] = (IF i \in P THEN <<z[i]>> ELSE <<>>)
    BY <1>2, PickedIs
  <2> HIDE DEF w
  <2>2. w[1] = (IF 1 \in P THEN <<z[1]>> ELSE <<>>)
    BY <1>2, <2>1
  <2> QED BY <1>2, <2>1, <2>2 DEF w
<1>4. y \in Seq({x})
  BY <1>1, <1>2 DEF z
<1> HIDE DEF y
<1>5. Picked(z, P) = <<y>>
  BY <1>3
<1> QED
  BY <1>4, <1>5, KeptIs, FlatOne DEF y, z

\* One element more is kept or not.
LEMMA KeptAppend ==
  ASSUME NEW T, NEW q \in Seq(T), NEW x \in T, NEW P
  PROVE  Kept(Append(q, x), P) = (IF Len(q) + 1 \in P THEN Append(Kept(q, P), x) ELSE Kept(q, P))
<1> DEFINE z == <<x>>
           R == Behind(q, z, P)
<1>1. z \in Seq(T) /\ Append(q, x) = q \o z /\ 1 \in DOMAIN z
  BY AppendIsConcat
<1> HIDE DEF z
<1>2. Kept(Append(q, x), P) = Kept(q, P) \o Kept(z, R)
  BY <1>1, KeptConcat
<1>3. 1 \in R <=> Len(q) + 1 \in P
  BY <1>1 DEF Behind
<1>4. Kept(q, P) \in Seq(T)
  BY KeptType
<1>5. Append(Kept(q, P), x) = Kept(q, P) \o <<x>> /\ Kept(q, P) \o <<>> = Kept(q, P)
  BY <1>4, AppendIsConcat, ConcatEmptySeq
<1> HIDE DEF R
<1> QED
  BY <1>2, <1>3, <1>5, KeptOne DEF z

\* Nothing is kept of a sequence that has none of the positions.
LEMMA KeptNone ==
  ASSUME NEW T, NEW q \in Seq(T), NEW P, \A i \in DOMAIN q : i \notin P
  PROVE  Kept(q, P) = <<>>
<1> DEFINE Q == {r \in Seq(T) : (\A i \in 1..Len(r) : i \notin P) => Kept(r, P) = <<>>}
<1>1. <<>> \in Q
  BY KeptEmpty, EmptySeq
<1>2. ASSUME NEW r \in Seq(T), NEW x \in T, r \in Q PROVE Append(r, x) \in Q
  <2> DEFINE w == Append(r, x)
  <2>1. w \in Seq(T) /\ Len(w) = Len(r) + 1 /\ Len(r) \in Nat
    BY AppendProperties, LenProperties
  <2>2. Kept(w, P) = IF Len(r) + 1 \in P THEN Append(Kept(r, P), x) ELSE Kept(r, P)
    BY KeptAppend
  <2>3. (\A i \in 1..Len(r) : i \notin P) => Kept(r, P) = <<>>
    BY <1>2
  <2> HIDE DEF w
  <2>4. ASSUME \A i \in 1..Len(w) : i \notin P PROVE Kept(w, P) = <<>>
    <3>1. Len(r) + 1 \notin P /\ \A i \in 1..Len(r) : i \notin P
      BY <2>1, <2>4
    <3> QED BY <2>2, <2>3, <3>1
  <2> QED BY <2>1, <2>4 DEF w
<1>3. Seq(T) \subseteq Q
  <2> HIDE DEF Q
  <2> QED BY <1>1, <1>2, AllSequences
<1> QED BY <1>3, LenProperties

\* All elements are kept.
LEMMA KeptAll ==
  ASSUME NEW T, NEW q \in Seq(T), NEW P, DOMAIN q \subseteq P
  PROVE  Kept(q, P) = q
<1> DEFINE Q == {r \in Seq(T) : 1..Len(r) \subseteq P => Kept(r, P) = r}
<1>1. <<>> \in Q
  BY KeptEmpty, EmptySeq
<1>2. ASSUME NEW r \in Seq(T), NEW x \in T, r \in Q PROVE Append(r, x) \in Q
  <2> DEFINE w == Append(r, x)
  <2>1. w \in Seq(T) /\ Len(w) = Len(r) + 1 /\ Len(r) \in Nat
    BY AppendProperties, LenProperties
  <2>2. Kept(w, P) = (IF Len(r) + 1 \in P THEN Append(Kept(r, P), x) ELSE Kept(r, P))
    BY KeptAppend
  <2> HIDE DEF w
  <2>3. 1..Len(w) \subseteq P => Len(r) + 1 \in P /\ 1..Len(r) \subseteq P
    BY <2>1
  <2>4. 1..Len(w) \subseteq P => Kept(w, P) = w
    BY <1>2, <2>2, <2>3 DEF w
  <2> QED BY <2>1, <2>4 DEF w
<1> HIDE DEF Q
<1>3. q \in Q
  BY <1>1, <1>2, AllSequences
<1>4. DOMAIN q = 1..Len(q)
  BY LenProperties
<1> QED
  BY <1>3, <1>4 DEF Q

\* The numbers up to k that are chosen, and how many there are.
UpToIn(k, positions) == {j \in 1..k : j \in positions}
CountIn(k, positions) == Cardinality(UpToIn(k, positions))

\* The count goes up by one with each number that is chosen.
LEMMA CountIs ==
  ASSUME NEW P
  PROVE  /\ CountIn(0, P) = 0
         /\ \A k \in Nat : CountIn(k, P) \in Nat
         /\ \A k \in Nat : CountIn(k + 1, P) = IF k + 1 \in P THEN CountIn(k, P) + 1 ELSE CountIn(k, P)
<1>1. CountIn(0, P) = 0
  <2>1. UpToIn(0, P) = {}
    BY DEF UpToIn
  <2> QED BY <2>1, FS_EmptySet DEF CountIn
<1>2. ASSUME NEW k \in Nat PROVE IsFiniteSet(UpToIn(k, P)) /\ CountIn(k, P) \in Nat
  <2>1. IsFiniteSet(1..k)
    BY FS_Interval
  <2>2. UpToIn(k, P) \in SUBSET (1..k)
    BY DEF UpToIn
  <2>3. IsFiniteSet(UpToIn(k, P))
    BY <2>1, <2>2, FS_Subset
  <2> QED BY <2>3, FS_CardinalityType DEF CountIn
<1>3. ASSUME NEW k \in Nat
      PROVE  CountIn(k + 1, P) = IF k + 1 \in P THEN CountIn(k, P) + 1 ELSE CountIn(k, P)
  <2>1. \A j : j \in 1..(k + 1) <=> j \in 1..k \/ j = k + 1
    OBVIOUS
  <2>2. CASE k + 1 \in P
    <3>1. UpToIn(k + 1, P) = UpToIn(k, P) \cup {k + 1}
      BY <2>1, <2>2 DEF UpToIn
    <3>2. k + 1 \notin UpToIn(k, P)
      BY DEF UpToIn
    <3>3. Cardinality(UpToIn(k, P) \cup {k + 1}) = Cardinality(UpToIn(k, P)) + 1
      BY <1>2, <3>2, FS_AddElement
    <3> QED BY <2>2, <3>1, <3>3 DEF CountIn
  <2>3. CASE k + 1 \notin P
    <3>1. UpToIn(k + 1, P) = UpToIn(k, P)
      BY <2>1, <2>3 DEF UpToIn
    <3> QED BY <2>3, <3>1 DEF CountIn
  <2> QED BY <2>2, <2>3
<1> QED
  BY <1>1, <1>2, <1>3

\* An element that is kept comes after those that were kept before.
LEMMA KeptCount ==
  ASSUME NEW T, NEW q \in Seq(T), NEW P
  PROVE  /\ Len(Kept(q, P)) = CountIn(Len(q), P)
         /\ \A k \in 1..Len(q) : k \in P =>
              /\ CountIn(k, P) \in 1..CountIn(Len(q), P)
              /\ Kept(q, P)[CountIn(k, P)] = q[k]
<1> DEFINE Counted(u) ==
             /\ Len(Kept(u, P)) = CountIn(Len(u), P)
             /\ \A k \in 1..Len(u) : k \in P =>
                  /\ CountIn(k, P) \in 1..CountIn(Len(u), P)
                  /\ Kept(u, P)[CountIn(k, P)] = u[k]
           Q == {u \in Seq(T) : Counted(u)}
<1>1. <<>> \in Q
  <2>1. Len(<<>>) = 0
    OBVIOUS
  <2> QED BY <2>1, KeptEmpty, CountIs
<1>2. ASSUME NEW u \in Seq(T), NEW x \in T, u \in Q PROVE Append(u, x) \in Q
  <2> DEFINE w == Append(u, x)
             n == Len(u)
             K == Kept(u, P)
             c == CountIn(n, P)
  <2>1. n \in Nat /\ w \in Seq(T) /\ Len(w) = n + 1 /\ w[n + 1] = x /\ \A k \in 1..n : w[k] = u[k]
    OBVIOUS
  <2>2. K \in Seq(T) /\ Kept(w, P) = IF n + 1 \in P THEN Append(K, x) ELSE K
    BY KeptType, KeptAppend
  <2>3. c \in Nat /\ CountIn(n + 1, P) = IF n + 1 \in P THEN c + 1 ELSE c
    BY <2>1, CountIs
  <2>4. /\ Len(K) = c
        /\ \A k \in 1..n : k \in P => CountIn(k, P) \in 1..c /\ K[CountIn(k, P)] = u[k]
    BY <1>2
  <2> SUFFICES Counted(w)
    BY <2>1
  <2> HIDE DEF w, K, c, n
  <2>5. \A k \in 1..(n + 1) : k \in 1..n \/ k = n + 1
    BY <2>1
  <2>6. CASE n + 1 \in P
    <3>1. /\ Len(Append(K, x)) = c + 1 /\ Append(K, x)[c + 1] = x
          /\ \A j \in 1..c : Append(K, x)[j] = K[j] /\ j \in 1..(c + 1)
      BY <2>2, <2>3, <2>4
    <3>2. c + 1 \in 1..(c + 1)
      BY <2>3
    <3>3. Kept(w, P) = Append(K, x) /\ CountIn(n + 1, P) = c + 1
      BY <2>2, <2>3, <2>6
    <3> QED BY <2>1, <2>4, <2>5, <3>1, <3>2, <3>3
  <2>7. CASE n + 1 \notin P
    <3>1. Kept(w, P) = K /\ CountIn(n + 1, P) = c
      BY <2>2, <2>3, <2>7
    <3> QED BY <2>1, <2>4, <2>5, <2>7, <3>1
  <2> QED BY <2>6, <2>7
<1>3. Seq(T) \subseteq Q
  <2> HIDE DEF Q
  <2> QED BY <1>1, <1>2, AllSequences
<1> QED
  BY <1>3

-----------------------------------------------------------------------------
(* Sequences in the opposite order.                                        *)

\* The elements in the opposite order.
LEMMA ReverseIs ==
  ASSUME NEW T, NEW q \in Seq(T)
  PROVE  /\ S!Reverse(q) \in Seq(T) /\ Len(S!Reverse(q)) = Len(q)
         /\ \A i \in 1..Len(q) : S!Reverse(q)[i] = q[(Len(q) - i) + 1]
<1>1. Len(q) \in Nat /\ \A i \in 1..Len(q) : q[i] \in T
  BY LenProperties, ElementOfSeq
<1>2. \A i \in 1..Len(q) : (Len(q) - i) + 1 \in 1..Len(q)
  BY <1>1
<1>3. S!Reverse(q) \in [1..Len(q) -> T]
  BY <1>1, <1>2 DEF S!Reverse
<1>4. S!Reverse(q) \in Seq(T)
  BY <1>1, <1>3, SeqDef
<1>5. Len(S!Reverse(q)) = Len(q)
  BY <1>1, <1>3, <1>4, LenProperties
<1> QED
  BY <1>4, <1>5 DEF S!Reverse

\* Two sequences that are joined, in the opposite order.
LEMMA ReverseConcat ==
  ASSUME NEW T, NEW q \in Seq(T), NEW r \in Seq(T)
  PROVE  S!Reverse(q \o r) = S!Reverse(r) \o S!Reverse(q)
<1> DEFINE w == q \o r
           a == S!Reverse(q)
           b == S!Reverse(r)
           m == Len(q)
           n == Len(r)
<1>1. /\ w \in Seq(T) /\ Len(w) = m + n /\ m \in Nat /\ n \in Nat
      /\ \A i \in 1..(m + n) : w[i] = IF i <= m THEN q[i] ELSE r[i - m]
  BY ConcatProperties, LenProperties
<1>2. a \in Seq(T) /\ Len(a) = m /\ \A i \in 1..m : a[i] = q[(m - i) + 1]
  BY ReverseIs
<1>3. b \in Seq(T) /\ Len(b) = n /\ \A i \in 1..n : b[i] = r[(n - i) + 1]
  BY ReverseIs
<1> HIDE DEF a, b, w, m, n
<1>4. /\ S!Reverse(w) \in Seq(T) /\ Len(S!Reverse(w)) = Len(w)
      /\ \A i \in 1..Len(w) : S!Reverse(w)[i] = w[(Len(w) - i) + 1]
  BY <1>1, ReverseIs
<1>5. /\ b \o a \in Seq(T) /\ Len(b \o a) = Len(w)
      /\ \A i \in 1..Len(w) : (b \o a)[i] = IF i <= n THEN b[i] ELSE a[i - n]
  <2>1. /\ b \o a \in Seq(T) /\ Len(b \o a) = Len(b) + Len(a)
        /\ \A i \in 1..(Len(b) + Len(a)) : (b \o a)[i] = IF i <= Len(b) THEN b[i] ELSE a[i - Len(b)]
    BY <1>2, <1>3, ConcatProperties, ZenonT(60)
  <2>2. Len(b) + Len(a) = Len(w)
    BY <1>1, <1>2, <1>3
  <2> QED BY <1>3, <2>1, <2>2
<1>7. ASSUME NEW i \in 1..Len(w) PROVE S!Reverse(w)[i] = (b \o a)[i]
  <2> DEFINE j == (Len(w) - i) + 1
  <2>1. j \in 1..Len(w) /\ S!Reverse(w)[i] = w[j] /\ w[j] = IF j <= m THEN q[j] ELSE r[j - m]
    BY <1>1, <1>4
  <2>2. CASE i <= n
    <3>1. i \in 1..n /\ ~(j <= m) /\ j - m = (n - i) + 1
      BY <1>1, <2>2
    <3> HIDE DEF j
    <3>2. (b \o a)[i] = b[i] /\ w[j] = r[j - m]
      BY <1>5, <2>1, <2>2, <3>1
    <3> QED BY <1>3, <2>1, <3>1, <3>2
  <2>3. CASE ~(i <= n)
    <3>1. i - n \in 1..m /\ j <= m /\ j = (m - (i - n)) + 1
      BY <1>1, <2>3
    <3> HIDE DEF j
    <3>2. (b \o a)[i] = a[i - n] /\ w[j] = q[j]
      BY <1>5, <2>1, <2>3, <3>1
    <3> QED BY <1>2, <2>1, <3>1, <3>2
  <2> QED BY <2>2, <2>3
<1>8. S!Reverse(w) = b \o a
  BY <1>4, <1>5, <1>7, SeqEqual
<1> QED
  BY <1>8 DEF a, b, w

\* No elements have one order only.
LEMMA ReverseEmpty == S!Reverse(<<>>) = <<>>
<1>1. <<>> \in Seq({}) /\ Len(<<>>) = 0
  BY EmptySeq
<1>2. S!Reverse(<<>>) \in Seq({}) /\ Len(S!Reverse(<<>>)) = 0
  BY <1>1, ReverseIs
<1> QED
  BY <1>2, EmptySeq

\* One element has one order only.
LEMMA ReverseOne ==
  ASSUME NEW T, NEW q \in Seq(T), Len(q) = 1
  PROVE  S!Reverse(q) = q
<1>1. /\ S!Reverse(q) \in Seq(T) /\ Len(S!Reverse(q)) = 1
      /\ S!Reverse(q)[1] = q[(1 - 1) + 1]
  BY ReverseIs
<1>2. \A i \in 1..Len(q) : S!Reverse(q)[i] = q[i]
  BY <1>1
<1> QED
  BY <1>1, <1>2, SeqEqual

\* The opposite of the opposite order.
LEMMA ReverseTwice ==
  ASSUME NEW T, NEW q \in Seq(T)
  PROVE  S!Reverse(S!Reverse(q)) = q
<1> DEFINE r == S!Reverse(q)
           n == Len(q)
<1>1. r \in Seq(T) /\ Len(r) = n /\ \A i \in 1..n : r[i] = q[(n - i) + 1]
  BY ReverseIs
<1>2. n \in Nat
  BY LenProperties
<1> HIDE DEF r, n
<1>3. S!Reverse(r) \in Seq(T) /\ Len(S!Reverse(r)) = n /\ \A i \in 1..n : S!Reverse(r)[i] = r[(n - i) + 1]
  BY <1>1, ReverseIs
<1>4. ASSUME NEW i \in 1..n PROVE S!Reverse(r)[i] = q[i]
  <2>1. (n - i) + 1 \in 1..n /\ (n - ((n - i) + 1)) + 1 = i
    BY <1>2
  <2> QED BY <1>1, <1>3, <2>1
<1>5. S!Reverse(r) = q
  BY <1>3, <1>4, SeqEqual DEF n
<1> QED
  BY <1>5 DEF r

-----------------------------------------------------------------------------
(* UTF-8.                                                                  *)

Bytes == Seq(Utf8Byte)
Text(b) == b \in Bytes /\ IsUtf8(b)

\* What the conversion of bytes, UTF-8 or not, consists of.
CesuByte == CESU!Byte \cup {"X"}

\* The first p bytes end before a character, or at the end.
EndsAt(b, p) == p \in 0..Len(b) /\ (p < Len(b) => b[p + 1] # "c")

\* A character of n bytes starts at i.
CharacterIn(b, i, n) ==
  LET next == i + n IN
  /\ next \in (i + 1)..(Len(b) + 1)
  /\ \A j \in (i + 1)..(next - 1) : b[j] = "c"
  /\ next \in DOMAIN b => b[next] # "c"

\* Text consists of characters.
LEMMA TextIs ==
  \A b : IsUtf8(b) <=>
    /\ b # <<>> => b[1] # "c"
    /\ \A i \in DOMAIN b : b[i] # "c" => CharacterIn(b, i, CharStart(b[i]))
BY Zenon DEF IsUtf8, CharacterIn

\* What IsUtf8 says of the start of a character.
LEMMA CharacterAt ==
  ASSUME NEW b, Text(b), NEW i \in 1..Len(b), b[i] # "c"
  PROVE  LET n == CharStart(b[i])
         IN /\ n \in 1..4 /\ i + n <= Len(b) + 1
            /\ \A j \in (i + 1)..(i + n - 1) : b[j] = "c"
            /\ i + n <= Len(b) => b[i + n] # "c"
            /\ b[i] \in {"A", "L", "E", "F"}
<1>1. DOMAIN b = 1..Len(b) /\ Len(b) \in Nat /\ b[i] \in Utf8Byte
  BY LenProperties DEF Text, Bytes
<1>2. CharStart(b[i]) \in 0..4 /\ (CharStart(b[i]) = 0 => b[i] = "X")
  BY <1>1 DEF CharStart, Utf8Byte
<1>3. LET next == i + CharStart(b[i]) IN
       /\ next \in (i + 1)..(Len(b) + 1)
       /\ \A j \in (i + 1)..(next - 1) : b[j] = "c"
       /\ next \in DOMAIN b => b[next] # "c"
  BY <1>1 DEF Text, IsUtf8
<1>4. CharStart(b[i]) # 0
  BY <1>2, <1>3
<1>5. b[i] \in {"A", "L", "E", "F"}
  BY <1>1, <1>4 DEF CharStart, Utf8Byte
<1>6. i + CharStart(b[i]) \in (i + 1)..(Len(b) + 1)
  BY <1>3
<1>7. i + CharStart(b[i]) <= Len(b) => i + CharStart(b[i]) \in DOMAIN b
  BY <1>1, <1>6
<1> QED
  BY <1>1, <1>2, <1>3, <1>4, <1>5, <1>7

\* Before a character starts, or the text ends, another one ends.
LEMMA CharacterBefore ==
  ASSUME NEW b, Text(b), NEW p \in 1..Len(b), EndsAt(b, p)
  PROVE  \E i \in 1..p : b[i] # "c" /\ i + CharStart(b[i]) = p + 1
<1> DEFINE N == {n \in Nat : \E i \in 1..p : n = p - i /\ b[i] # "c"}
<1>1. DOMAIN b = 1..Len(b) /\ Len(b) \in Nat
  BY LenProperties DEF Text, Bytes
<1>2. 1 \in 1..p /\ b[1] # "c" /\ p - 1 \in N
  BY <1>1 DEF Text, IsUtf8
<1>3. PICK n \in N : \A m \in N : n <= m
  <2> HIDE DEF N
  <2>1. N \subseteq Nat
    BY DEF N
  <2> QED BY <1>2, <2>1, LeastOf
<1>4. PICK i \in 1..p : n = p - i /\ b[i] # "c"
  BY <1>3
<1>5. \A j \in 1..p : b[j] # "c" => j <= i
  <2> TAKE j \in 1..p
  <2> HAVE b[j] # "c"
  <2>1. p - j \in N
    OBVIOUS
  <2>2. p - i <= p - j
    BY <1>3, <1>4, <2>1
  <2> QED BY <2>2, <1>1
<1> HIDE DEF N
<1>6. LET n1 == CharStart(b[i])
      IN /\ n1 \in 1..4 /\ i + n1 <= Len(b) + 1
         /\ \A j \in (i + 1)..(i + n1 - 1) : b[j] = "c"
         /\ i + n1 <= Len(b) => b[i + n1] # "c"
  <2>1. i \in 1..Len(b)
    BY <1>1
  <2> QED BY <1>4, <2>1, CharacterAt
<1>7. ~(i + CharStart(b[i]) <= p)
  <2> SUFFICES ASSUME i + CharStart(b[i]) <= p PROVE FALSE
    OBVIOUS
  <2>1. i + CharStart(b[i]) \in 1..p /\ i + CharStart(b[i]) <= Len(b)
    BY <1>1, <1>6
  <2>2. b[i + CharStart(b[i])] # "c"
    BY <1>6, <2>1
  <2>3. i + CharStart(b[i]) <= i
    BY <1>5, <2>1, <2>2
  <2> QED BY <1>6, <2>3
<1>8. ~(i + CharStart(b[i]) > p + 1)
  <2> SUFFICES ASSUME i + CharStart(b[i]) > p + 1 PROVE FALSE
    OBVIOUS
  <2>1. p < Len(b) /\ p + 1 \in (i + 1)..(i + CharStart(b[i]) - 1)
    BY <1>1, <1>6
  <2>2. b[p + 1] = "c"
    BY <1>6, <2>1
  <2> QED BY <2>1, <2>2 DEF EndsAt
<1> QED
  BY <1>4, <1>6, <1>7, <1>8

\* Text that ends where a character ends is followed by text.
LEMMA TextSplit ==
  ASSUME NEW b, Text(b), NEW p, EndsAt(b, p)
  PROVE  /\ Text(SubSeq(b, 1, p)) /\ Text(SubSeq(b, p + 1, Len(b)))
         /\ b = SubSeq(b, 1, p) \o SubSeq(b, p + 1, Len(b))
<1> DEFINE x == SubSeq(b, 1, p)
           y == SubSeq(b, p + 1, Len(b))
           m == Len(b)
<1>1. DOMAIN b = 1..m /\ m \in Nat /\ b \in Bytes /\ p \in 0..m /\ \A i \in 1..m : b[i] \in Utf8Byte
  BY LenProperties DEF Text, Bytes, EndsAt
<1>2. x \in Bytes /\ Len(x) = p /\ \A i \in 1..p : x[i] = b[i]
  <2>1. \A i \in 1..p : b[i] \in Utf8Byte
    BY <1>1
  <2>2. /\ x \in Bytes /\ Len(x) = (IF 1 <= p THEN p - 1 + 1 ELSE 0)
        /\ \A i \in 1..p - 1 + 1 : x[i] = b[1 + i - 1]
    BY <1>1, <2>1, SubSeqProperties DEF Bytes
  <2>3. p - 1 + 1 = p /\ \A i \in 1..p : 1 + i - 1 = i
    BY <1>1
  <2> QED BY <1>1, <2>2, <2>3
<1>3. y \in Bytes /\ Len(y) = m - p /\ \A i \in 1..(m - p) : y[i] = b[p + i]
  <2>1. \A i \in (p + 1)..m : b[i] \in Utf8Byte
    BY <1>1
  <2>2. /\ y \in Bytes /\ Len(y) = (IF p + 1 <= m THEN m - (p + 1) + 1 ELSE 0)
        /\ \A i \in 1..m - (p + 1) + 1 : y[i] = b[p + 1 + i - 1]
    BY <1>1, <2>1, SubSeqProperties DEF Bytes
  <2> HIDE DEF x, y, m
  <2>3. Len(y) = m - p
    BY <1>1, <2>2
  <2>4. ASSUME NEW i \in 1..(m - p) PROVE y[i] = b[p + i]
    <3>1. i \in 1..m - (p + 1) + 1 /\ p + 1 + i - 1 = p + i
      BY <1>1
    <3> QED BY <2>2, <3>1
  <2> QED BY <2>2, <2>3, <2>4
<1>4. DOMAIN x = 1..p /\ DOMAIN y = 1..(m - p)
  BY <1>2, <1>3, LenProperties, SMTT(60) DEF Bytes
<1>5. b = x \o y
  <2>1. 1 \in 1..(m + 1) /\ p \in (1 - 1)..m /\ m \in p..m
    BY <1>1, SMTT(60)
  <2>2. x \o y = SubSeq(b, 1, m)
    BY <1>1, <2>1, ConcatAdjacentSubSeq DEF Bytes
  <2> QED
    BY <1>1, <2>2, SubSeqFull DEF Bytes
<1> HIDE DEF x, y, m
<1>6. IsUtf8(x)
  <2>1. x # <<>> => x[1] # "c"
    <3>1. x # <<>> => p # 0
      BY <1>2, EmptySeq DEF Bytes
    <3>2. p # 0 => 1 \in 1..p /\ b # <<>>
      BY <1>1, EmptySeq DEF m
    <3> QED
      BY <1>2, <3>1, <3>2 DEF Text, IsUtf8
  <2>2. ASSUME NEW i \in 1..p, x[i] # "c"
        PROVE  CharacterIn(x, i, CharStart(x[i]))
    <3>1. x[i] = b[i] /\ i \in 1..m
      BY <1>1, <1>2
    <3> DEFINE n == CharStart(b[i])
    <3>2. /\ n \in 1..4 /\ i + n <= m + 1
          /\ \A j \in (i + 1)..(i + n - 1) : b[j] = "c"
          /\ i + n <= m => b[i + n] # "c"
      BY <2>2, <3>1, CharacterAt DEF m
    <3> HIDE DEF n
    <3>3. i + n <= p + 1
      <4> SUFFICES ASSUME i + n > p + 1 PROVE FALSE
        BY <1>1, <3>2
      <4>1. p < m /\ p + 1 \in (i + 1)..(i + n - 1)
        BY <1>1, <3>2
      <4>2. b[p + 1] = "c"
        BY <3>2, <4>1
      <4> QED BY <4>1, <4>2 DEF EndsAt, m
    <3>4. \A j \in (i + 1)..(i + n - 1) : j \in 1..p
      BY <1>1, <3>2, <3>3
    <3>5. \A j \in (i + 1)..(i + n - 1) : x[j] = "c"
      BY <1>2, <3>2, <3>4
    <3>6. i + n \in 1..p => x[i + n] # "c"
      BY <1>1, <1>2, <3>2
    <3>7. i + n \in (i + 1)..(p + 1)
      BY <1>1, <3>2, <3>3
    <3>8. CharStart(x[i]) = n
      BY <3>1 DEF n
    <3>9. CharacterIn(x, i, n)
      BY <1>1, <1>2, <1>4, <3>2, <3>5, <3>6, <3>7 DEF CharacterIn
    <3> QED
      BY <3>8, <3>9
  <2> QED
    BY <1>4, <2>1, <2>2, TextIs
<1>7. IsUtf8(y)
  <2>1. y # <<>> => y[1] # "c"
    <3>1. y # <<>> => m - p # 0
      BY <1>3, EmptySeq DEF Bytes
    <3>2. m - p # 0 => 1 \in 1..(m - p) /\ p < m
      BY <1>1
    <3> QED
      BY <1>1, <1>3, <3>1, <3>2 DEF EndsAt, m
  <2>2. ASSUME NEW i \in 1..(m - p), y[i] # "c"
        PROVE  CharacterIn(y, i, CharStart(y[i]))
    <3>1. y[i] = b[p + i] /\ p + i \in 1..m
      BY <1>1, <1>3
    <3> DEFINE n == CharStart(b[p + i])
    <3>2. /\ n \in 1..4 /\ p + i + n <= m + 1
          /\ \A j \in (p + i + 1)..(p + i + n - 1) : b[j] = "c"
          /\ p + i + n <= m => b[p + i + n] # "c"
      BY <2>2, <3>1, CharacterAt DEF m
    <3> HIDE DEF n
    <3>3. ASSUME NEW j \in (i + 1)..(i + n - 1) PROVE y[j] = "c"
      <4>1. p + j \in (p + i + 1)..(p + i + n - 1) /\ j \in 1..(m - p)
        BY <1>1, <3>2
      <4> QED BY <1>3, <3>2, <4>1
    <3>4. i + n \in 1..(m - p) => y[i + n] # "c"
      <4> SUFFICES ASSUME i + n \in 1..(m - p) PROVE y[i + n] # "c"
        OBVIOUS
      <4>1. p + (i + n) = p + i + n /\ p + i + n <= m
        BY <1>1, <3>2
      <4> QED BY <1>3, <3>2, <4>1
    <3>5. i + n \in (i + 1)..(m - p + 1)
      BY <1>1, <3>2
    <3>6. CharStart(y[i]) = n
      BY <3>1 DEF n
    <3>7. CharacterIn(y, i, n)
      BY <1>1, <1>3, <1>4, <3>2, <3>3, <3>4, <3>5 DEF CharacterIn
    <3> QED
      BY <3>6, <3>7
  <2> QED
    BY <1>4, <2>1, <2>2, TextIs
<1> QED
  BY <1>2, <1>3, <1>5, <1>6, <1>7 DEF Text, x, y, m

\* Two texts make a text.
LEMMA TextJoined ==
  ASSUME NEW x, Text(x), NEW y, Text(y)
  PROVE  Text(x \o y)
<1> DEFINE b == x \o y
           p == Len(x)
           q == Len(y)
<1>1. /\ b \in Bytes /\ Len(b) = p + q /\ p \in Nat /\ q \in Nat
      /\ DOMAIN b = 1..(p + q) /\ DOMAIN x = 1..p /\ DOMAIN y = 1..q
      /\ \A i \in 1..p + q : b[i] = IF i <= p THEN x[i] ELSE y[i - p]
  BY ConcatProperties, LenProperties DEF Text, Bytes
<1>2. /\ p # 0 => x # <<>> /\ x[1] # "c"
      /\ q # 0 => y # <<>> /\ y[1] # "c"
  BY EmptySeq DEF Text, IsUtf8
<1>3. /\ \A i \in 1..p : b[i] = x[i]
      /\ \A i \in 1..q : b[p + i] = y[i]
  <2>1. ASSUME NEW i \in 1..q PROVE b[p + i] = y[i]
    <3>1. p + i \in 1..p + q /\ ~(p + i <= p) /\ (p + i) - p = i
      BY <1>1
    <3> QED BY <1>1, <3>1
  <2> QED BY <1>1, <2>1
<1> HIDE DEF b, p, q
<1>4. p + 1 \in 1..(p + q) => b[p + 1] # "c"
  <2>1. p + 1 \in 1..(p + q) => q # 0 /\ 1 \in 1..q
    BY <1>1
  <2> QED BY <1>2, <1>3, <2>1
<1>5. b # <<>> => b[1] # "c"
  <2>1. b # <<>> => p # 0 \/ (p = 0 /\ q # 0)
    BY <1>1, EmptySeq DEF Bytes
  <2>2. CASE p # 0
    <3>1. 1 \in 1..p
      BY <1>1, <2>2
    <3> QED BY <1>2, <1>3, <2>2, <3>1
  <2>3. CASE p = 0 /\ q # 0
    <3>1. 1 \in 1..q /\ p + 1 = 1
      BY <1>1, <2>3
    <3> QED BY <1>2, <1>3, <2>3, <3>1
  <2> QED BY <2>1, <2>2, <2>3
<1>6. ASSUME NEW i \in 1..(p + q), b[i] # "c"
      PROVE  CharacterIn(b, i, CharStart(b[i]))
  <2>1. CASE i <= p
    <3>1. b[i] = x[i] /\ i \in 1..p
      BY <1>1, <1>3, <2>1
    <3> DEFINE n == CharStart(x[i])
    <3>2. /\ n \in 1..4 /\ i + n <= p + 1
          /\ \A j \in (i + 1)..(i + n - 1) : x[j] = "c"
          /\ i + n <= p => x[i + n] # "c"
      BY <1>6, <3>1, CharacterAt DEF p
    <3> HIDE DEF n
    <3>3. ASSUME NEW j \in (i + 1)..(i + n - 1) PROVE b[j] = "c"
      <4>1. j \in 1..p
        BY <1>1, <3>2
      <4> QED BY <1>3, <3>2, <4>1
    <3>4. i + n \in 1..(p + q) => b[i + n] # "c"
      <4>1. i + n \in 1..p \/ i + n = p + 1
        BY <1>1, <3>2
      <4> QED BY <1>1, <1>3, <1>4, <3>2, <4>1
    <3>5. i + n \in (i + 1)..(p + q + 1)
      BY <1>1, <3>2
    <3>6. CharStart(b[i]) = n
      BY <3>1 DEF n
    <3>7. CharacterIn(b, i, n)
      BY <1>1, <3>2, <3>3, <3>4, <3>5 DEF CharacterIn
    <3> QED BY <3>6, <3>7
  <2>2. CASE i > p
    <3> DEFINE k == i - p
    <3>1. k \in 1..q /\ i = p + k /\ b[i] = y[k]
      <4>1. k \in 1..q /\ i = p + k
        BY <1>1, <2>2
      <4> QED BY <1>3, <4>1
    <3> DEFINE n == CharStart(y[k])
    <3>2. /\ n \in 1..4 /\ k + n <= q + 1
          /\ \A j \in (k + 1)..(k + n - 1) : y[j] = "c"
          /\ k + n <= q => y[k + n] # "c"
      BY <1>6, <3>1, CharacterAt DEF q
    <3> HIDE DEF n, k
    <3>3. ASSUME NEW j \in (i + 1)..(i + n - 1) PROVE b[j] = "c"
      <4>1. j - p \in 1..q /\ j - p \in (k + 1)..(k + n - 1) /\ p + (j - p) = j
        BY <1>1, <3>1, <3>2
      <4> QED BY <1>3, <3>2, <4>1
    <3>4. i + n \in 1..(p + q) => b[i + n] # "c"
      <4> SUFFICES ASSUME i + n \in 1..(p + q) PROVE b[i + n] # "c"
        OBVIOUS
      <4>1. k + n \in 1..q /\ p + (k + n) = i + n
        BY <1>1, <3>1, <3>2
      <4> QED BY <1>3, <3>2, <4>1
    <3>5. i + n \in (i + 1)..(p + q + 1)
      BY <1>1, <3>1, <3>2
    <3>6. CharStart(b[i]) = n
      BY <3>1 DEF n
    <3>7. CharacterIn(b, i, n)
      BY <1>1, <3>2, <3>3, <3>4, <3>5 DEF CharacterIn
    <3> QED BY <3>6, <3>7
  <2> QED BY <1>1, <2>1, <2>2
<1>7. IsUtf8(b)
  BY <1>1, <1>5, <1>6, TextIs
<1> QED
  BY <1>1, <1>7 DEF Text, b

-----------------------------------------------------------------------------
(* The conversion.                                                         *)

\* What the bytes are converted to, byte by byte.
Blocks(b) == [i \in DOMAIN b |-> ConvertedByte(b, i)]

\* Every byte becomes one byte, or three.
LEMMA ByteConverted ==
  ASSUME NEW b, NEW i, b[i] \in Utf8Byte
  PROVE  ConvertedByte(b, i) \in Seq(CesuByte) /\ Len(ConvertedByte(b, i)) >= 1
<1> DEFINE v == ConvertedByte(b, i)
<1>1. \A e \in CesuByte : <<e>> \in Seq(CesuByte) /\ Len(<<e>>) = 1
  OBVIOUS
<1>2. /\ {"D", "f", "l", "s", "A", "L", "E", "X"} \subseteq CesuByte
      /\ <<"D", "f", "l">> \in Seq(CesuByte) /\ Len(<<"D", "f", "l">>) = 3
  BY DEF CesuByte, CESU!Byte, CESU!Continuation
<1>3. \/ v = <<"D", "f", "l">>
      \/ v = <<"D">> \/ v = <<"s">> \/ v = <<"l">>
      \/ v = <<b[i]>> /\ b[i] \in {"A", "L", "E", "X"}
  <2>1. CASE b[i] = "F"
    BY <2>1 DEF ConvertedByte
  <2>2. CASE b[i] = "c"
    BY <2>2 DEF ConvertedByte, ContinuedByte
  <2>3. CASE b[i] # "F" /\ b[i] # "c"
    BY <2>3 DEF ConvertedByte, Utf8Byte
  <2> QED BY <2>1, <2>2, <2>3
<1> SUFFICES v \in Seq(CesuByte) /\ Len(v) >= 1
  OBVIOUS
<1> HIDE DEF v
<1>4. CASE v = <<"D", "f", "l">>
  BY <1>2, <1>4
<1>5. CASE v = <<"D">> \/ v = <<"s">> \/ v = <<"l">>
  <2>1. \E e \in CesuByte : v = <<e>>
    BY <1>2, <1>5
  <2> QED BY <1>1, <2>1
<1>6. CASE v = <<b[i]>> /\ b[i] \in {"A", "L", "E", "X"}
  BY <1>1, <1>2, <1>6
<1> QED BY <1>3, <1>4, <1>5, <1>6

LEMMA BlocksAre ==
  ASSUME NEW b \in Bytes
  PROVE  /\ Blocks(b) \in Seq(Seq(CesuByte)) /\ Len(Blocks(b)) = Len(b)
         /\ \A i \in 1..Len(b) : Blocks(b)[i] = ConvertedByte(b, i) /\ Len(Blocks(b)[i]) >= 1
         /\ ToCesu8(b) = S!FlattenSeq(Blocks(b))
<1> DEFINE n == Len(b)
           B == Blocks(b)
<1>1. n \in Nat /\ DOMAIN b = 1..n /\ \A i \in 1..n : b[i] \in Utf8Byte
  BY LenProperties DEF Bytes
<1>2. \A i \in 1..n : ConvertedByte(b, i) \in Seq(CesuByte) /\ Len(ConvertedByte(b, i)) >= 1
  BY <1>1, ByteConverted
<1>3. B = [i \in 1..n |-> ConvertedByte(b, i)]
  BY <1>1 DEF Blocks
<1>4. B \in [1..n -> Seq(CesuByte)]
  BY <1>2, <1>3
<1> HIDE DEF n, B
<1>5. B \in Seq(Seq(CesuByte))
  BY <1>1, <1>4, SeqDef
<1>6. Len(B) = n
  BY <1>1, <1>4, <1>5, LenProperties
<1>7. ToCesu8(b) = S!FlattenSeq(Blocks(b))
  BY DEF ToCesu8, Blocks
<1> QED
  BY <1>2, <1>3, <1>5, <1>6, <1>7 DEF n, B

\* The conversion makes no sequence shorter.
LEMMA CesuType ==
  ASSUME NEW b \in Bytes
  PROVE  ToCesu8(b) \in Seq(CesuByte) /\ Len(ToCesu8(b)) >= Len(b)
<1>1. /\ Blocks(b) \in Seq(Seq(CesuByte)) /\ Len(Blocks(b)) = Len(b)
      /\ \A i \in 1..Len(Blocks(b)) : Len(Blocks(b)[i]) >= 1
      /\ ToCesu8(b) = S!FlattenSeq(Blocks(b))
  BY BlocksAre
<1> QED
  BY <1>1, FlatType, FlatLength

\* A text ends with a complete character: no four-byte character begins in its
\* last three bytes.
LEMMA NoOpenEnd ==
  ASSUME NEW a, Text(a), NEW i \in 1..Len(a), i > Len(a) - 3
  PROVE  a[i] # "F"
<1>1. Len(a) \in Nat
  BY LenProperties DEF Text, Bytes
<1> SUFFICES ASSUME a[i] = "F" PROVE FALSE
  OBVIOUS
<1>2. CharStart(a[i]) = 4 /\ a[i] # "c"
  BY DEF CharStart
<1>3. i + CharStart(a[i]) <= Len(a) + 1
  BY <1>2, CharacterAt
<1> QED
  BY <1>1, <1>2, <1>3

\* What follows a text is converted for itself.
LEMMA CesuJoined ==
  ASSUME NEW a, Text(a), NEW b \in Bytes
  PROVE  ToCesu8(a \o b) = ToCesu8(a) \o ToCesu8(b)
<1> DEFINE ab == a \o b
           p == Len(a)
           q == Len(b)
<1>1. /\ a \in Bytes /\ ab \in Bytes /\ Len(ab) = p + q /\ p \in Nat /\ q \in Nat
      /\ \A i \in 1..p + q : ab[i] = IF i <= p THEN a[i] ELSE b[i - p]
  BY ConcatProperties, LenProperties DEF Text, Bytes
<1>2. /\ Blocks(a) \in Seq(Seq(CesuByte)) /\ Len(Blocks(a)) = p
      /\ \A i \in 1..p : Blocks(a)[i] = ConvertedByte(a, i)
      /\ Blocks(b) \in Seq(Seq(CesuByte)) /\ Len(Blocks(b)) = q
      /\ \A i \in 1..q : Blocks(b)[i] = ConvertedByte(b, i)
      /\ Blocks(ab) \in Seq(Seq(CesuByte)) /\ Len(Blocks(ab)) = p + q
      /\ \A i \in 1..(p + q) : Blocks(ab)[i] = ConvertedByte(ab, i)
      /\ ToCesu8(a) = S!FlattenSeq(Blocks(a)) /\ ToCesu8(b) = S!FlattenSeq(Blocks(b))
      /\ ToCesu8(ab) = S!FlattenSeq(Blocks(ab))
  <2>1. Len(ab) = p + q
    BY <1>1
  <2> QED BY <1>1, <2>1, BlocksAre
<1>3. /\ Blocks(a) \o Blocks(b) \in Seq(Seq(CesuByte))
      /\ Len(Blocks(a) \o Blocks(b)) = p + q
      /\ \A i \in 1..(p + q) : (Blocks(a) \o Blocks(b))[i] =
           IF i <= p THEN Blocks(a)[i] ELSE Blocks(b)[i - p]
  BY <1>2, ConcatProperties, SMTT(30)
<1>4. ASSUME NEW i \in 1..p PROVE a[i] = "F" => i <= p - 3
  <2>1. i > p - 3 => a[i] # "F"
    BY NoOpenEnd
  <2> QED BY <1>1, <2>1
<1> HIDE DEF ab, p, q
<1>5. ASSUME NEW i \in 1..(p + q), i <= p PROVE ConvertedByte(ab, i) = ConvertedByte(a, i)
  <2>1. /\ ab[i] = a[i]
        /\ i > 1 => ab[i - 1] = a[i - 1]
        /\ i > 2 => ab[i - 2] = a[i - 2]
    BY <1>1, <1>5
  <2>2. ContinuedByte(ab, i) = ContinuedByte(a, i)
    BY <2>1 DEF ContinuedByte
  <2> QED BY <2>1, <2>2 DEF ConvertedByte
<1>6. ASSUME NEW i \in 1..(p + q), i > p PROVE ConvertedByte(ab, i) = ConvertedByte(b, i - p)
  <2>1. ab[i] = b[i - p]
    BY <1>1, <1>6
  <2>2. i > 1 /\ ab[i - 1] = "F" <=> i - p > 1 /\ b[i - p - 1] = "F"
    <3>1. CASE i - p > 1
      <4>1. i - 1 \in 1..(p + q) /\ ~(i - 1 <= p) /\ (i - 1) - p = i - p - 1
        BY <1>1, <1>6, <3>1
      <4>2. ab[i - 1] = b[i - p - 1]
        BY <1>1, <4>1
      <4> QED BY <1>1, <1>6, <3>1, <4>2
    <3>2. CASE ~(i - p > 1)
      <4>1. i > 1 => i - 1 \in 1..(p + q) /\ i - 1 <= p /\ i - 1 \in 1..p /\ ~(i - 1 <= p - 3)
        BY <1>1, <1>6, <3>2
      <4>2. i > 1 => ab[i - 1] # "F"
        BY <1>1, <1>4, <4>1
      <4> QED BY <3>2, <4>2
    <3> QED BY <3>1, <3>2
  <2>3. i > 2 /\ ab[i - 2] = "F" <=> i - p > 2 /\ b[i - p - 2] = "F"
    <3>1. CASE i - p > 2
      <4>1. i - 2 \in 1..(p + q) /\ ~(i - 2 <= p) /\ (i - 2) - p = i - p - 2
        BY <1>1, <1>6, <3>1
      <4>2. ab[i - 2] = b[i - p - 2]
        BY <1>1, <4>1
      <4> QED BY <1>1, <1>6, <3>1, <4>2
    <3>2. CASE ~(i - p > 2)
      <4>1. i > 2 => i - 2 \in 1..(p + q) /\ i - 2 <= p /\ i - 2 \in 1..p /\ ~(i - 2 <= p - 3)
        BY <1>1, <1>6, <3>2
      <4>2. i > 2 => ab[i - 2] # "F"
        BY <1>1, <1>4, <4>1
      <4> QED BY <3>2, <4>2
    <3> QED BY <3>1, <3>2
  <2>4. ContinuedByte(ab, i) = ContinuedByte(b, i - p)
    BY <2>2, <2>3 DEF ContinuedByte
  <2> QED BY <2>1, <2>4 DEF ConvertedByte
<1>7. \A i \in 1..(p + q) : Blocks(ab)[i] = (Blocks(a) \o Blocks(b))[i]
  <2> TAKE i \in 1..(p + q)
  <2>1. CASE i <= p
    <3>1. i \in 1..p
      BY <1>1, <2>1
    <3> QED BY <1>2, <1>3, <1>5, <2>1, <3>1
  <2>2. CASE i > p
    <3>1. i - p \in 1..q /\ ~(i <= p)
      BY <1>1, <2>2
    <3>2. Blocks(b)[i - p] = ConvertedByte(ab, i)
      BY <1>2, <1>6, <2>2, <3>1
    <3> QED BY <1>2, <1>3, <3>1, <3>2
  <2>3. i <= p \/ i > p
    BY <1>1
  <2> QED BY <2>1, <2>2, <2>3
<1>8. Blocks(ab) = Blocks(a) \o Blocks(b)
  BY <1>2, <1>3, <1>7, SeqEqual
<1>9. ToCesu8(ab) = ToCesu8(a) \o ToCesu8(b)
  <2>1. Blocks(a) \in Seq(Seq(CesuByte)) /\ Blocks(b) \in Seq(Seq(CesuByte))
    BY <1>2
  <2>2. S!FlattenSeq(Blocks(a) \o Blocks(b)) = S!FlattenSeq(Blocks(a)) \o S!FlattenSeq(Blocks(b))
    BY <2>1, FlatConcat
  <2> QED BY <1>2, <1>8, <2>2
<1> QED
  BY <1>9 DEF ab

\* Tuples with one element more.
LEMMA AfterOne ==
  ASSUME NEW T, NEW a \in T, NEW b \in T
  PROVE  Append(<<a>>, b) = <<a, b>>
<1>1. <<a>> \in Seq(T) /\ Len(<<a>>) = 1 /\ <<a, b>> \in Seq(T) /\ Len(<<a, b>>) = 2
  OBVIOUS
<1>2. /\ Append(<<a>>, b) \in Seq(T) /\ Len(Append(<<a>>, b)) = 2
      /\ \A i \in 1..1 : Append(<<a>>, b)[i] = <<a>>[i]
      /\ Append(<<a>>, b)[2] = b
  BY <1>1, AppendProperties
<1>3. \A i \in 1..2 : i = 1 \/ i = 2
  OBVIOUS
<1>4. \A i \in 1..2 : Append(<<a>>, b)[i] = <<a, b>>[i]
  BY <1>2, <1>3
<1> QED BY <1>1, <1>2, <1>4, SeqEqual

LEMMA AfterTwo ==
  ASSUME NEW T, NEW a \in T, NEW b \in T, NEW c \in T
  PROVE  Append(<<a, b>>, c) = <<a, b, c>>
<1>1. <<a, b>> \in Seq(T) /\ Len(<<a, b>>) = 2 /\ <<a, b, c>> \in Seq(T) /\ Len(<<a, b, c>>) = 3
  OBVIOUS
<1>2. /\ Append(<<a, b>>, c) \in Seq(T) /\ Len(Append(<<a, b>>, c)) = 3
      /\ \A i \in 1..2 : Append(<<a, b>>, c)[i] = <<a, b>>[i]
      /\ Append(<<a, b>>, c)[3] = c
  BY <1>1, AppendProperties
<1>3. \A i \in 1..3 : i = 1 \/ i = 2 \/ i = 3
  OBVIOUS
<1>4. \A i \in 1..3 : Append(<<a, b>>, c)[i] = <<a, b, c>>[i]
  BY <1>2, <1>3
<1> QED BY <1>1, <1>2, <1>4, SeqEqual

LEMMA AfterThree ==
  ASSUME NEW T, NEW a \in T, NEW b \in T, NEW c \in T, NEW d \in T
  PROVE  Append(<<a, b, c>>, d) = <<a, b, c, d>>
<1>1. <<a, b, c>> \in Seq(T) /\ Len(<<a, b, c>>) = 3 /\ <<a, b, c, d>> \in Seq(T) /\ Len(<<a, b, c, d>>) = 4
  OBVIOUS
<1>2. /\ Append(<<a, b, c>>, d) \in Seq(T) /\ Len(Append(<<a, b, c>>, d)) = 4
      /\ \A i \in 1..3 : Append(<<a, b, c>>, d)[i] = <<a, b, c>>[i]
      /\ Append(<<a, b, c>>, d)[4] = d
  BY <1>1, AppendProperties
<1>3. \A i \in 1..4 : i = 1 \/ i = 2 \/ i = 3 \/ i = 4
  OBVIOUS
<1>4. \A i \in 1..4 : Append(<<a, b, c>>, d)[i] = <<a, b, c, d>>[i]
  BY <1>2, <1>3
<1> QED BY <1>1, <1>2, <1>4, SeqEqual

LEMMA AfterFour ==
  ASSUME NEW T, NEW a \in T, NEW b \in T, NEW c \in T, NEW d \in T, NEW e \in T
  PROVE  Append(<<a, b, c, d>>, e) = <<a, b, c, d, e>>
<1>1. <<a, b, c, d>> \in Seq(T) /\ Len(<<a, b, c, d>>) = 4 /\ <<a, b, c, d, e>> \in Seq(T) /\ Len(<<a, b, c, d, e>>) = 5
  OBVIOUS
<1>2. /\ Append(<<a, b, c, d>>, e) \in Seq(T) /\ Len(Append(<<a, b, c, d>>, e)) = 5
      /\ \A i \in 1..4 : Append(<<a, b, c, d>>, e)[i] = <<a, b, c, d>>[i]
      /\ Append(<<a, b, c, d>>, e)[5] = e
  BY <1>1, AppendProperties
<1>3. \A i \in 1..5 : i = 1 \/ i = 2 \/ i = 3 \/ i = 4 \/ i = 5
  OBVIOUS
<1>4. \A i \in 1..5 : Append(<<a, b, c, d>>, e)[i] = <<a, b, c, d, e>>[i]
  BY <1>2, <1>3
<1> QED BY <1>1, <1>2, <1>4, SeqEqual

LEMMA AfterFive ==
  ASSUME NEW T, NEW a \in T, NEW b \in T, NEW c \in T, NEW d \in T, NEW e \in T, NEW f \in T
  PROVE  Append(<<a, b, c, d, e>>, f) = <<a, b, c, d, e, f>>
<1>1. <<a, b, c, d, e>> \in Seq(T) /\ Len(<<a, b, c, d, e>>) = 5 /\ <<a, b, c, d, e, f>> \in Seq(T) /\ Len(<<a, b, c, d, e, f>>) = 6
  OBVIOUS
<1>2. /\ Append(<<a, b, c, d, e>>, f) \in Seq(T) /\ Len(Append(<<a, b, c, d, e>>, f)) = 6
      /\ \A i \in 1..5 : Append(<<a, b, c, d, e>>, f)[i] = <<a, b, c, d, e>>[i]
      /\ Append(<<a, b, c, d, e>>, f)[6] = f
  BY <1>1, AppendProperties
<1>3. \A i \in 1..6 : i = 1 \/ i = 2 \/ i = 3 \/ i = 4 \/ i = 5 \/ i = 6
  OBVIOUS
<1>4. \A i \in 1..6 : Append(<<a, b, c, d, e>>, f)[i] = <<a, b, c, d, e, f>>[i]
  BY <1>2, <1>3
<1> QED BY <1>1, <1>2, <1>4, SeqEqual

\* One sequence more, of a single element.
LEMMA FlatElement ==
  ASSUME NEW T, NEW s \in Seq(Seq(T)), NEW e \in T
  PROVE  S!FlattenSeq(Append(s, <<e>>)) = Append(S!FlattenSeq(s), e)
<1>1. <<e>> \in Seq(T) /\ S!FlattenSeq(s) \in Seq(T)
  BY FlatType
<1>2. S!FlattenSeq(Append(s, <<e>>)) = S!FlattenSeq(s) \o <<e>>
  BY <1>1, FlatAppended
<1> QED BY <1>1, <1>2, AppendIsConcat

\* A first sequence and a single element.
LEMMA FlatTwo ==
  ASSUME NEW T, NEW p \in Seq(T), NEW q \in T
  PROVE  S!FlattenSeq(<<p, <<q>>>>) = Append(p, q)
<1> DEFINE W == Seq(T)
<1>1. <<p>> \in Seq(W) /\ <<q>> \in W /\ p \in W
  OBVIOUS
<1> HIDE DEF W
<1>2. Append(<<p>>, <<q>>) = <<p, <<q>>>>
  BY <1>1, AfterOne
<1>3. S!FlattenSeq(<<p>>) = p
  BY FlatOne
<1> QED BY <1>1, <1>2, <1>3, FlatElement DEF W

\* The characters of CESU-8 to which those of UTF-8 are converted.
LEMMA CharactersConverted ==
  /\ ToCesu8(<<"A">>) = <<"A">>
  /\ ToCesu8(<<"L", "c">>) = <<"L", "l">>
  /\ ToCesu8(<<"E", "c", "c">>) = <<"E", "l", "l">>
  /\ ToCesu8(<<"F", "c", "c", "c">>) = <<"D", "f", "l", "D", "s", "l">>
<1>1. /\ "L" \in CesuByte /\ "E" \in CesuByte /\ "D" \in CesuByte
      /\ "f" \in CesuByte /\ "s" \in CesuByte /\ "l" \in CesuByte
      /\ <<"A">> \in Seq(CesuByte) /\ <<"L">> \in Seq(CesuByte) /\ <<"E">> \in Seq(CesuByte)
      /\ <<"D", "f", "l">> \in Seq(CesuByte)
  BY DEF CesuByte, CESU!Byte, CESU!Continuation
<1>2. Blocks(<<"A">>) = << <<"A">> >>
  BY DEF Blocks, ConvertedByte
<1>3. Blocks(<<"L", "c">>) = << <<"L">>, <<"l">> >>
  BY DEF Blocks, ConvertedByte, ContinuedByte
<1>4. Blocks(<<"E", "c", "c">>) = << <<"E">>, <<"l">>, <<"l">> >>
  BY DEF Blocks, ConvertedByte, ContinuedByte
<1>5. Blocks(<<"F", "c", "c", "c">>) = << <<"D", "f", "l">>, <<"D">>, <<"s">>, <<"l">> >>
  BY DEF Blocks, ConvertedByte, ContinuedByte
<1>6. \A b : ToCesu8(b) = S!FlattenSeq(Blocks(b))
  BY DEF ToCesu8, Blocks
<1>7. ToCesu8(<<"A">>) = <<"A">>
  BY <1>1, <1>2, <1>6, FlatOne
<1>8. ToCesu8(<<"L", "c">>) = <<"L", "l">>
  <2>1. ToCesu8(<<"L", "c">>) = Append(<<"L">>, "l")
    <3>1. S!FlattenSeq(<< <<"L">>, <<"l">> >>) = Append(<<"L">>, "l")
      BY <1>1, FlatTwo
    <3> QED BY <1>3, <1>6, <3>1
  <2> QED BY <1>1, <2>1, AfterOne
<1>9. ToCesu8(<<"E", "c", "c">>) = <<"E", "l", "l">>
  <2>1. ToCesu8(<<"E", "c", "c">>) = Append(Append(<<"E">>, "l"), "l")
    <3> DEFINE s == << <<"E">>, <<"l">> >>
               W == Seq(CesuByte)
               p == <<"E">>
               q == <<"l">>
    <3>1. S!FlattenSeq(s) = Append(<<"E">>, "l")
      BY <1>1, FlatTwo
    <3>2. p \in W /\ q \in W /\ s = <<p, q>>
      BY <1>1
    <3>3. Blocks(<<"E", "c", "c">>) = <<p, q, q>>
      BY <1>4
    <3> HIDE DEF s, p, W
    <3>4. Append(s, q) = Blocks(<<"E", "c", "c">>) /\ s \in Seq(W)
      <4> HIDE DEF q
      <4> QED BY <3>2, <3>3, AfterTwo
    <3> QED BY <1>1, <1>6, <3>1, <3>4, FlatElement DEF W
  <2>2. Append(<<"E">>, "l") = <<"E", "l">> /\ Append(<<"E", "l">>, "l") = <<"E", "l", "l">>
    BY <1>1, AfterOne, AfterTwo
  <2> QED BY <2>1, <2>2
<1>10. ToCesu8(<<"F", "c", "c", "c">>) = <<"D", "f", "l", "D", "s", "l">>
  <2>1. ToCesu8(<<"F", "c", "c", "c">>) = Append(Append(Append(<<"D", "f", "l">>, "D"), "s"), "l")
    <3> DEFINE p == <<"D", "f", "l">>
               q == <<"D">>
               r == <<"s">>
               t == <<"l">>
               W == Seq(CesuByte)
               s == <<p, q>>
               u == <<p, q, r>>
    <3>1. S!FlattenSeq(s) = Append(<<"D", "f", "l">>, "D")
      BY <1>1, FlatTwo
    <3>2. p \in W /\ q \in W /\ r \in W /\ t \in W /\ s = <<p, q>> /\ u = <<p, q, r>>
      BY <1>1
    <3>3. Blocks(<<"F", "c", "c", "c">>) = <<p, q, r, t>>
      BY <1>5
    <3> HIDE DEF s, p, q, u, W
    <3>4. Append(s, r) = u /\ s \in Seq(W)
      <4> HIDE DEF r
      <4> QED BY <3>2, AfterTwo
    <3>5. Append(u, t) = Blocks(<<"F", "c", "c", "c">>) /\ u \in Seq(W)
      <4> HIDE DEF r, t
      <4> QED BY <3>2, <3>3, AfterThree
    <3>6. S!FlattenSeq(u) = Append(Append(<<"D", "f", "l">>, "D"), "s")
      BY <1>1, <3>1, <3>4, FlatElement DEF W
    <3> QED BY <1>1, <1>6, <3>5, <3>6, FlatElement DEF W
  <2>2. /\ Append(<<"D", "f", "l">>, "D") = <<"D", "f", "l", "D">>
        /\ Append(<<"D", "f", "l", "D">>, "s") = <<"D", "f", "l", "D", "s">>
        /\ Append(<<"D", "f", "l", "D", "s">>, "l") = <<"D", "f", "l", "D", "s", "l">>
    BY <1>1, AfterThree, AfterFour, AfterFive, SMTT(60)
  <2> QED BY <2>1, <2>2
<1> QED BY <1>7, <1>8, <1>9, <1>10

CesuText(x) == x \in Seq(CESU!Byte) /\ CESU!IsText(x)

\* What CESU!IsText says of the start of a sequence.
CesuSequenceIn(b, i) ==
  LET next == i + CESU!SequenceLength(b[i]) IN
  /\ next <= Len(b) + 1
  /\ \A j \in (i + 1)..(next - 1) : b[j] \in CESU!Continuation
  /\ next \in DOMAIN b => CESU!StartsSequence(b[next])
  /\ CESU!FirstHalfAt(b, i) => next \in DOMAIN b /\ CESU!SecondHalfAt(b, next)
  /\ CESU!SecondHalfAt(b, i) => i > 3 /\ CESU!FirstHalfAt(b, i - 3)

LEMMA CesuTextIs ==
  \A b : CESU!IsText(b) <=>
    /\ b # <<>> => CESU!StartsSequence(b[1])
    /\ \A i \in DOMAIN b : CESU!StartsSequence(b[i]) => CesuSequenceIn(b, i)
BY Zenon DEF CESU!IsText, CesuSequenceIn

\* They are text.
LEMMA CharactersAreText ==
  /\ CesuText(<<"A">>) /\ CesuText(<<"L", "l">>) /\ CesuText(<<"E", "l", "l">>)
  /\ CesuText(<<"D", "f", "l", "D", "s", "l">>)
<1>1. /\ <<"A">> \in Seq(CESU!Byte) /\ <<"L", "l">> \in Seq(CESU!Byte)
      /\ <<"E", "l", "l">> \in Seq(CESU!Byte)
      /\ <<"D", "f", "l", "D", "s", "l">> \in Seq(CESU!Byte)
  BY DEF CESU!Byte, CESU!Continuation
<1>2. CESU!IsText(<<"A">>)
  BY DEF CESU!IsText, CESU!StartsSequence, CESU!Continuation, CESU!SequenceLength,
         CESU!FirstHalfAt, CESU!SecondHalfAt
<1>3. CESU!IsText(<<"L", "l">>)
  BY DEF CESU!IsText, CESU!StartsSequence, CESU!Continuation, CESU!SequenceLength,
         CESU!FirstHalfAt, CESU!SecondHalfAt
<1>4. CESU!IsText(<<"E", "l", "l">>)
  BY DEF CESU!IsText, CESU!StartsSequence, CESU!Continuation, CESU!SequenceLength,
         CESU!FirstHalfAt, CESU!SecondHalfAt
<1>5. CESU!IsText(<<"D", "f", "l", "D", "s", "l">>)
  BY DEF CESU!IsText, CESU!StartsSequence, CESU!Continuation, CESU!SequenceLength,
         CESU!FirstHalfAt, CESU!SecondHalfAt
<1> QED BY <1>1, <1>2, <1>3, <1>4, <1>5 DEF CesuText

\* Two texts make a text.
LEMMA CesuTextJoined ==
  ASSUME NEW x, CesuText(x), NEW y, CesuText(y)
  PROVE  CesuText(x \o y)
<1> DEFINE b == x \o y
           p == Len(x)
           q == Len(y)
<1>1. /\ b \in Seq(CESU!Byte) /\ Len(b) = p + q /\ p \in Nat /\ q \in Nat
      /\ DOMAIN b = 1..(p + q) /\ DOMAIN x = 1..p /\ DOMAIN y = 1..q
      /\ \A i \in 1..p + q : b[i] = IF i <= p THEN x[i] ELSE y[i - p]
  BY ConcatProperties, LenProperties DEF CesuText
<1>2. /\ p # 0 => CESU!StartsSequence(x[1])
      /\ q # 0 => CESU!StartsSequence(y[1])
  BY EmptySeq, CesuTextIs DEF CesuText
<1>3. /\ \A i \in 1..p : b[i] = x[i]
      /\ \A i \in 1..q : b[p + i] = y[i]
  <2>1. ASSUME NEW i \in 1..q PROVE b[p + i] = y[i]
    <3>1. p + i \in 1..p + q /\ ~(p + i <= p) /\ (p + i) - p = i
      BY <1>1
    <3> QED BY <1>1, <3>1
  <2> QED BY <1>1, <2>1
<1>4. b # <<>> <=> p # 0 \/ q # 0
  BY <1>1, EmptySeq
<1>5. /\ Len(x) = p /\ Len(y) = q
      /\ \A i \in 1..p : CESU!StartsSequence(x[i]) => CesuSequenceIn(x, i)
      /\ \A i \in 1..q : CESU!StartsSequence(y[i]) => CesuSequenceIn(y, i)
  BY <1>1, CesuTextIs DEF CesuText
<1>6. \A e : CESU!SequenceLength(e) \in 1..3 /\ (e = "D" => CESU!SequenceLength(e) = 3)
  BY DEF CESU!SequenceLength
<1>7. \A e : e = "D" => CESU!StartsSequence(e)
  BY DEF CESU!StartsSequence, CESU!Continuation
<1> HIDE DEF b, p, q
<1>8. p + 1 \in 1..(p + q) => CESU!StartsSequence(b[p + 1])
  <2>1. p + 1 \in 1..(p + q) => q # 0 /\ 1 \in 1..q
    BY <1>1
  <2> QED BY <1>2, <1>3, <2>1
<1>9. b # <<>> => CESU!StartsSequence(b[1])
  <2>1. CASE p # 0
    <3>1. 1 \in 1..p
      BY <1>1, <2>1
    <3> QED BY <1>2, <1>3, <2>1, <3>1
  <2>2. CASE p = 0 /\ q # 0
    <3>1. 1 \in 1..q /\ p + 1 = 1
      BY <1>1, <2>2
    <3> QED BY <1>2, <1>3, <2>2, <3>1
  <2> QED BY <1>4, <2>1, <2>2
\* halves of a pair
<1>10. ASSUME NEW i \in 1..p
       PROVE  /\ CESU!FirstHalfAt(b, i) <=> CESU!FirstHalfAt(x, i)
              /\ CESU!SecondHalfAt(b, i) <=> CESU!SecondHalfAt(x, i)
  <2>1. b[i] = x[i] /\ i < Len(b) <=> b[i] = x[i] /\ (i < p \/ (i = p /\ q # 0))
    BY <1>1
  <2>2. i < p => b[i + 1] = x[i + 1]
    <3>1. i < p => i + 1 \in 1..p
      BY <1>1
    <3> QED BY <1>3, <3>1
  <2>3. i = p => x[i] # "D"
    <3> SUFFICES ASSUME i = p, x[i] = "D" PROVE FALSE
      OBVIOUS
    <3>1. CesuSequenceIn(x, i) /\ CESU!SequenceLength(x[i]) = 3
      BY <1>5, <1>6, <1>7
    <3>2. i + 3 <= p + 1
      BY <1>5, <3>1 DEF CesuSequenceIn
    <3> QED BY <1>1, <3>2
  <2> QED BY <1>1, <1>3, <1>5, <2>1, <2>2, <2>3 DEF CESU!FirstHalfAt, CESU!SecondHalfAt
<1>11. ASSUME NEW i \in 1..q
       PROVE  /\ CESU!FirstHalfAt(b, p + i) <=> CESU!FirstHalfAt(y, i)
              /\ CESU!SecondHalfAt(b, p + i) <=> CESU!SecondHalfAt(y, i)
  <2>1. b[p + i] = y[i] /\ (p + i < Len(b) <=> i < q)
    BY <1>1, <1>3
  <2>2. i < q => b[(p + i) + 1] = y[i + 1]
    <3>1. i < q => i + 1 \in 1..q /\ p + (i + 1) = (p + i) + 1
      BY <1>1
    <3> QED BY <1>3, <3>1
  <2> QED BY <1>5, <2>1, <2>2 DEF CESU!FirstHalfAt, CESU!SecondHalfAt
<1>12. ASSUME NEW i \in 1..(p + q), CESU!StartsSequence(b[i])
       PROVE  CesuSequenceIn(b, i)
  <2>1. CASE i <= p
    <3>1. b[i] = x[i] /\ i \in 1..p
      BY <1>1, <1>3, <2>1
    <3> DEFINE n == CESU!SequenceLength(x[i])
    <3>2. CesuSequenceIn(x, i) /\ n \in 1..3
      BY <1>5, <1>6, <1>12, <3>1
    <3>3. /\ i + n <= p + 1
          /\ \A j \in (i + 1)..(i + n - 1) : x[j] \in CESU!Continuation
          /\ i + n \in 1..p => CESU!StartsSequence(x[i + n])
          /\ CESU!FirstHalfAt(x, i) => i + n \in 1..p /\ CESU!SecondHalfAt(x, i + n)
          /\ CESU!SecondHalfAt(x, i) => i > 3 /\ CESU!FirstHalfAt(x, i - 3)
      BY <1>1, <1>5, <3>2 DEF CesuSequenceIn
    <3>4. CESU!SequenceLength(b[i]) = n
      BY <3>1
    <3> HIDE DEF n
    <3>5. ASSUME NEW j \in (i + 1)..(i + n - 1) PROVE b[j] \in CESU!Continuation
      <4>1. j \in 1..p
        BY <1>1, <3>2, <3>3
      <4> QED BY <1>3, <3>3, <4>1
    <3>6. i + n \in 1..(p + q) => CESU!StartsSequence(b[i + n])
      <4>1. i + n \in 1..p \/ i + n = p + 1
        BY <1>1, <3>2, <3>3
      <4> QED BY <1>1, <1>3, <1>8, <3>3, <4>1
    <3>7. CESU!FirstHalfAt(b, i) => i + n \in 1..(p + q) /\ CESU!SecondHalfAt(b, i + n)
      BY <1>1, <1>10, <3>1, <3>3
    <3>8. CESU!SecondHalfAt(b, i) => i > 3 /\ CESU!FirstHalfAt(b, i - 3)
      <4>1. i > 3 => i - 3 \in 1..p
        BY <1>1, <3>1
      <4> QED BY <1>10, <3>1, <3>3, <4>1
    <3> QED BY <1>1, <3>2, <3>3, <3>4, <3>5, <3>6, <3>7, <3>8 DEF CesuSequenceIn
  <2>2. CASE i > p
    <3> DEFINE k == i - p
    <3>1. k \in 1..q /\ i = p + k /\ b[i] = y[k]
      <4>1. k \in 1..q /\ i = p + k
        BY <1>1, <2>2
      <4> QED BY <1>3, <4>1
    <3> DEFINE n == CESU!SequenceLength(y[k])
    <3>2. CesuSequenceIn(y, k) /\ n \in 1..3
      BY <1>5, <1>6, <1>12, <3>1
    <3>10. n = CESU!SequenceLength(y[k])
      OBVIOUS
    <3> HIDE DEF k, n
    <3>3. /\ k + n <= q + 1
          /\ \A j \in (k + 1)..(k + n - 1) : y[j] \in CESU!Continuation
          /\ k + n \in 1..q => CESU!StartsSequence(y[k + n])
          /\ CESU!FirstHalfAt(y, k) => k + n \in 1..q /\ CESU!SecondHalfAt(y, k + n)
          /\ CESU!SecondHalfAt(y, k) => k > 3 /\ CESU!FirstHalfAt(y, k - 3)
      BY <1>1, <1>5, <3>1, <3>2, <3>10 DEF CesuSequenceIn
    <3>4. CESU!SequenceLength(b[i]) = n
      BY <3>1, <3>10
    <3>5. ASSUME NEW j \in (i + 1)..(i + n - 1) PROVE b[j] \in CESU!Continuation
      <4>0. k + n <= q + 1 /\ k \in 1..q /\ i = p + k /\ n \in 1..3
        BY <3>1, <3>2, <3>3
      <4>1. j - p \in 1..q /\ j - p \in (k + 1)..(k + n - 1) /\ p + (j - p) = j
        BY <1>1, <4>0
      <4> QED BY <1>3, <3>3, <4>1
    <3>6. i + n \in 1..(p + q) => CESU!StartsSequence(b[i + n])
      <4>1. i + n \in 1..(p + q) => k + n \in 1..q /\ p + (k + n) = i + n
        BY <1>1, <3>1, <3>2, SMTT(30)
      <4> QED BY <1>3, <3>3, <4>1
    <3>7. CESU!FirstHalfAt(b, i) => i + n \in 1..(p + q) /\ CESU!SecondHalfAt(b, i + n)
      <4> SUFFICES ASSUME CESU!FirstHalfAt(b, i)
                   PROVE  i + n \in 1..(p + q) /\ CESU!SecondHalfAt(b, i + n)
        OBVIOUS
      <4>1. k + n \in 1..q /\ CESU!SecondHalfAt(y, k + n)
        BY <1>11, <3>1, <3>3
      <4>2. p + (k + n) = i + n /\ i + n \in 1..(p + q)
        BY <1>1, <3>1, <3>2, <4>1, SMTT(30)
      <4>3. CESU!SecondHalfAt(b, p + (k + n))
        BY <1>11, <4>1
      <4> QED BY <4>2, <4>3
    <3>8. CESU!SecondHalfAt(b, i) => i > 3 /\ CESU!FirstHalfAt(b, i - 3)
      <4> SUFFICES ASSUME CESU!SecondHalfAt(b, i) PROVE i > 3 /\ CESU!FirstHalfAt(b, i - 3)
        OBVIOUS
      <4>1. k > 3 /\ CESU!FirstHalfAt(y, k - 3)
        BY <1>11, <3>1, <3>3
      <4>2. k - 3 \in 1..q /\ p + (k - 3) = i - 3 /\ i > 3
        BY <1>1, <3>1, <4>1
      <4>3. CESU!FirstHalfAt(b, p + (k - 3))
        BY <1>11, <4>1, <4>2
      <4> QED BY <4>2, <4>3
    <3>9. i + n <= Len(b) + 1
      BY <1>1, <3>1, <3>2, <3>3
    <3> QED BY <1>1, <3>2, <3>4, <3>5, <3>6, <3>7, <3>8, <3>9 DEF CesuSequenceIn
  <2> QED BY <1>1, <2>1, <2>2
<1>13. CESU!IsText(b)
  BY <1>1, <1>9, <1>12, CesuTextIs
<1> QED
  BY <1>1, <1>13 DEF CesuText, b

\* Sequences of one to four elements are tuples.
LEMMA OfOne ==
  ASSUME NEW T, NEW x \in Seq(T), Len(x) = 1, NEW a \in T, x[1] = a
  PROVE  x = <<a>>
<1>1. <<a>> \in Seq(T) /\ Len(<<a>>) = 1 /\ <<a>>[1] = a
  OBVIOUS
<1>2. \A i \in 1..1 : x[i] = <<a>>[i]
  BY <1>1
<1> QED BY <1>1, <1>2, SeqEqual

LEMMA OfTwo ==
  ASSUME NEW T, NEW x \in Seq(T), Len(x) = 2, NEW a \in T, NEW b \in T, x[1] = a, x[2] = b
  PROVE  x = <<a, b>>
<1>1. <<a, b>> \in Seq(T) /\ Len(<<a, b>>) = 2
  OBVIOUS
<1>2. \A i \in 1..2 : i = 1 \/ i = 2
  OBVIOUS
<1>3. \A i \in 1..2 : x[i] = <<a, b>>[i]
  BY <1>2
<1> QED BY <1>1, <1>3, SeqEqual

LEMMA OfThree ==
  ASSUME NEW T, NEW x \in Seq(T), Len(x) = 3, NEW a \in T, NEW b \in T, NEW c \in T,
         x[1] = a, x[2] = b, x[3] = c
  PROVE  x = <<a, b, c>>
<1>1. <<a, b, c>> \in Seq(T) /\ Len(<<a, b, c>>) = 3
  OBVIOUS
<1>2. \A i \in 1..3 : i = 1 \/ i = 2 \/ i = 3
  OBVIOUS
<1>3. \A i \in 1..3 : x[i] = <<a, b, c>>[i]
  BY <1>2
<1> QED BY <1>1, <1>3, SeqEqual

LEMMA OfFour ==
  ASSUME NEW T, NEW x \in Seq(T), Len(x) = 4, NEW a \in T, NEW b \in T, NEW c \in T, NEW d \in T,
         x[1] = a, x[2] = b, x[3] = c, x[4] = d
  PROVE  x = <<a, b, c, d>>
<1>1. <<a, b, c, d>> \in Seq(T) /\ Len(<<a, b, c, d>>) = 4
  OBVIOUS
<1>2. \A i \in 1..4 : i = 1 \/ i = 2 \/ i = 3 \/ i = 4
  OBVIOUS
<1>3. \A i \in 1..4 : x[i] = <<a, b, c, d>>[i]
  BY <1>2
<1> QED BY <1>1, <1>3, SeqEqual

\* The beginning of a sequence.
LEMMA PrefixIs ==
  ASSUME NEW T, NEW b \in Seq(T), NEW p \in 0..Len(b)
  PROVE  /\ SubSeq(b, 1, p) \in Seq(T) /\ Len(SubSeq(b, 1, p)) = p
         /\ \A i \in 1..p : SubSeq(b, 1, p)[i] = b[i]
<1>1. Len(b) \in Nat /\ \A i \in 1..p : b[i] \in T
  BY LenProperties, ElementOfSeq
<1>2. /\ SubSeq(b, 1, p) \in Seq(T) /\ Len(SubSeq(b, 1, p)) = (IF 1 <= p THEN p - 1 + 1 ELSE 0)
      /\ \A i \in 1..p - 1 + 1 : SubSeq(b, 1, p)[i] = b[1 + i - 1]
  BY <1>1, SubSeqProperties
<1>3. p - 1 + 1 = p /\ (~(1 <= p) => p = 0) /\ \A i \in 1..p : 1 + i - 1 = i
  BY <1>1
<1> QED BY <1>2, <1>3

\* A character of text.
Character(x) ==
  \/ x = <<"A">> \/ x = <<"L", "c">> \/ x = <<"E", "c", "c">> \/ x = <<"F", "c", "c", "c">>

\* Text begins with a character.
LEMMA FirstCharacter ==
  ASSUME NEW b, Text(b), b # <<>>
  PROVE  \E n \in 1..Len(b) : EndsAt(b, n) /\ Character(SubSeq(b, 1, n))
<1> DEFINE n == CharStart(b[1])
           x == SubSeq(b, 1, n)
<1>1. b \in Seq(Utf8Byte) /\ Len(b) \in Nat /\ Len(b) # 0 /\ b[1] # "c" /\ 1 \in 1..Len(b)
  BY EmptySeq, LenProperties DEF Text, Bytes, IsUtf8
<1>2. /\ n \in 1..4 /\ 1 + n <= Len(b) + 1
      /\ \A j \in (1 + 1)..(1 + n - 1) : b[j] = "c"
      /\ 1 + n <= Len(b) => b[1 + n] # "c"
      /\ b[1] \in {"A", "L", "E", "F"}
  BY <1>1, CharacterAt
<1>3. n = IF b[1] = "A" THEN 1 ELSE IF b[1] = "L" THEN 2 ELSE IF b[1] = "E" THEN 3 ELSE 4
  BY <1>2 DEF CharStart
<1> HIDE DEF n
<1>4. n \in 1..Len(b) /\ n \in 0..Len(b)
  BY <1>1, <1>2
<1>5. EndsAt(b, n)
  <2>1. 1 + n = n + 1 /\ (n < Len(b) => 1 + n <= Len(b))
    BY <1>1, <1>2
  <2> QED BY <1>2, <1>4, <2>1 DEF EndsAt
<1>6. x \in Seq(Utf8Byte) /\ Len(x) = n /\ \A i \in 1..n : x[i] = b[i]
  BY <1>1, <1>4, PrefixIs
<1>7. {"A", "L", "E", "F", "c"} \subseteq Utf8Byte
  BY DEF Utf8Byte
<1> HIDE DEF x
<1>8. CASE b[1] = "A"
  <2>1. n = 1 /\ 1 \in 1..n
    BY <1>3, <1>8
  <2>2. x = <<"A">>
    BY <1>6, <1>7, <1>8, <2>1, OfOne
  <2> QED BY <1>4, <1>5, <2>2 DEF Character, x
<1>9. CASE b[1] = "L"
  <2>1. n = 2
    BY <1>3, <1>9
  <2>2. 1 \in 1..n /\ 2 \in 1..n /\ 2 \in (1 + 1)..(1 + n - 1)
    BY <2>1
  <2>3. x[1] = "L" /\ x[2] = "c"
    BY <1>2, <1>6, <1>9, <2>2
  <2>4. x = <<"L", "c">>
    BY <1>6, <1>7, <2>1, <2>3, OfTwo
  <2> QED BY <1>4, <1>5, <2>4 DEF Character, x
<1>10. CASE b[1] = "E"
  <2>1. n = 3
    BY <1>3, <1>10
  <2>2. /\ 1 \in 1..n /\ 2 \in 1..n /\ 3 \in 1..n
        /\ 2 \in (1 + 1)..(1 + n - 1) /\ 3 \in (1 + 1)..(1 + n - 1)
    BY <2>1
  <2>3. x[1] = "E" /\ x[2] = "c" /\ x[3] = "c"
    BY <1>2, <1>6, <1>10, <2>2
  <2>4. x = <<"E", "c", "c">>
    BY <1>6, <1>7, <2>1, <2>3, OfThree
  <2> QED BY <1>4, <1>5, <2>4 DEF Character, x
<1>11. CASE b[1] = "F"
  <2>1. n = 4
    BY <1>3, <1>11
  <2>2. /\ 1 \in 1..n /\ 2 \in 1..n /\ 3 \in 1..n /\ 4 \in 1..n
        /\ 2 \in (1 + 1)..(1 + n - 1) /\ 3 \in (1 + 1)..(1 + n - 1) /\ 4 \in (1 + 1)..(1 + n - 1)
    BY <2>1
  <2>3. x[1] = "F" /\ x[2] = "c" /\ x[3] = "c" /\ x[4] = "c"
    BY <1>2, <1>6, <1>11, <2>2
  <2>4. x = <<"F", "c", "c", "c">>
    BY <1>6, <1>7, <2>1, <2>3, OfFour
  <2> QED BY <1>4, <1>5, <2>4 DEF Character, x
<1> QED BY <1>2, <1>8, <1>9, <1>10, <1>11

\* Nothing is converted to nothing.
LEMMA CesuEmpty == ToCesu8(<<>>) = <<>> /\ CesuText(<<>>)
<1>1. DOMAIN <<>> = {} /\ <<>> \in Seq(CESU!Byte) /\ <<>> \in Seq(Utf8Byte)
  BY EmptySeq, LenProperties
<1>2. Blocks(<<>>) \in Seq(Seq(CesuByte)) /\ Len(Blocks(<<>>)) = 0
      /\ ToCesu8(<<>>) = S!FlattenSeq(Blocks(<<>>))
  BY <1>1, BlocksAre, EmptySeq DEF Bytes
<1>3. Blocks(<<>>) = <<>>
  BY <1>2, EmptySeq
<1>4. CESU!IsText(<<>>)
  BY <1>1, CesuTextIs
<1> QED BY <1>1, <1>2, <1>3, <1>4, FlatEmpty DEF CesuText

\* UTF-8 becomes CESU-8.
LEMMA CesuIsText ==
  ASSUME NEW b, Text(b)
  PROVE  CesuText(ToCesu8(b))
<1> DEFINE N == {n \in Nat : \A t : Text(t) /\ Len(t) <= n => CesuText(ToCesu8(t))}
<1>1. 0 \in N
  <2> SUFFICES ASSUME NEW t, Text(t), Len(t) <= 0 PROVE CesuText(ToCesu8(t))
    OBVIOUS
  <2>1. t = <<>>
    BY EmptySeq, LenProperties DEF Text, Bytes
  <2> QED BY <2>1, CesuEmpty
<1>2. ASSUME NEW n \in Nat, n \in N PROVE n + 1 \in N
  <2> SUFFICES ASSUME NEW t, Text(t), Len(t) <= n + 1 PROVE CesuText(ToCesu8(t))
    OBVIOUS
  <2>1. CASE t = <<>>
    BY <2>1, CesuEmpty
  <2>2. CASE t # <<>>
    <3>1. PICK p \in 1..Len(t) : EndsAt(t, p) /\ Character(SubSeq(t, 1, p))
      BY <2>2, FirstCharacter
    <3> DEFINE x == SubSeq(t, 1, p)
               y == SubSeq(t, p + 1, Len(t))
    <3>2. Text(x) /\ Text(y) /\ t = x \o y
      BY <3>1, TextSplit
    <3>3. t \in Seq(Utf8Byte) /\ p \in 0..Len(t)
      BY <3>1, LenProperties DEF Text, Bytes
    <3>4. Len(x) = p
      BY <3>3, PrefixIs
    <3>5. Character(x)
      BY <3>1
    <3> HIDE DEF x, y
    <3>6. Len(t) = p + Len(y) /\ Len(y) \in Nat /\ Len(t) \in Nat
      BY <3>2, <3>4, ConcatProperties, LenProperties DEF Text, Bytes
    <3>7. Len(y) <= n
      BY <3>1, <3>6
    <3>8. CesuText(ToCesu8(y))
      BY <1>2, <3>2, <3>7
    <3> HIDE DEF N
    <3>9. CesuText(ToCesu8(x))
      <4>1. /\ x = <<"A">> \/ x = <<"L", "c">> \/ x = <<"E", "c", "c">>
               \/ x = <<"F", "c", "c", "c">>
        BY <3>5, Zenon DEF Character
      <4> QED BY <4>1, CharactersConverted, CharactersAreText, Zenon
    <3>10. ToCesu8(t) = ToCesu8(x) \o ToCesu8(y)
      <4>1. y \in Bytes
        BY <3>2 DEF Text
      <4> QED BY <3>2, <4>1, CesuJoined
    <3> QED BY <3>8, <3>9, <3>10, CesuTextJoined
  <2> QED BY <2>1, <2>2
<1> HIDE DEF N
<1>3. Nat \subseteq N
  BY <1>1, <1>2, AllNumbers
<1>4. Len(b) \in N /\ Len(b) \in Nat
  BY <1>3, LenProperties DEF Text, Bytes
<1>5. Len(b) <= Len(b)
  BY <1>4
<1> QED
  BY <1>4, <1>5 DEF N

-----------------------------------------------------------------------------
(* Where text is cut off.                                                  *)

\* A set of numbers up to n has a greatest one.
LEMMA GreatestOf ==
  ASSUME NEW n \in Nat, NEW T, T \subseteq 1..n, T # {}
  PROVE  \E x \in T : \A y \in T : y <= x
<1> DEFINE D == {n - y : y \in T}
<1>1. D \subseteq Nat /\ D # {}
  <2>1. \A y \in T : n - y \in Nat
    OBVIOUS
  <2>2. PICK y \in T : TRUE
    OBVIOUS
  <2>3. n - y \in D
    OBVIOUS
  <2> QED BY <2>1, <2>3
<1> HIDE DEF D
<1>2. PICK d \in D : \A e \in D : d <= e
  BY <1>1, LeastOf
<1>3. PICK x \in T : d = n - x
  BY <1>2 DEF D
<1>4. ASSUME NEW y \in T PROVE y <= x
  <2>1. n - y \in D
    BY DEF D
  <2>2. n - x <= n - y
    BY <1>2, <1>3, <2>1
  <2>3. x \in 1..n /\ y \in 1..n
    BY <1>3
  <2> QED BY <2>2, <2>3
<1> QED BY <1>3, <1>4

\* The starts of characters before the last byte.
StartsIn(b) == {i \in 1..(Len(b) - 1) : CharStart(b[i]) # 0}

\* get_utf8_tail_len, with the last of them.
LEMMA TailLenIs ==
  ASSUME NEW b \in Bytes
  PROVE  \/ (b = <<>> \/ b[Len(b)] = "A") /\ Utf8TailLen(b) = 0
         \/ b # <<>> /\ b[Len(b)] = "L" /\ Utf8TailLen(b) = 1
         \/ /\ b # <<>> /\ b[Len(b)] # "A" /\ b[Len(b)] # "L"
            /\ StartsIn(b) = {} /\ Utf8TailLen(b) = NoCutOff
         \/ /\ b # <<>> /\ b[Len(b)] # "A" /\ b[Len(b)] # "L"
            /\ \E i \in StartsIn(b) :
                 /\ \A j \in StartsIn(b) : j <= i
                 /\ Utf8TailLen(b) = TailOfStart(Len(b), i - 1, CharStart(b[i]))
<1> DEFINE starts == {i \in 1..(Len(b) - 1) : CharStart(b[i]) # 0}
           last == CHOOSE i \in starts : \A j \in starts : j <= i
           T == StartsIn(b)
<1>1. CASE b = <<>> \/ b[Len(b)] = "A"
  BY <1>1, Zenon DEF Utf8TailLen
<1>2. CASE b # <<>> /\ b[Len(b)] = "L"
  BY <1>2 DEF Utf8TailLen
<1>3. CASE b # <<>> /\ b[Len(b)] # "A" /\ b[Len(b)] # "L" /\ starts = {}
  BY <1>3 DEF Utf8TailLen, StartsIn
<1>4. CASE b # <<>> /\ b[Len(b)] # "A" /\ b[Len(b)] # "L" /\ starts # {}
  <2>1. Len(b) \in Nat /\ Len(b) # 0
    BY <1>4, EmptySeq DEF Bytes
  <2>2. starts \subseteq 1..Len(b)
    BY <2>1
  <2>3. Utf8TailLen(b) = TailOfStart(Len(b), last - 1, CharStart(b[last]))
    BY <1>4, Zenon DEF Utf8TailLen
  <2>4. starts = StartsIn(b)
    BY DEF StartsIn
  <2> HIDE DEF starts
  <2>5. \E i \in starts : \A j \in starts : j <= i
    BY <1>4, <2>1, <2>2, GreatestOf
  <2>6. last \in starts /\ \A j \in starts : j <= last
    BY <2>5, Zenon
  <2> HIDE DEF last
  <2>7. \E i \in StartsIn(b) :
          /\ \A j \in StartsIn(b) : j <= i
          /\ Utf8TailLen(b) = TailOfStart(Len(b), i - 1, CharStart(b[i]))
    BY <2>3, <2>4, <2>6, Zenon
  <2> QED BY <1>4, <2>7
<1> QED BY <1>1, <1>2, <1>3, <1>4

\* Unless there is no cutoff point, the tail is a part of the bytes.
LEMMA TailLenType ==
  ASSUME NEW b \in Bytes, Utf8TailLen(b) # NoCutOff
  PROVE  Utf8TailLen(b) \in 0..Len(b)
<1>1. Len(b) \in Nat /\ (b # <<>> => Len(b) # 0)
  BY EmptySeq, LenProperties DEF Bytes
<1>2. CASE Utf8TailLen(b) = 0
  BY <1>1, <1>2
<1>3. CASE b # <<>> /\ Utf8TailLen(b) = 1
  BY <1>1, <1>3
<1>4. CASE \E i \in StartsIn(b) : Utf8TailLen(b) = TailOfStart(Len(b), i - 1, CharStart(b[i]))
  <2>1. PICK i \in StartsIn(b) : Utf8TailLen(b) = TailOfStart(Len(b), i - 1, CharStart(b[i]))
    BY <1>4
  <2>2. i \in 1..(Len(b) - 1)
    BY <2>1 DEF StartsIn
  <2>3. CharStart(b[i]) \in 0..4
    BY DEF CharStart
  <2> QED BY <1>1, <2>1, <2>2, <2>3 DEF TailOfStart
<1> QED BY <1>2, <1>3, <1>4, TailLenIs

\* The beginning w of a text u is cut off at the end of a character; at most
\* three bytes are kept, none if it is the whole text.
LEMMA TailOfText ==
  ASSUME NEW u, Text(u), NEW w \in Bytes, Len(w) <= Len(u), \A i \in 1..Len(w) : w[i] = u[i],
         Len(w) # 1 \/ Len(w) = Len(u)
  PROVE  LET tail == Utf8TailLen(w)
         IN /\ tail # NoCutOff /\ tail \in 0..3 /\ tail <= Len(w)
            /\ EndsAt(u, Len(w) - tail)
            /\ Len(w) = Len(u) => tail = 0
<1> DEFINE n == Len(w)
           m == Len(u)
           tail == Utf8TailLen(w)
<1>1. /\ n \in Nat /\ m \in Nat /\ n <= m /\ (w = <<>> <=> n = 0)
      /\ \A i \in 1..n : i \in 1..m /\ w[i] = u[i]
  BY EmptySeq, LenProperties DEF Text, Bytes
<1>2. n # 0 => n \in 1..n /\ n \in 1..m
  BY <1>1
<1>3. \A i \in 1..m : u[i] # "c" =>
        /\ CharStart(u[i]) \in 1..4 /\ i + CharStart(u[i]) <= m + 1
        /\ \A j \in (i + 1)..(i + CharStart(u[i]) - 1) : u[j] = "c"
        /\ i + CharStart(u[i]) <= m => u[i + CharStart(u[i])] # "c"
  BY CharacterAt
<1>4. SUFFICES /\ tail # NoCutOff /\ tail \in 0..3 /\ tail <= n
               /\ (n - tail < m => u[n - tail + 1] # "c")
               /\ n = m => tail = 0
  <2>1. tail \in 0..3 /\ tail <= n => n - tail \in 0..m
    BY <1>1
  <2> QED BY <1>4, <2>1 DEF EndsAt
<1>5. \A i \in StartsIn(w) : i \in 1..(n - 1) /\ i \in 1..n /\ u[i] # "c"
  <2>1. ASSUME NEW i \in StartsIn(w) PROVE i \in 1..(n - 1) /\ i \in 1..n /\ u[i] # "c"
    <3>1. i \in 1..(n - 1) /\ CharStart(w[i]) # 0
      BY DEF StartsIn
    <3>2. i \in 1..n
      BY <1>1, <3>1
    <3>3. CharStart("c") = 0
      BY DEF CharStart
    <3>4. w[i] = u[i]
      BY <1>1, <3>2
    <3> QED BY <3>1, <3>2, <3>3, <3>4
  <2> QED BY <2>1
<1>6. \A i \in 1..(n - 1) : u[i] # "c" => i \in StartsIn(w)
  <2>1. ASSUME NEW i \in 1..(n - 1), u[i] # "c" PROVE i \in StartsIn(w)
    <3>1. i \in 1..n
      BY <1>1
    <3>2. i \in 1..m
      BY <1>1
    <3>3. CharStart(u[i]) \in 1..4
      BY <1>3, <2>1, <3>2
    <3>4. CharStart(w[i]) # 0
      BY <1>1, <3>1, <3>3
    <3> QED BY <3>4 DEF StartsIn
  <2> QED BY <2>1
<1>7. NoCutOff = -1
  BY DEF NoCutOff
<1>8. u # <<>> => u[1] # "c"
  BY DEF Text, IsUtf8
<1>9. m # 0 => u # <<>>
  BY EmptySeq DEF Text, Bytes
<1>10. CharStart("A") = 1 /\ CharStart("L") = 2
  BY DEF CharStart
<1>11. n # 0 => w[n] = u[n]
  BY <1>1, <1>2
<1>12. /\ n - 0 = n /\ n - 1 + 1 = n
  BY <1>1
<1> HIDE DEF n, m, tail
<1>13. CASE w = <<>> /\ tail = 0
  <2>1. n = 0 /\ n - tail + 1 = 1 /\ (n - tail < m => m # 0)
    BY <1>1, <1>13
  <2> QED BY <1>1, <1>7, <1>8, <1>9, <1>13, <2>1
<1>14. CASE w # <<>> /\ w[n] = "A" /\ tail = 0
  <2>1. n # 0 /\ u[n] = "A"
    BY <1>1, <1>11, <1>14
  <2>2. n + 1 <= m => u[n + 1] # "c"
    BY <1>2, <1>3, <1>10, <2>1
  <2>3. n - tail + 1 = n + 1 /\ (n - tail < m => n + 1 <= m)
    BY <1>1, <1>14
  <2> QED BY <1>1, <1>7, <1>14, <2>2, <2>3
<1>15. CASE w # <<>> /\ w[n] = "L" /\ tail = 1
  <2>1. n # 0 /\ u[n] = "L"
    BY <1>1, <1>11, <1>15
  <2>2. n + 2 <= m + 1
    BY <1>2, <1>3, <1>10, <2>1
  <2>3. n # m
    BY <1>1, <2>2
  <2>4. n - tail + 1 = n /\ 1 <= n
    BY <1>1, <1>15, <2>1
  <2> QED BY <1>7, <1>15, <2>1, <2>3, <2>4
<1>16. CASE w # <<>> /\ w[n] # "A" /\ w[n] # "L" /\ StartsIn(w) = {} /\ tail = NoCutOff
  <2>1. n # 0 /\ m # 0 /\ 1 \in 1..m
    BY <1>1, <1>16
  <2>2. u[1] # "c"
    BY <1>8, <1>9, <2>1
  <2>3. ~(1 \in 1..(n - 1))
    BY <1>6, <1>16, <2>2
  <2>4. n = 1 /\ m = 1
    BY <1>1, <2>1, <2>3, SMTT(30) DEF n, m
  <2>5. CharStart(u[1]) = 1
    <3>1. CharStart(u[1]) \in 1..4 /\ 1 + CharStart(u[1]) <= m + 1
      BY <1>3, <2>1, <2>2
    <3> QED BY <2>4, <3>1
  <2>6. u[1] = "A"
    BY <2>5 DEF CharStart
  <2> QED BY <1>11, <1>16, <2>1, <2>4, <2>6
<1>17. CASE /\ w # <<>> /\ w[n] # "A" /\ w[n] # "L"
            /\ \E i \in StartsIn(w) : /\ \A j \in StartsIn(w) : j <= i
                                      /\ tail = TailOfStart(n, i - 1, CharStart(w[i]))
  <2>1. PICK i \in StartsIn(w) : /\ \A j \in StartsIn(w) : j <= i
                                 /\ tail = TailOfStart(n, i - 1, CharStart(w[i]))
    BY <1>17
  <2> DEFINE k == CharStart(u[i])
  <2>2. i \in 1..(n - 1) /\ i \in 1..n /\ i \in 1..m /\ u[i] # "c" /\ w[i] = u[i]
    BY <1>1, <1>5, <2>1
  <2>3. /\ k \in 1..4 /\ i + k <= m + 1
        /\ \A j \in (i + 1)..(i + k - 1) : u[j] = "c"
        /\ i + k <= m => u[i + k] # "c"
    BY <1>3, <2>2
  <2>4. tail = TailOfStart(n, i - 1, k)
    BY <2>1, <2>2
  <2> HIDE DEF k
  <2>5. CASE i - 1 + k > n
    <3>1. tail = n - (i - 1)
      BY <2>4, <2>5 DEF TailOfStart
    <3>2. tail \in 0..3 /\ tail <= n /\ n - tail + 1 = i /\ n # m
      BY <1>1, <2>2, <2>3, <2>5, <3>1
    <3> QED BY <1>7, <2>2, <3>2
  <2>6. CASE ~(i - 1 + k > n)
    <3>1. tail = n - (i - 1) - k
      BY <2>4, <2>6 DEF TailOfStart
    <3>2. tail \in Nat /\ n - tail + 1 = i + k /\ tail <= n
      BY <1>1, <2>2, <2>3, <2>6, <3>1
    <3>3. n - tail < m => u[n - tail + 1] # "c"
      <4>1. n - tail < m => i + k <= m
        BY <1>1, <2>2, <2>3, <3>2
      <4> QED BY <2>3, <3>2, <4>1
    <3>4. tail = 0 \/ i + k = n
      <4> SUFFICES ASSUME tail # 0, i + k # n PROVE FALSE
        OBVIOUS
      <4>1. i + k \in 1..(n - 1) /\ i + k <= m
        BY <1>1, <2>2, <2>3, <3>2
      <4>2. i + k \in StartsIn(w)
        BY <1>6, <2>3, <4>1
      <4>3. i + k <= i
        BY <2>1, <4>2
      <4> QED BY <2>2, <2>3, <4>3
    <3>5. i + k = n => n # m
      <4> SUFFICES ASSUME i + k = n, n = m PROVE FALSE
        OBVIOUS
      <4>1. n \in 1..m /\ i + k <= m
        BY <1>1, <2>2
      <4>2. u[n] # "c"
        BY <2>3, <4>1
      <4>3. CharStart(u[n]) \in 1..4 /\ n + CharStart(u[n]) <= m + 1
        BY <1>3, <4>1, <4>2
      <4>4. CharStart(u[n]) = 1
        BY <1>1, <4>3
      <4>5. u[n] = "A"
        BY <4>4 DEF CharStart
      <4>6. n # 0
        BY <2>2
      <4> QED BY <1>11, <1>17, <4>5, <4>6
    <3>6. tail \in 0..3 /\ (n = m => tail = 0)
      <4>1. i + k = n => tail = 1
        BY <1>1, <2>2, <2>3, <3>2
      <4> QED BY <3>4, <3>5, <4>1
    <3>7. tail # NoCutOff
      BY <1>7, <3>2
    <3> QED BY <3>2, <3>3, <3>6, <3>7
  <2> QED BY <2>5, <2>6
<1> QED BY <1>13, <1>14, <1>15, <1>16, <1>17, TailLenIs DEF n, tail

\* What two sequences were joined from can be split again.
LEMMA ConcatSplit ==
  ASSUME NEW T, NEW a \in Seq(T), NEW b \in Seq(T)
  PROVE  /\ SubSeq(a \o b, 1, Len(a)) = a
         /\ SubSeq(a \o b, Len(a) + 1, Len(a \o b)) = b
<1> DEFINE u == a \o b
           p == Len(a)
           x == SubSeq(u, 1, p)
           y == SubSeq(u, p + 1, Len(u))
<1>1. /\ u \in Seq(T) /\ Len(u) = p + Len(b) /\ p \in Nat /\ Len(b) \in Nat
      /\ \A i \in 1..p + Len(b) : u[i] = IF i <= p THEN a[i] ELSE b[i - p]
  BY ConcatProperties, LenProperties
<1>2. p \in 0..Len(u) /\ p \in (1 - 1)..Len(u) /\ Len(u) \in p..Len(u) /\ 1 \in 1..(Len(u) + 1)
  BY <1>1
<1>3. x \in Seq(T) /\ Len(x) = p /\ \A i \in 1..p : x[i] = u[i]
  BY <1>1, <1>2, PrefixIs
<1>4. x \o y = u
  BY <1>1, <1>2, ConcatAdjacentSubSeq, SubSeqFull
<1>5. \A i \in 1..p : i \in 1..(p + Len(b)) /\ i <= p
  BY <1>1
<1>6. x = a
  <2>1. \A i \in 1..p : x[i] = a[i]
    BY <1>1, <1>3, <1>5
  <2> HIDE DEF x, u
  <2>2. Len(x) = Len(a) /\ \A i \in 1..Len(x) : x[i] = a[i]
    BY <1>3, <2>1
  <2> QED BY <1>3, <2>2, SeqEqual
<1>7. y \in Seq(T)
  <2>1. \A i \in (p + 1)..Len(u) : u[i] \in T
    <3> TAKE i \in (p + 1)..Len(u)
    <3>1. i \in 1..Len(u)
      BY <1>1
    <3> QED BY <1>1, <3>1, ElementOfSeq
  <2>2. p + 1 \in Int /\ Len(u) \in Int
    BY <1>1
  <2> HIDE DEF p, u
  <2> QED BY <2>1, <2>2, SubSeqProperties DEF y
<1>8. a \o y = a \o b
  BY <1>4, <1>6
<1> HIDE DEF x, y, u, p
<1>9. y = b
  BY <1>7, <1>8, ConcatSimplifications
<1> QED BY <1>6, <1>9 DEF x, y, u, p

\* What follows a text in a text is text.
LEMMA TextFollows ==
  ASSUME NEW a, Text(a), NEW b \in Bytes, Text(a \o b)
  PROVE  Text(b)
<1> DEFINE u == a \o b
           p == Len(a)
<1>1. /\ a \in Bytes /\ Len(u) = p + Len(b) /\ p \in Nat /\ Len(b) \in Nat
      /\ \A i \in 1..p : u[i] = a[i]
  <2>1. /\ a \in Seq(Utf8Byte) /\ b \in Seq(Utf8Byte)
    BY DEF Text, Bytes
  <2>2. /\ Len(u) = p + Len(b) /\ p \in Nat /\ Len(b) \in Nat
        /\ \A i \in 1..p + Len(b) : u[i] = IF i <= p THEN a[i] ELSE b[i - p]
    BY <2>1, ConcatProperties, LenProperties
  <2>3. \A i \in 1..p : i \in 1..(p + Len(b)) /\ i <= p
    BY <2>2
  <2> QED BY <2>1, <2>2, <2>3 DEF Bytes
<1>2. SubSeq(u, p + 1, Len(u)) = b
  BY <1>1, ConcatSplit DEF Bytes
<1>3. Text(u)
  OBVIOUS
<1> HIDE DEF u
<1>4. EndsAt(u, p)
  <2>1. CASE p = 0
    <3>1. u[1] # "c" \/ u = <<>>
      BY <1>3 DEF Text, IsUtf8
    <3>2. 0 < Len(u) => u # <<>>
      BY <1>3, EmptySeq DEF Text, Bytes
    <3> QED BY <1>1, <2>1, <3>1, <3>2 DEF EndsAt
  <2>2. CASE p # 0
    <3>1. p \in 1..Len(a) /\ EndsAt(a, p)
      BY <1>1, <2>2 DEF EndsAt
    <3>2. PICK i \in 1..p : a[i] # "c" /\ i + CharStart(a[i]) = p + 1
      BY <3>1, CharacterBefore
    <3>3. i \in 1..Len(u) /\ u[i] = a[i]
      BY <1>1, <3>2
    <3>4. i + CharStart(u[i]) <= Len(u) => u[i + CharStart(u[i])] # "c"
      BY <1>3, <3>2, <3>3, CharacterAt
    <3>5. p + 1 <= Len(u) => u[p + 1] # "c"
      BY <3>2, <3>3, <3>4
    <3> QED BY <1>1, <3>5 DEF EndsAt
  <2> QED BY <2>1, <2>2
<1> QED BY <1>2, <1>3, <1>4, TextSplit

\* utf8_to_cesu8_and_utf8_tail splits the bytes; what it converts is text.
LEMMA CutOffIs ==
  ASSUME NEW b \in Bytes, CutOff(b).ok
  PROVE  \E text : /\ Text(text) /\ CutOff(b).tail \in Bytes
                   /\ b = text \o CutOff(b).tail /\ CutOff(b).cesu8 = ToCesu8(text)
<1> DEFINE n == Len(b) - Utf8TailLen(b)
           text == SubSeq(b, 1, n)
           tail == SubSeq(b, n + 1, Len(b))
<1>1. Utf8TailLen(b) # NoCutOff /\ Convertible(text)
  BY DEF CutOff
<1>2. CutOff(b).cesu8 = ToCesu8(text) /\ CutOff(b).tail = tail
  BY <1>1 DEF CutOff
<1>3. Len(b) \in Nat /\ n \in 0..Len(b)
  BY <1>1, TailLenType, LenProperties DEF Bytes
<1> HIDE DEF n
<1>4. text \in Bytes
  BY <1>3, PrefixIs DEF Bytes
<1>5. b = text \o tail
  <2>1. 1 \in 1..(Len(b) + 1) /\ n \in (1 - 1)..Len(b) /\ Len(b) \in n..Len(b)
    BY <1>3
  <2> QED BY <1>3, <2>1, ConcatAdjacentSubSeq, SubSeqFull DEF Bytes
<1>6. tail \in Bytes
  <2>1. \A i \in (n + 1)..Len(b) : b[i] \in Utf8Byte
    <3> TAKE i \in (n + 1)..Len(b)
    <3>1. i \in 1..Len(b)
      BY <1>3
    <3> QED BY <3>1, ElementOfSeq DEF Bytes
  <2>2. n + 1 \in Int /\ Len(b) \in Int
    BY <1>3
  <2> QED BY <2>1, <2>2, SubSeqProperties DEF Bytes
<1>7. Text(text)
  BY <1>1, <1>4 DEF Text, Convertible
<1> HIDE DEF text, tail
<1> QED BY <1>2, <1>5, <1>6, <1>7

\* It succeeds for the beginning of a text, if this has not a single byte, and
\* keeps at most three bytes back, none of a whole text.
LEMMA CutOffOfText ==
  ASSUME NEW w \in Bytes, NEW r \in Bytes, Text(w \o r), Len(w) # 1 \/ r = <<>>
  PROVE  /\ CutOff(w).ok /\ Len(CutOff(w).tail) <= 3
         /\ r = <<>> => CutOff(w).tail = <<>>
<1> DEFINE u == w \o r
           tail == Utf8TailLen(w)
           n == Len(w) - tail
<1>1. /\ Len(u) = Len(w) + Len(r) /\ Len(w) \in Nat /\ Len(r) \in Nat /\ (r = <<>> => Len(r) = 0)
      /\ \A i \in 1..Len(w) : u[i] = w[i]
  <2>1. /\ Len(u) = Len(w) + Len(r) /\ Len(w) \in Nat /\ Len(r) \in Nat
        /\ \A i \in 1..Len(w) + Len(r) : u[i] = IF i <= Len(w) THEN w[i] ELSE r[i - Len(w)]
    BY ConcatProperties, LenProperties DEF Bytes
  <2>2. \A i \in 1..Len(w) : i \in 1..(Len(w) + Len(r)) /\ i <= Len(w)
    BY <2>1
  <2>3. r = <<>> => Len(r) = 0
    BY EmptySeq
  <2> QED BY <2>1, <2>2, <2>3
<1>2. /\ Len(w) <= Len(u) /\ \A i \in 1..Len(w) : w[i] = u[i]
      /\ Len(w) # 1 \/ Len(w) = Len(u)
      /\ r = <<>> => Len(w) = Len(u)
  BY <1>1
<1>3. Text(u) /\ u \in Bytes
  BY DEF Text
<1> HIDE DEF u
<1>4. /\ tail # NoCutOff /\ tail \in 0..3 /\ tail <= Len(w)
      /\ EndsAt(u, n)
      /\ Len(w) = Len(u) => tail = 0
  BY <1>2, <1>3, TailOfText
<1> HIDE DEF tail
<1>5. n \in 0..Len(w) /\ n \in 0..Len(u)
  BY <1>1, <1>4
<1>6. SubSeq(w, 1, n) = SubSeq(u, 1, n)
  <2>1. SubSeq(w, 1, n) \in Bytes /\ Len(SubSeq(w, 1, n)) = n /\ \A i \in 1..n : SubSeq(w, 1, n)[i] = w[i]
    BY <1>5, PrefixIs DEF Bytes
  <2>2. SubSeq(u, 1, n) \in Bytes /\ Len(SubSeq(u, 1, n)) = n /\ \A i \in 1..n : SubSeq(u, 1, n)[i] = u[i]
    BY <1>3, <1>5, PrefixIs DEF Bytes
  <2>3. \A i \in 1..n : i \in 1..Len(w)
    BY <1>1, <1>5
  <2> HIDE DEF n
  <2> QED BY <1>1, <2>1, <2>2, <2>3, SeqEqual DEF Bytes
<1>7. Convertible(SubSeq(w, 1, n))
  BY <1>3, <1>4, <1>6, TextSplit DEF Convertible, Text
<1>8. CutOff(w) = [ok |-> TRUE, cesu8 |-> ToCesu8(SubSeq(w, 1, n)),
                   tail |-> SubSeq(w, n + 1, Len(w))]
  BY <1>4, <1>7 DEF CutOff, tail
<1>9. Len(SubSeq(w, n + 1, Len(w))) <= 3
  <2>1. \A i \in (n + 1)..Len(w) : w[i] \in Utf8Byte
    <3> TAKE i \in (n + 1)..Len(w)
    <3>1. i \in 1..Len(w)
      BY <1>1, <1>5
    <3> QED BY <3>1, ElementOfSeq DEF Bytes
  <2>2. n + 1 \in Int /\ Len(w) \in Int
    BY <1>1, <1>5
  <2>3. Len(SubSeq(w, n + 1, Len(w))) = IF n + 1 <= Len(w) THEN Len(w) - (n + 1) + 1 ELSE 0
    <3> HIDE DEF n
    <3> QED BY <2>1, <2>2, SubSeqProperties
  <2> QED BY <1>1, <1>4, <2>3
<1>10. r = <<>> => SubSeq(w, n + 1, Len(w)) = <<>>
  <2>1. r = <<>> => n + 1 \in Int /\ Len(w) \in Int /\ Len(w) < n + 1
    BY <1>1, <1>2, <1>4
  <2> QED BY <2>1, SubSeqEmpty
<1>11. CutOff(w).ok /\ CutOff(w).tail = SubSeq(w, n + 1, Len(w))
  <2> DEFINE c == ToCesu8(SubSeq(w, 1, n))
             t == SubSeq(w, n + 1, Len(w))
  <2>1. CutOff(w) = [ok |-> TRUE, cesu8 |-> c, tail |-> t]
    BY <1>8
  <2> HIDE DEF c, t
  <2>2. CutOff(w).ok /\ CutOff(w).tail = t
    BY <2>1
  <2> QED BY <2>2 DEF t
<1> HIDE DEF n
<1> QED BY <1>9, <1>10, <1>11

=============================================================================
