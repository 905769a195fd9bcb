--------------------------- MODULE LobReadProofs ---------------------------
(***************************************************************************)
(* Proofs about LobRead, for all contents that are text, for chunks of     *)
(* every length and for buffers of every size with room for a character.   *)
(* First come facts about texts and parts of texts: where characters       *)
(* begin, what get_cesu8_tail_len finds at the end of a part, how          *)
(* sequences are counted.  Then LobInv is shown to be inductive: what was  *)
(* read, the buffer and the offset of the next fetch belong together.      *)
(***************************************************************************)
EXTENDS LobRead, FiniteSetTheorems, SequenceTheorems, WellFoundedInduction, TLAPS

-----------------------------------------------------------------------------
(* Numbers and positions.                                                  *)
\* A set of numbers has a least one.
LEMMA LeastNatural ==
  ASSUME NEW T, T \subseteq Nat, T # {}
  PROVE  \E x \in T : \A y \in T : x <= y
<1> DEFINE R == OpToRel(<, Nat)
<1>1. IsWellFoundedOn(R, Nat)
  BY NatLessThanWellFounded
<1>2. \A x, y \in Nat : y < x => <<y, x>> \in R
  BY DEF OpToRel
<1> HIDE DEF R
<1>3. PICK x \in T : \A y \in T : ~(<<y, x>> \in R)
  BY <1>1, WFMin
<1>4. \A y \in T : ~(y < x)
  BY <1>2, <1>3
<1>5. \A y \in T : x \in Nat /\ y \in Nat
  BY <1>3
<1> QED BY <1>3, <1>4, <1>5

\* A set of numbers that are not greater than n has a greatest one.
LEMMA GreatestNatural ==
  ASSUME NEW T, NEW n \in Nat, T \subseteq 0..n, T # {}
  PROVE  \E x \in T : \A y \in T : y <= x
<1> DEFINE U == {n - x : x \in T}
<1>1. U \subseteq Nat
  <2>1. \A x \in T : n - x \in Nat
    OBVIOUS
  <2> QED BY <2>1
<1>2. U # {}
  OBVIOUS
<1>3. \A x \in T : n - x \in U
  OBVIOUS
<1>4. \A u \in U : \E x \in T : u = n - x
  OBVIOUS
<1> HIDE DEF U
<1>5. PICK u \in U : \A v \in U : u <= v
  BY <1>1, <1>2, LeastNatural
<1>6. PICK x \in T : u = n - x
  BY <1>4, <1>5
<1>7. \A y \in T : y <= x
  <2> TAKE y \in T
  <2>1. u <= n - y
    BY <1>3, <1>5
  <2>2. x \in Int /\ y \in Int
    OBVIOUS
  <2> QED BY <1>6, <2>1, <2>2
<1> QED BY <1>7

-----------------------------------------------------------------------------
(* Characters.                                                             *)
Text(c) == c \in Seq(Byte) /\ IsText(c)

\* A character starts at i, and has Width(c, i) bytes.
CharStart(c, i) == i \in DOMAIN c /\ StartsSequence(c[i]) /\ ~SecondHalfAt(c, i)
Width(c, i) ==
  IF c[i] = "A" THEN 1 ELSE IF c[i] = "L" THEN 2 ELSE IF FirstHalfAt(c, i) THEN 6 ELSE 3

\* The first p bytes end between two characters.
Between(c, p) == p \in 0..Len(c) /\ (p # Len(c) => CharStart(c, p + 1))

\* What IsText says of a byte that starts a sequence.
LEMMA TextAt ==
  ASSUME NEW c, Text(c), NEW i \in DOMAIN c, StartsSequence(c[i])
  PROVE  LET next == i + SequenceLength(c[i]) IN
         /\ next <= Len(c) + 1
         /\ \A j \in (i + 1)..(next - 1) : c[j] \in Continuation
         /\ next \in DOMAIN c => StartsSequence(c[next])
         /\ FirstHalfAt(c, i) => next \in DOMAIN c /\ SecondHalfAt(c, next)
         /\ SecondHalfAt(c, i) => i > 3 /\ FirstHalfAt(c, i - 3)
BY DEF Text, IsText

\* The other bytes of a sequence continue it.
LEMMA Continued ==
  ASSUME NEW c, Text(c), NEW i \in DOMAIN c, StartsSequence(c[i]), NEW m, m = SequenceLength(c[i]),
         NEW j \in Int, i < j, j < i + m
  PROVE  c[j] \in Continuation
<1>1. m \in Int /\ i \in Int
  BY DEF SequenceLength, Text
<1>2. \A l \in (i + 1)..((i + SequenceLength(c[i])) - 1) : c[l] \in Continuation
  BY DEF Text, IsText
<1>3. j \in (i + 1)..((i + SequenceLength(c[i])) - 1)
  BY <1>1
<1> QED BY <1>2, <1>3

\* Where one character ends the next one starts.
LEMMA NextChar ==
  ASSUME NEW c, Text(c), NEW i, CharStart(c, i)
  PROVE  Between(c, i + Width(c, i) - 1)
<1>1. /\ c \in Seq(Byte) /\ Len(c) \in Nat /\ DOMAIN c = 1..Len(c) /\ i \in 1..Len(c) /\ c[i] \in Byte
      /\ StartsSequence(c[i])
  BY DEF Text, CharStart
<1>2. \A j \in DOMAIN c : c[j] \in Continuation => ~StartsSequence(c[j])
  BY DEF StartsSequence
<1>3. \A j \in DOMAIN c : c[j] = "D" => StartsSequence(c[j]) /\ SequenceLength(c[j]) = 3
  BY DEF StartsSequence, Continuation, SequenceLength
<1>4. CASE FirstHalfAt(c, i)
  <2>1. c[i] = "D" /\ Width(c, i) = 6
    BY <1>4 DEF FirstHalfAt, Width
  <2>2. i + 3 \in DOMAIN c /\ SecondHalfAt(c, i + 3)
    BY <1>1, <1>3, <1>4, <2>1, TextAt
  <2>3. c[i + 3] = "D" /\ c[i + 4] = "s"
    BY <1>1, <2>2 DEF SecondHalfAt
  <2>4. i + 6 <= Len(c) + 1 /\ (i + 6 \in DOMAIN c => StartsSequence(c[i + 6]))
    <3>1. PICK j \in DOMAIN c : j = i + 3
      BY <2>2
    <3>2. c[j] = "D" /\ StartsSequence(c[j]) /\ SequenceLength(c[j]) = 3
      BY <1>3, <2>3, <3>1
    <3> QED BY <1>1, <3>1, <3>2, TextAt
  <2>5. ASSUME i + 6 \in DOMAIN c
        PROVE  ~SecondHalfAt(c, i + 6)
    <3>1. SUFFICES ASSUME SecondHalfAt(c, i + 6)
                   PROVE  FALSE
      OBVIOUS
    <3>2. PICK j \in DOMAIN c : j = i + 6
      BY <2>5
    <3>3. FirstHalfAt(c, j - 3)
      BY <2>4, <3>1, <3>2, TextAt
    <3>4. j - 3 = i + 3
      BY <1>1, <3>2
    <3> QED BY <1>1, <2>3, <3>3, <3>4 DEF FirstHalfAt
  <2> QED BY <1>1, <2>1, <2>4, <2>5 DEF Between, CharStart
<1>5. CASE ~FirstHalfAt(c, i)
  <2> DEFINE m == SequenceLength(c[i])
  <2>1. m \in {1, 2, 3} /\ Width(c, i) = m /\ (m = 1 => c[i] = "A") /\ (m = 2 => c[i] = "L")
    BY <1>5 DEF SequenceLength, Width
  <2>2. i + m <= Len(c) + 1 /\ (i + m \in DOMAIN c => StartsSequence(c[i + m]))
    BY <1>1, TextAt
  <2>3. ASSUME i + m \in DOMAIN c
        PROVE  ~SecondHalfAt(c, i + m)
    <3>1. SUFFICES ASSUME SecondHalfAt(c, i + m)
                   PROVE  FALSE
      OBVIOUS
    <3>2. PICK j \in DOMAIN c : j = i + m
      BY <2>3
    <3>3. j > 3 /\ FirstHalfAt(c, j - 3)
      BY <2>2, <3>1, <3>2, TextAt
    <3>4. PICK h \in DOMAIN c : h = j - 3
      BY <1>1, <3>2, <3>3
    <3>5. c[h] = "D" /\ StartsSequence(c[h]) /\ SequenceLength(c[h]) = 3
      BY <1>3, <3>3, <3>4 DEF FirstHalfAt
    <3>6. \A l \in (h + 1)..(h + 2) : c[l] \in Continuation
      <4> TAKE l \in (h + 1)..(h + 2)
      <4>1. l \in Int /\ h < l /\ l < h + 3
        BY <1>1
      <4> QED BY <3>5, <4>1, Continued
    <3> HIDE DEF m
    <3>7. i = h \/ i \in (h + 1)..(h + 2)
      BY <1>1, <2>1, <3>2, <3>4
    <3> QED BY <1>1, <1>2, <1>5, <3>3, <3>4, <3>6, <3>7
  <2> HIDE DEF m
  <2> QED BY <1>1, <2>1, <2>2, <2>3 DEF Between, CharStart
<1> QED BY <1>4, <1>5

\* The bytes of a character do not start another one.
LEMMA InsideChar ==
  ASSUME NEW c, Text(c), NEW s, CharStart(c, s), NEW i \in Int, s < i, i < s + Width(c, s)
  PROVE  i \in DOMAIN c /\ ~CharStart(c, i)
<1>1. /\ c \in Seq(Byte) /\ Len(c) \in Nat /\ DOMAIN c = 1..Len(c) /\ s \in 1..Len(c) /\ c[s] \in Byte
      /\ StartsSequence(c[s])
  BY DEF Text, CharStart
<1>2. i \in DOMAIN c
  <2>1. s + Width(c, s) - 1 \in 0..Len(c) /\ Width(c, s) \in Int
    BY NextChar DEF Between, Width
  <2> QED BY <1>1, <2>1
<1>3. CASE i < s + SequenceLength(c[s])
  <2>1. c[i] \in Continuation
    BY <1>1, <1>3, Continued
  <2> QED BY <1>2, <2>1 DEF CharStart, StartsSequence
<1>4. CASE ~(i < s + SequenceLength(c[s]))
  <2>1. FirstHalfAt(c, s) /\ SequenceLength(c[s]) = 3 /\ Width(c, s) = 6
    BY <1>4 DEF Width, SequenceLength, FirstHalfAt
  <2>2. s + 3 \in DOMAIN c /\ SecondHalfAt(c, s + 3)
    BY <1>1, <2>1, TextAt
  <2>3. PICK j \in DOMAIN c : j = s + 3
    BY <2>2
  <2>4. SecondHalfAt(c, j) /\ c[j] = "D"
    BY <2>2, <2>3 DEF SecondHalfAt
  <2>5. StartsSequence(c[j]) /\ SequenceLength(c[j]) = 3
    BY <2>4 DEF StartsSequence, SequenceLength, Continuation
  <2>6. \A l \in (j + 1)..(j + 2) : c[l] \in Continuation
    BY <1>1, <2>3, <2>5, Continued
  <2>7. i = j \/ i \in (j + 1)..(j + 2)
    BY <1>1, <1>4, <2>1, <2>3
  <2> QED BY <1>2, <2>4, <2>6, <2>7 DEF CharStart, StartsSequence
<1> QED BY <1>2, <1>3, <1>4

\* Every byte belongs to a character.
LEMMA CharOf ==
  ASSUME NEW c, Text(c), NEW q \in DOMAIN c
  PROVE  \E s \in DOMAIN c : CharStart(c, s) /\ s <= q /\ q < s + Width(c, s)
<1>1. c \in Seq(Byte) /\ Len(c) \in Nat /\ DOMAIN c = 1..Len(c) /\ \A i \in DOMAIN c : c[i] \in Byte
  BY DEF Text
<1> DEFINE T == {i \in DOMAIN c : CharStart(c, i) /\ i <= q}
<1>2. 1 \in T
  <2>1. c # << >> /\ 1 \in DOMAIN c
    BY <1>1
  <2>2. StartsSequence(c[1])
    BY <2>1 DEF Text, IsText
  <2>3. ~SecondHalfAt(c, 1)
    BY <2>1, <2>2, TextAt
  <2> QED BY <1>1, <2>1, <2>2, <2>3 DEF CharStart
<1>3. T \subseteq 0..Len(c)
  BY <1>1
<1>4. \A i \in T : i \in DOMAIN c /\ CharStart(c, i) /\ i <= q
  OBVIOUS
<1>5. \A i \in DOMAIN c : CharStart(c, i) /\ i <= q => i \in T
  OBVIOUS
<1> HIDE DEF T
<1>6. PICK s \in T : \A i \in T : i <= s
  BY <1>1, <1>2, <1>3, GreatestNatural
<1>7. Between(c, s + Width(c, s) - 1)
  BY <1>4, <1>6, NextChar
<1>8. Width(c, s) \in Nat \ {0}
  BY DEF Width
<1>9. q < s + Width(c, s)
  <2>1. SUFFICES ASSUME s + Width(c, s) <= q
                 PROVE  FALSE
    BY <1>1, <1>4, <1>6, <1>8
  <2>2. PICK j \in DOMAIN c : j = s + Width(c, s)
    BY <1>1, <1>4, <1>6, <1>8, <2>1
  <2>3. CharStart(c, j)
    BY <1>1, <1>4, <1>6, <1>7, <1>8, <2>1, <2>2 DEF Between
  <2> QED BY <1>1, <1>4, <1>5, <1>6, <1>8, <2>1, <2>2, <2>3
<1> QED BY <1>4, <1>6, <1>9

\* b has the bytes p + 1 to q of the text c.
Part(c, p, q, b) ==
  Text(c) /\ p \in Nat /\ q \in Nat /\ p <= q /\ q <= Len(c) /\ b = SubSeq(c, p + 1, q)

\* What this means byte by byte.
LEMMA PartIs ==
  ASSUME NEW c, NEW p, NEW q, NEW b, Part(c, p, q, b)
  PROVE  /\ Text(c) /\ Len(c) \in Nat /\ DOMAIN c = 1..Len(c) /\ \A j \in DOMAIN c : c[j] \in Byte
         /\ p \in Nat /\ q \in Nat /\ p <= q /\ q <= Len(c)
         /\ Len(b) = q - p /\ DOMAIN b = 1..Len(b) /\ (b = << >> <=> p = q)
         /\ \A j \in 1..Len(b) : b[j] = c[p + j] /\ p + j \in DOMAIN c
BY DEF Part, Text

\* Part of a text, as cesu8_char_type sees it: it finds the starts of
\* characters, but for the last byte of the part.
LEMMA TypesInPart ==
  ASSUME NEW c, NEW p, NEW q, NEW b, Part(c, p, q, b), NEW i \in DOMAIN b
  PROVE  CharLength(CharType(b, i)) =
           IF CharStart(c, p + i) /\ (i = Len(b) => c[p + i] \in {"A", "L"}) THEN Width(c, p + i) ELSE 0
<1>1. /\ Text(c) /\ Len(c) \in Nat /\ DOMAIN c = 1..Len(c) /\ \A j \in DOMAIN c : c[j] \in Byte
      /\ p \in Nat /\ q \in Nat /\ p <= q /\ q <= Len(c)
  BY PartIs
<1>2. /\ Len(b) = q - p /\ DOMAIN b = 1..Len(b) /\ i \in 1..Len(b)
      /\ \A j \in 1..Len(b) : b[j] = c[p + j] /\ p + j \in DOMAIN c
  BY PartIs
<1>3. PICK k \in DOMAIN c : k = p + i
  BY <1>2
<1>4. b[i] = c[k] /\ c[k] \in Byte
  BY <1>1, <1>2, <1>3
<1>5. CASE i = Len(b)
  <2>1. c[k] = "A" \/ c[k] = "L" => CharStart(c, k)
    BY <1>3 DEF CharStart, StartsSequence, Continuation, SecondHalfAt
  <2> QED BY <1>3, <1>4, <1>5, <2>1 DEF CharType, CharLength, Width
<1>6. CASE i # Len(b)
  <2>1. i < Len(b) /\ k < Len(c) /\ b[i + 1] = c[k + 1] /\ k + 1 \in DOMAIN c
    <3>1. PICK j \in 1..Len(b) : j = i + 1
      BY <1>1, <1>2, <1>6
    <3>2. b[j] = c[p + j] /\ p + j \in DOMAIN c
      BY <1>2
    <3>3. p + j = k + 1
      BY <1>1, <1>2, <1>3, <3>1
    <3>4. i < Len(b) /\ k < Len(c)
      <4>1. i \in 1..Len(b) /\ Len(b) \in Nat
        BY <1>1, <1>2
      <4>2. i < Len(b)
        BY <1>6, <4>1
      <4>3. k + 1 \in 1..Len(c) /\ Len(c) \in Nat /\ k \in Nat
        BY <1>1, <1>2, <1>3, <3>2, <3>3
      <4>4. k < Len(c)
        BY <4>3
      <4> QED BY <4>2, <4>4
    <3> QED BY <3>1, <3>2, <3>3, <3>4
  <2>2. /\ FirstHalfAt(b, i) <=> FirstHalfAt(c, k)
        /\ SecondHalfAt(b, i) <=> SecondHalfAt(c, k)
    BY <1>4, <2>1 DEF FirstHalfAt, SecondHalfAt
  <2>3. CASE c[k] \in {"A", "L"}
    <3>1. CharStart(c, k)
      BY <2>3 DEF CharStart, StartsSequence, Continuation, SecondHalfAt
    <3> QED BY <1>3, <1>4, <1>6, <2>3, <3>1 DEF CharType, CharLength, Width
  <2>4. CASE c[k] \in Continuation
    <3>1. ~CharStart(c, k)
      BY <2>4 DEF CharStart, StartsSequence
    <3>2. CharType(b, i) = "NotAStart"
      BY <1>4, <1>6, <2>4 DEF CharType, Continuation, FirstHalfAt, SecondHalfAt
    <3> QED BY <1>3, <3>1, <3>2 DEF CharLength
  <2>5. CASE c[k] \in {"E", "D"}
    <3>1. StartsSequence(c[k]) /\ SequenceLength(c[k]) = 3
      BY <2>5 DEF StartsSequence, SequenceLength, Continuation
    <3>2. c[k + 1] \in Continuation
      <4>1. PICK j \in Int : j = k + 1
        BY <1>1
      <4>2. k < j /\ j < k + 3
        BY <1>1, <4>1
      <4> QED BY <1>1, <3>1, <4>1, <4>2, Continued
    <3>3. CASE FirstHalfAt(c, k)
      <4>1. CharType(b, i) = "FirstHalfOfSurrogate" /\ Width(c, k) = 6
        BY <1>4, <1>6, <2>2, <2>5, <3>3 DEF CharType, Width
      <4>2. CharStart(c, k)
        BY <3>1, <3>3 DEF CharStart, FirstHalfAt, SecondHalfAt
      <4> QED BY <1>3, <1>6, <4>1, <4>2 DEF CharLength
    <3>4. CASE SecondHalfAt(c, k)
      <4>1. CharType(b, i) = "SecondHalfOfSurrogate"
        BY <1>4, <1>6, <2>2, <2>5, <3>4 DEF CharType, FirstHalfAt, SecondHalfAt
      <4> QED BY <1>3, <3>4, <4>1 DEF CharLength, CharStart
    <3>5. CASE ~FirstHalfAt(c, k) /\ ~SecondHalfAt(c, k)
      <4>1. CharType(b, i) = "Three" /\ Width(c, k) = 3
        BY <1>4, <1>6, <2>1, <2>2, <2>5, <3>2, <3>5 DEF CharType, Width
      <4>2. CharStart(c, k)
        BY <3>1, <3>5 DEF CharStart
      <4> QED BY <1>3, <1>6, <4>1, <4>2 DEF CharLength
    <3> QED BY <3>3, <3>4, <3>5
  <2> QED BY <1>4, <2>3, <2>4, <2>5 DEF Byte
<1> QED BY <1>5, <1>6

\* Where a character begins there is a border, and a border is where one begins.
LEMMA BetweenAt ==
  ASSUME NEW c, Text(c), NEW s, CharStart(c, s), NEW p, p = s - 1
  PROVE  s \in Int /\ p \in Nat /\ p < Len(c) /\ s <= Len(c) /\ Between(c, p)
<1>1. Len(c) \in Nat /\ DOMAIN c = 1..Len(c) /\ s \in DOMAIN c
  BY DEF Text, CharStart
<1>2. p \in Nat /\ p + 1 = s /\ p < Len(c)
  BY <1>1
<1> QED BY <1>1, <1>2 DEF Between

\* The same the other way round.
LEMMA StartAt ==
  ASSUME NEW c, Text(c), NEW p, Between(c, p), NEW s, s = p + 1, p < Len(c)
  PROVE  CharStart(c, s)
BY DEF Between, Text

\* A character has at least one byte and at most six; where it ends is a border.
LEMMA CharEnds ==
  ASSUME NEW c, Text(c), NEW s, CharStart(c, s), NEW w, w = Width(c, s)
  PROVE  w \in 1..6 /\ s \in Int /\ s + w - 1 <= Len(c) /\ Between(c, s + w - 1)
<1>1. w \in 1..6
  BY DEF Width
<1>2. s \in Int /\ Len(c) \in Nat
  BY DEF Text, CharStart
<1>3. Between(c, s + w - 1)
  BY NextChar
<1> QED BY <1>1, <1>2, <1>3 DEF Between

\* A border is not inside of a character.
LEMMA NotInside ==
  ASSUME NEW c, Text(c), NEW s, CharStart(c, s), NEW w, w = Width(c, s),
         NEW p \in Int, s <= p, p + 1 < s + w
  PROVE  ~Between(c, p)
<1>1. PICK i \in Int : i = p + 1
  OBVIOUS
<1>2. s \in Int
  BY CharEnds
<1>3. i \in DOMAIN c /\ ~CharStart(c, i)
  BY <1>1, <1>2, InsideChar
<1>4. p < Len(c) /\ Len(c) \in Nat
  BY <1>1, <1>3 DEF Text
<1> QED BY <1>1, <1>3, <1>4, StartAt

\* A character that has its last byte after a border begins after it.
LEMMA BeginsAfter ==
  ASSUME NEW c, Text(c), NEW p, Between(c, p), NEW s, CharStart(c, s), NEW w, w = Width(c, s),
         NEW q \in Int, p < q, q < s + w
  PROVE  p < s
<1>1. p \in Int /\ s \in Int /\ w \in 1..6
  BY CharEnds DEF Between, Text
<1>2. SUFFICES ASSUME s <= p
               PROVE  FALSE
  BY <1>1
<1>3. p + 1 < s + w
  BY <1>1
<1> QED BY <1>1, <1>2, <1>3, NotInside

\* The starts that get_cesu8_tail_len finds in a part that does not end with a
\* character of one or two bytes.
LEMMA StartsOfPart ==
  ASSUME NEW c, NEW p, NEW q, NEW b, Part(c, p, q, b), p < q, c[q] \notin {"A", "L"}
  PROVE  /\ Starts(b) \subseteq 1..(q - p)
         /\ \A i \in 1..(q - p) : i \in Starts(b) <=> CharStart(c, p + i) /\ p + i # q
<1>1. p \in Nat /\ q \in Nat /\ Len(b) = q - p /\ DOMAIN b = 1..Len(b)
  BY PartIs
<1>2. Starts(b) \subseteq 1..(q - p)
  BY <1>1 DEF Starts
<1>3. ASSUME NEW i \in 1..(q - p)
      PROVE  i \in Starts(b) <=> CharStart(c, p + i) /\ p + i # q
  <2>1. PICK k \in Int : k = p + i
    BY <1>1
  <2>2. i \in DOMAIN b /\ (i = Len(b) <=> k = q)
    BY <1>1, <2>1
  <2>3. CharLength(CharType(b, i)) =
           IF CharStart(c, k) /\ (i = Len(b) => c[k] \in {"A", "L"}) THEN Width(c, k) ELSE 0
    BY <2>1, <2>2, TypesInPart
  <2>4. Width(c, k) # 0
    BY DEF Width
  <2>5. CharLength(CharType(b, i)) # 0 <=> CharStart(c, k) /\ k # q
    BY <2>2, <2>3, <2>4
  <2> QED BY <2>1, <2>2, <2>5 DEF Starts
<1> QED BY <1>2, <1>3

\* What it computes if the last start that it finds is at x.
LEMMA TailFrom ==
  ASSUME NEW c, NEW p, NEW q, NEW b, Part(c, p, q, b), c[q] \notin {"A", "L"},
         NEW x, CharStart(c, x), p < x, x < q, NEW w, w = Width(c, x),
         \A y \in Int : x < y /\ y < q => ~CharStart(c, y),
         NEW n, n = q - x + 1
  PROVE  (n < w => TailLen(b) = n) /\ (~(n < w) => TailLen(b) = n - w)
<1>1. /\ p \in Nat /\ q \in Nat /\ Len(b) = q - p /\ DOMAIN b = 1..Len(b) /\ (b = << >> <=> p = q)
      /\ \A j \in 1..Len(b) : b[j] = c[p + j]
  BY PartIs
<1>2. Text(c) /\ x \in Int
  <2>1. Text(c)
    BY DEF Part
  <2> QED BY <2>1 DEF CharStart, Text
<1>3. b # << >> /\ b[Len(b)] = c[q]
  <2>1. Len(b) \in 1..Len(b) /\ p + Len(b) = q
    BY <1>1, <1>2
  <2> QED BY <1>1, <2>1
<1>4. PICK a \in 1..(q - p) : p + a = x
  <2>1. x - p \in 1..(q - p) /\ p + (x - p) = x
    BY <1>1, <1>2
  <2> QED BY <2>1
<1>5. a \in Starts(b)
  BY <1>1, <1>2, <1>4, StartsOfPart
<1>6. \A j \in Starts(b) : j <= a
  <2>1. SUFFICES ASSUME NEW j \in Starts(b), ~(j <= a)
                 PROVE  FALSE
    OBVIOUS
  <2>2. j \in 1..(q - p) /\ CharStart(c, p + j) /\ p + j # q
    BY <1>1, <1>2, StartsOfPart
  <2>3. PICK y \in Int : y = p + j
    BY <1>1, <2>2
  <2>4. x < y /\ y < q
    BY <1>1, <1>4, <2>1, <2>2, <2>3
  <2> QED BY <2>2, <2>3, <2>4
<1> DEFINE starts == Starts(b)
           last == CHOOSE i \in starts : \A j \in starts : j <= i
           char == CharLength(CharType(b, last))
           size == Len(b) - last + 1
<1>7. last = a
  <2>1. starts \subseteq Int
    BY <1>1, <1>2, StartsOfPart
  <2>2. \E i \in starts : \A j \in starts : j <= i
    BY <1>5, <1>6
  <2>3. last \in starts /\ \A j \in starts : j <= last
    <3> HIDE DEF starts
    <3> QED BY <2>2
  <2>4. a \in starts /\ \A j \in starts : j <= a
    BY <1>5, <1>6
  <2> HIDE DEF last, starts
  <2> QED BY <2>1, <2>3, <2>4
<1>8. CharLength(CharType(b, a)) = w
  <2>1. a \in DOMAIN b /\ a # Len(b)
    BY <1>1, <1>2, <1>4
  <2> QED BY <1>4, <2>1, TypesInPart
<1>9. Len(b) - a + 1 = q - x + 1
  BY <1>1, <1>2, <1>4
<1>10. TailLen(b) = IF starts = {} THEN NoCutOff ELSE IF size < char THEN size ELSE size - char
  BY <1>3 DEF TailLen
<1>11. starts # {}
  BY <1>5
<1>12. char = w
  BY <1>7, <1>8
<1>13. size = n
  BY <1>7, <1>9
<1> HIDE DEF starts, last, char, size
<1>14. (size < char => TailLen(b) = size) /\ (~(size < char) => TailLen(b) = size - char)
  BY <1>10, <1>11
<1> QED BY <1>12, <1>13, <1>14

\* Of the bytes p + 1 to q of a text, t have to be cut off.
TailCuts(c, p, q, t) ==
  \/ t = NoCutOff /\ q = p + 1 /\ ~Between(c, q)
  \/ /\ t \in 0..5 /\ t <= q - p /\ Between(c, q - t)
     /\ \A y \in Int : q - t < y /\ y <= q => ~Between(c, y)

\* The same with a name for the place of the cut.
LEMMA TailCutsAt ==
  ASSUME NEW c, NEW p \in Nat, NEW q \in Nat, NEW t, NEW r, t \in 0..5, t <= q - p, r = q - t, Between(c, r),
         \A y \in Int : r < y /\ y <= q => ~Between(c, y)
  PROVE  TailCuts(c, p, q, t)
BY DEF TailCuts

\* get_cesu8_tail_len finds out which, if the part starts with a character.
LEMMA TailOfText ==
  ASSUME NEW c, NEW p, NEW q, NEW b, Part(c, p, q, b), Between(c, p)
  PROVE  TailCuts(c, p, q, TailLen(b))
<1>1. /\ Text(c) /\ Len(c) \in Nat /\ DOMAIN c = 1..Len(c) /\ \A j \in DOMAIN c : c[j] \in Byte
      /\ p \in Nat /\ q \in Nat /\ p <= q /\ q <= Len(c)
  BY PartIs
<1>2. /\ Len(b) = q - p /\ (b = << >> <=> p = q)
      /\ \A j \in 1..Len(b) : b[j] = c[p + j]
  BY PartIs
<1>3. CASE p = q
  <2>1. TailLen(b) = 0 /\ 0 \in 0..5 /\ 0 <= q - p /\ q = q - 0
    BY <1>1, <1>2, <1>3 DEF TailLen
  <2>2. \A y \in Int : ~(q < y /\ y <= q)
    BY <1>1
  <2> QED BY <1>1, <1>3, <2>1, <2>2, TailCutsAt
<1>4. CASE p < q
  <2>1. q \in DOMAIN c /\ c[q] \in Byte /\ b # << >> /\ b[Len(b)] = c[q]
    <3>1. Len(b) \in 1..Len(b) /\ p + Len(b) = q /\ q \in DOMAIN c
      BY <1>1, <1>2, <1>4
    <3> QED BY <1>1, <1>2, <1>4, <3>1
  <2>2. PICK s \in DOMAIN c : CharStart(c, s) /\ s <= q /\ q < s + Width(c, s)
    BY <1>1, <2>1, CharOf
  <2>3. PICK w : w = Width(c, s)
    OBVIOUS
  <2>4. w \in 1..6 /\ s \in Int /\ Between(c, s + w - 1)
    BY <1>1, <2>2, <2>3, CharEnds
  <2>5. p < s
    BY <1>1, <1>4, <2>2, <2>3, BeginsAfter
  <2>6. PICK e \in Nat : e = s - 1
    BY <1>1, <2>4, <2>5
  <2>7. Between(c, e)
    BY <1>1, <2>2, <2>6, BetweenAt
  <2>8. Between(c, q) <=> q = s + w - 1
    <3>1. q = s + w - 1 => Between(c, q)
      BY <2>4
    <3>2. q # s + w - 1 => q + 1 < s + w
      BY <1>1, <2>2, <2>3, <2>4, SMTT(60)
    <3>3. q # s + w - 1 => ~Between(c, q)
      BY <1>1, <2>2, <2>3, <3>2, NotInside
    <3> QED BY <3>1, <3>3
  <2>14. p \in Int /\ q \in Int /\ s \in Int /\ w \in 1..6 /\ s <= q /\ q < s + w
    BY <1>1, <2>2, <2>3, <2>4
  <2>9. CASE c[q] = "A"
    <3>1. CharStart(c, q) /\ Width(c, q) = 1
      BY <2>1, <2>9 DEF CharStart, StartsSequence, Continuation, SecondHalfAt, Width
    <3>2. Between(c, q + 1 - 1) /\ q + 1 - 1 = q /\ q - 0 = q
      BY <1>1, <3>1, CharEnds
    <3>3. TailLen(b) = 0
      BY <2>1, <2>9 DEF TailLen
    <3>4. 0 \in 0..5 /\ 0 <= q - p /\ q = q - 0 /\ Between(c, q)
      BY <1>1, <3>2
    <3>5. \A y \in Int : ~(q < y /\ y <= q)
      BY <1>1
    <3> QED BY <1>1, <3>3, <3>4, <3>5, TailCutsAt
  <2>10. CASE c[q] = "L"
    <3>1. CharStart(c, q) /\ Width(c, q) = 2
      BY <2>1, <2>10 DEF CharStart, StartsSequence, Continuation, SecondHalfAt, Width
    <3>2. ~Between(c, q)
      <4>1. q <= q /\ q + 1 < q + 2 /\ q \in Int
        BY <1>1
      <4> QED BY <1>1, <3>1, <4>1, NotInside
    <3>3. PICK f \in Nat : f = q - 1
      BY <1>1, <1>4
    <3>4. Between(c, f)
      BY <1>1, <3>1, <3>3, BetweenAt
    <3>5. TailLen(b) = 1
      BY <2>1, <2>10 DEF TailLen
    <3>6. 1 \in 0..5 /\ 1 <= q - p
      BY <1>1, <1>4
    <3>7. \A y \in Int : f < y /\ y <= q => y = q
      BY <1>1, <3>3
    <3>8. \A y \in Int : f < y /\ y <= q => ~Between(c, y)
      BY <3>2, <3>7
    <3> QED BY <1>1, <3>3, <3>4, <3>5, <3>6, <3>8, TailCutsAt
  <2>11. CASE c[q] \notin {"A", "L"} /\ s < q
    <3>1. \A y \in Int : s < y /\ y < q => ~CharStart(c, y)
      <4>1. SUFFICES ASSUME NEW y \in Int, s < y, y < q
                     PROVE  ~CharStart(c, y)
        OBVIOUS
      <4>2. y < s + Width(c, s)
        BY <1>1, <2>2, <2>3, <2>4, <4>1
      <4> QED BY <1>1, <2>2, <4>1, <4>2, InsideChar
    <3> DEFINE n == q - s + 1
    <3>2. (n < w => TailLen(b) = n) /\ (~(n < w) => TailLen(b) = n - w)
      BY <2>2, <2>3, <2>5, <2>11, <3>1, TailFrom
    <3>3. CASE q = s + w - 1
      <4>1. TailLen(b) = 0 /\ q = q - 0 /\ 0 <= q - p /\ 0 \in 0..5
        BY <1>1, <2>4, <3>2, <3>3
      <4>2. \A y \in Int : ~(q < y /\ y <= q)
        BY <1>1
      <4> QED BY <1>1, <2>8, <3>3, <4>1, <4>2, TailCutsAt
    <3>4. CASE q # s + w - 1
      <4>1. q - s + 1 < w
        BY <1>1, <2>2, <2>3, <2>4, <3>4, SMTT(60)
      <4>2. TailLen(b) = q - s + 1
        BY <3>2, <4>1
      <4>3. PICK t \in Int : t = q - s + 1
        BY <1>1, <2>4
      <4>4. t \in 0..5
        <5>1. t <= 5
          BY <2>14, <4>1, <4>3
        <5>2. t >= 0
          BY <2>14, <4>3
        <5> QED BY <5>1, <5>2
      <4>5. t <= q - p /\ e = q - t
        BY <1>1, <2>4, <2>5, <2>6, <4>3
      <4>6. \A y \in Int : e < y /\ y <= q => ~Between(c, y)
        <5>1. SUFFICES ASSUME NEW y \in Int, e < y, y <= q
                       PROVE  ~Between(c, y)
          OBVIOUS
        <5>2. s <= y /\ y + 1 < s + w
          <6>1. s - 1 < y
            BY <2>6, <5>1
          <6>2. q + 1 < s + w
            BY <2>14, <3>4
          <6>3. s <= y
            BY <2>14, <6>1
          <6>4. y + 1 < s + w
            BY <2>14, <5>1, <6>2
          <6> QED BY <6>3, <6>4
        <5> QED BY <1>1, <2>2, <2>3, <5>2, NotInside
      <4> QED BY <1>1, <2>7, <4>2, <4>3, <4>4, <4>5, <4>6, TailCutsAt
    <3> QED BY <3>3, <3>4
  <2>12. CASE c[q] \notin {"A", "L"} /\ s = q
    <3>1. ~Between(c, q)
      <4>1. w # 1
        BY <2>3, <2>12 DEF Width
      <4> QED BY <1>1, <2>4, <2>8, <2>12, <4>1
    <3>2. CASE q = p + 1
      <4>1. \A i \in 1..(q - p) : p + i = q
        BY <1>1, <3>2
      <4>2. Starts(b) = {}
        BY <1>4, <2>12, <4>1, StartsOfPart
      <4>3. TailLen(b) = NoCutOff
        BY <2>1, <2>12, <4>2 DEF TailLen
      <4> QED BY <3>1, <3>2, <4>3 DEF TailCuts
    <3>3. CASE q # p + 1
      <4>1. PICK f \in Nat : f = q - 1
        BY <1>1, <1>4
      <4>2. f \in DOMAIN c /\ p < f
        BY <1>1, <1>4, <3>3, <4>1
      <4>3. PICK x \in DOMAIN c : CharStart(c, x) /\ x <= f /\ f < x + Width(c, x)
        BY <1>1, <4>2, CharOf
      <4>4. PICK v : v = Width(c, x)
        OBVIOUS
      <4>5. v \in 1..6 /\ x \in Int
        BY <1>1, <4>3, <4>4, CharEnds
      <4>6. p < x
        BY <1>1, <4>2, <4>3, <4>4, BeginsAfter
      <4>7. Between(c, f)
        BY <2>7, <2>6, <2>12, <4>1
      <4>8. f = x + v - 1
        <5>1. f # x + v - 1 => f + 1 < x + v
          BY <4>3, <4>4, <4>5
        <5> QED BY <1>1, <4>3, <4>4, <4>7, <5>1, NotInside
      <4>9. \A y \in Int : x < y /\ y < q => ~CharStart(c, y)
        <5>1. SUFFICES ASSUME NEW y \in Int, x < y, y < q
                       PROVE  ~CharStart(c, y)
          OBVIOUS
        <5>2. y < x + Width(c, x)
          BY <1>1, <4>1, <4>4, <4>5, <4>8, <5>1
        <5> QED BY <1>1, <4>3, <5>1, <5>2, InsideChar
      <4>10. x < q
        BY <1>1, <4>1, <4>3, <4>5
      <4> DEFINE n == q - x + 1
      <4>11. ~(n < v) => TailLen(b) = n - v
        BY <2>12, <4>3, <4>4, <4>6, <4>9, <4>10, TailFrom
      <4>12. TailLen(b) = 1
        <5>1. n = v + 1
          BY <1>1, <4>1, <4>5, <4>8, SMTT(60)
        <5> HIDE DEF n
        <5>2. ~(n < v) /\ n - v = 1
          BY <4>5, <5>1
        <5> QED BY <4>11, <5>2
      <4>13. 1 \in 0..5 /\ 1 <= q - p
        BY <1>1, <1>4
      <4>14. \A y \in Int : f < y /\ y <= q => y = q
        BY <1>1, <4>1
      <4>15. \A y \in Int : f < y /\ y <= q => ~Between(c, y)
        BY <3>1, <4>14
      <4> QED BY <1>1, <4>1, <4>7, <4>12, <4>13, <4>15, TailCutsAt
    <3> QED BY <3>2, <3>3
  <2>13. s < q \/ s = q
    BY <1>1, <2>2, <2>4
  <2> QED BY <2>9, <2>10, <2>11, <2>12, <2>13
<1> QED BY <1>1, <1>3, <1>4

-----------------------------------------------------------------------------
(* Sequences of one to three bytes, which NCLOBs are counted in.           *)
SequenceStarts(c) == {i \in DOMAIN c : StartsSequence(c[i])}

\* How many of them start in the first i bytes.
CountTo(c, i) == Cardinality({j \in SequenceStarts(c) : j <= i})

\* The sets that are counted are finite.
LEMMA CountIs ==
  ASSUME NEW c, Text(c), NEW i
  PROVE  /\ IsFiniteSet({j \in SequenceStarts(c) : j <= i})
         /\ CountTo(c, i) \in Nat
<1>1. IsFiniteSet(DOMAIN c)
  <2>1. DOMAIN c = 1..Len(c) /\ Len(c) \in Nat
    BY DEF Text
  <2> QED BY <2>1, FS_Interval
<1>2. {j \in SequenceStarts(c) : j <= i} \in SUBSET DOMAIN c
  BY DEF SequenceStarts
<1>3. IsFiniteSet({j \in SequenceStarts(c) : j <= i})
  BY <1>1, <1>2, FS_Subset
<1> QED BY <1>3, FS_CardinalityType DEF CountTo

\* The number does not become smaller.
LEMMA CountGrows ==
  ASSUME NEW c, Text(c), NEW i \in Int, NEW k \in Int, i <= k
  PROVE  CountTo(c, i) <= CountTo(c, k)
<1>1. SequenceStarts(c) \subseteq Int
  BY DEF SequenceStarts, Text
<1>2. {j \in SequenceStarts(c) : j <= i} \in SUBSET {j \in SequenceStarts(c) : j <= k}
  BY <1>1
<1> QED BY <1>2, CountIs, FS_Subset DEF CountTo

\* It is one more where a sequence starts.
LEMMA CountStep ==
  ASSUME NEW c, Text(c), NEW i \in Nat, NEW k \in DOMAIN c, k = i + 1
  PROVE  /\ StartsSequence(c[k]) => CountTo(c, k) = CountTo(c, i) + 1
         /\ ~StartsSequence(c[k]) => CountTo(c, k) = CountTo(c, i)
<1> DEFINE S == {j \in SequenceStarts(c) : j <= i}
           T == {j \in SequenceStarts(c) : j <= k}
<1>1. SequenceStarts(c) \subseteq Int /\ k \in Int
  BY DEF SequenceStarts, Text
<1>2. ASSUME StartsSequence(c[k])
      PROVE  CountTo(c, k) = CountTo(c, i) + 1
  <2>1. k \in SequenceStarts(c)
    BY <1>2 DEF SequenceStarts
  <2>2. T = S \cup {k} /\ k \notin S
    BY <1>1, <2>1
  <2>3. IsFiniteSet(S)
    BY CountIs
  <2> HIDE DEF S, T
  <2>4. Cardinality(T) = Cardinality(S) + 1
    BY <2>2, <2>3, FS_AddElement
  <2> QED BY <2>4 DEF CountTo, S, T
<1>3. ASSUME ~StartsSequence(c[k])
      PROVE  CountTo(c, k) = CountTo(c, i)
  <2>1. k \notin SequenceStarts(c)
    BY <1>3 DEF SequenceStarts
  <2>2. S = T
    BY <1>1, <2>1
  <2> QED BY <2>2 DEF CountTo
<1> QED BY <1>2, <1>3

\* Before the first byte nothing starts.
LEMMA CountOfNone ==
  ASSUME NEW c, Text(c)
  PROVE  CountTo(c, 0) = 0
<1>1. {j \in SequenceStarts(c) : j <= 0} = {}
  BY DEF SequenceStarts, Text
<1> QED BY <1>1, FS_EmptySet DEF CountTo

\* The sequences of a part are counted together with those before it.
LEMMA CountOfPart ==
  ASSUME NEW c, NEW p, NEW q, NEW b, Part(c, p, q, b)
  PROVE  SequenceCount(b) \in Nat /\ CountTo(c, q) = CountTo(c, p) + SequenceCount(b)
<1> DEFINE B == {i \in DOMAIN b : StartsSequence(b[i])}
           P == {j \in SequenceStarts(c) : j <= p}
           Q == {j \in SequenceStarts(c) : j <= q}
           R == {j \in SequenceStarts(c) : p < j /\ j <= q}
<1>1. /\ p \in Nat /\ q \in Nat /\ p <= q /\ q <= Len(c) /\ Text(c) /\ DOMAIN c = 1..Len(c)
      /\ Len(c) \in Nat /\ DOMAIN b = 1..Len(b) /\ Len(b) = q - p
      /\ \A j \in 1..Len(b) : b[j] = c[p + j] /\ p + j \in DOMAIN c
  BY PartIs
<1>2. IsFiniteSet(P) /\ IsFiniteSet(Q) /\ IsFiniteSet(R)
  <2>1. IsFiniteSet(P) /\ IsFiniteSet(Q)
    BY <1>1, CountIs
  <2>2. R \in SUBSET Q
    OBVIOUS
  <2> HIDE DEF P, Q, R
  <2> QED BY <2>1, <2>2, FS_Subset
<1>3. ExistsBijection(R, B)
  <2> DEFINE f == [j \in R |-> j - p]
  <2>1. \A j \in R : j \in Int /\ p < j /\ j <= q /\ StartsSequence(c[j])
    BY <1>1 DEF SequenceStarts
  <2>2. \A j \in R : j - p \in B
    <3> TAKE j \in R
    <3>1. PICK i \in 1..Len(b) : i = j - p
      BY <1>1, <2>1
    <3>2. b[i] = c[j]
      <4>1. p + i = j
        BY <1>1, <2>1, <3>1
      <4> QED BY <1>1, <4>1
    <3> QED BY <1>1, <2>1, <3>1, <3>2
  <2>3. \A i \in B : \E j \in R : j - p = i
    <3> TAKE i \in B
    <3>1. i \in 1..Len(b) /\ StartsSequence(b[i])
      BY <1>1
    <3>2. PICK j \in DOMAIN c : j = p + i
      BY <1>1, <3>1
    <3>3. b[i] = c[j] /\ j - p = i /\ p < j /\ j <= q
      BY <1>1, <3>1, <3>2
    <3> QED BY <3>1, <3>2, <3>3 DEF SequenceStarts
  <2>4. \A j, k \in R : j - p = k - p => j = k
    BY <1>1, <2>1
  <2> HIDE DEF R, B
  <2>5. f \in Bijection(R, B)
    BY <2>2, <2>3, <2>4 DEF Bijection, Injection, Surjection, IsInjective
  <2> QED BY <2>5 DEF ExistsBijection
<1>4. Q = P \cup R /\ P \cap R = {}
  <2>1. SequenceStarts(c) \subseteq Int
    BY <1>1 DEF SequenceStarts
  <2> QED BY <1>1, <2>1
<1> HIDE DEF B, P, Q, R
<1>5. Cardinality(B) = Cardinality(R) /\ Cardinality(R) \in Nat /\ Cardinality(P) \in Nat
  BY <1>2, <1>3, FS_Bijection, FS_CardinalityType
<1>6. Cardinality(Q) = Cardinality(P) + Cardinality(R)
  <2>1. Cardinality(P \cap R) = 0
    BY <1>4, FS_EmptySet
  <2>2. Cardinality(P \cup R) = Cardinality(P) + Cardinality(R) - Cardinality(P \cap R)
    BY <1>2, FS_Union
  <2> QED BY <1>4, <1>5, <2>1, <2>2
<1> QED BY <1>5, <1>6 DEF B, P, Q, CountTo, SequenceCount

\* No sequence is cut after p bytes.
Uncut(c, p) == p \in 0..Len(c) /\ (p < Len(c) => CountTo(c, p + 1) = CountTo(c, p) + 1)

\* The number of bytes of the first u sequences.
Position(c, u) == Cardinality({i \in DOMAIN c : CountTo(c, i) <= u})

\* This is the longest beginning with at most u sequences.
LEMMA PositionIs ==
  ASSUME NEW c, Text(c), NEW u \in Nat, NEW p, p = Position(c, u)
  PROVE  p \in 0..Len(c) /\ CountTo(c, p) <= u /\ (p < Len(c) => CountTo(c, p + 1) > u)
<1> DEFINE T == {i \in DOMAIN c : CountTo(c, i) <= u}
<1>1. DOMAIN c = 1..Len(c) /\ Len(c) \in Nat
  BY DEF Text
<1>2. \A i \in Int : CountTo(c, i) \in Nat
  BY CountIs
<1>3. \A i, k \in Int : i <= k => CountTo(c, i) <= CountTo(c, k)
  BY CountGrows
<1>4. CASE T = {}
  <2>1. p = 0
    BY <1>4, FS_EmptySet DEF Position
  <2>2. CountTo(c, p) = 0
    BY <2>1, CountOfNone
  <2>3. 1 \in DOMAIN c => ~(CountTo(c, 1) <= u)
    BY <1>4
  <2>4. p < Len(c) => 1 \in DOMAIN c /\ p + 1 = 1
    BY <1>1, <2>1
  <2>5. CountTo(c, 1) \in Nat
    BY <1>2
  <2> QED BY <1>1, <2>1, <2>2, <2>3, <2>4, <2>5
<1>5. CASE T # {}
  <2>1. \A i \in T : i \in DOMAIN c /\ CountTo(c, i) <= u
    OBVIOUS
  <2>2. \A i \in DOMAIN c : CountTo(c, i) <= u => i \in T
    OBVIOUS
  <2>3. p = Cardinality(T)
    BY DEF Position
  <2> HIDE DEF T
  <2>4. T \subseteq 0..Len(c)
    BY <1>1, <2>1
  <2>5. PICK g \in T : \A i \in T : i <= g
    BY <1>1, <1>5, <2>4, GreatestNatural
  <2>6. g \in 1..Len(c)
    BY <1>1, <2>1, <2>5
  <2>7. T = 1..g
    <3>1. ASSUME NEW i \in 1..g
          PROVE  i \in T
      <4>1. i \in DOMAIN c /\ i <= g /\ i \in Int /\ g \in Int
        BY <1>1, <2>6
      <4>2. CountTo(c, i) <= CountTo(c, g) /\ CountTo(c, i) \in Nat /\ CountTo(c, g) \in Nat
        BY <1>2, <1>3, <4>1
      <4>3. CountTo(c, g) <= u
        BY <2>1, <2>5
      <4> QED BY <2>2, <4>1, <4>2, <4>3
    <3>2. \A i \in T : i \in 1..g
      BY <1>1, <2>1, <2>5, <2>6
    <3> QED BY <3>1, <3>2
  <2>8. p = g
    <3>1. Cardinality(1..g) = g - 1 + 1
      <4>1. 1 \in Int /\ g \in Int /\ ~(1 > g)
        BY <2>6
      <4> QED BY <4>1, FS_Interval
    <3> QED BY <2>3, <2>6, <2>7, <3>1
  <2>9. ASSUME p < Len(c)
        PROVE  CountTo(c, p + 1) > u
    <3>1. p + 1 \in DOMAIN c /\ p + 1 \in Int /\ ~(p + 1 <= p)
      BY <1>1, <2>6, <2>8, <2>9
    <3>2. p + 1 \notin T
      BY <2>5, <2>8, <3>1
    <3>3. CountTo(c, p + 1) \in Nat
      BY <1>2, <3>1
    <3> QED BY <2>2, <3>1, <3>2, <3>3
  <2> QED BY <2>1, <2>5, <2>6, <2>8, <2>9
<1> QED BY <1>4, <1>5

\* One more byte is at most one more sequence.
LEMMA CountNext ==
  ASSUME NEW c, Text(c), NEW p \in Nat, p < Len(c), NEW m, m = CountTo(c, p), NEW n, n = CountTo(c, p + 1)
  PROVE  m \in Nat /\ n \in Nat /\ m <= n /\ n <= m + 1
<1>1. m \in Nat /\ n \in Nat
  BY CountIs
<1>2. PICK k \in DOMAIN c : k = p + 1
  BY DEF Text
<1>3. n = m + 1 \/ n = m
  BY <1>2, CountStep
<1> QED BY <1>1, <1>3

\* A chunk of n sequences begins where the one before it ended, and ends where
\* no sequence is cut.
LEMMA ChunkIsUncut ==
  ASSUME NEW c, Text(c), NEW p, Uncut(c, p), NEW n \in Nat, NEW u, u = CountTo(c, p)
  PROVE  /\ Position(c, u) = p
         /\ \E q : q = Position(c, u + n) /\ p <= q /\ Uncut(c, q) /\ CountTo(c, q) <= u + n
<1>1. Len(c) \in Nat /\ p \in Nat /\ p <= Len(c)
  BY DEF Text, Uncut
<1>2. u \in Nat
  BY CountIs
<1>3. ASSUME NEW k \in Nat
      PROVE  \E q : q = Position(c, u + k) /\ p <= q /\ Uncut(c, q) /\ CountTo(c, q) <= u + k /\ (k = 0 => q = p)
  <2>1. PICK v \in Nat : v = u + k
    BY <1>2
  <2>2. PICK q : q = Position(c, v)
    OBVIOUS
  <2>3. q \in 0..Len(c) /\ CountTo(c, q) <= v /\ (q < Len(c) => CountTo(c, q + 1) > v)
    BY <2>2, PositionIs
  <2>4. PICK m : m = CountTo(c, q)
    OBVIOUS
  <2>5. q \in Nat /\ m \in Nat
    <3>1. q \in Nat
      BY <1>1, <2>3
    <3> QED BY <2>4, <3>1, CountIs
  <2>6. p <= q
    <3>1. SUFFICES ASSUME q < p
                   PROVE  FALSE
      BY <1>1, <2>5
    <3>2. q + 1 <= p /\ q < Len(c) /\ q + 1 \in Int
      BY <1>1, <2>5, <3>1
    <3>3. CountTo(c, q + 1) <= u
      BY <1>1, <3>2, CountGrows
    <3>4. CountTo(c, q + 1) \in Nat /\ CountTo(c, q + 1) > v
      BY <2>3, <3>2, CountIs
    <3> QED BY <1>2, <2>1, <3>3, <3>4
  <2>7. Uncut(c, q)
    <3>1. ASSUME q < Len(c)
          PROVE  CountTo(c, q + 1) = m + 1
      <4>1. PICK n1 : n1 = CountTo(c, q + 1)
        OBVIOUS
      <4>2. n1 \in Nat /\ n1 <= m + 1
        BY <2>4, <2>5, <3>1, <4>1, CountNext
      <4>3. n1 > v /\ m <= v
        BY <2>3, <2>4, <3>1, <4>1
      <4> QED BY <2>5, <4>1, <4>2, <4>3
    <3> QED BY <2>3, <2>4, <3>1 DEF Uncut
  <2>8. k = 0 => q = p
    <3>1. SUFFICES ASSUME k = 0, p < q
                   PROVE  FALSE
      BY <1>1, <2>5, <2>6
    <3>2. p < Len(c) /\ p + 1 <= q /\ p + 1 \in Int /\ q \in Int
      BY <1>1, <2>3, <2>5, <3>1
    <3>3. CountTo(c, p + 1) = u + 1
      BY <3>2 DEF Uncut
    <3>4. CountTo(c, p + 1) <= m
      BY <2>4, <3>2, CountGrows
    <3> QED BY <1>2, <2>1, <2>3, <2>4, <2>5, <3>1, <3>3, <3>4
  <2> QED BY <2>1, <2>2, <2>3, <2>6, <2>7, <2>8
<1>4. Position(c, u) = p
  <2>1. u + 0 = u
    BY <1>2
  <2> QED BY <1>3, <2>1
<1> QED BY <1>3, <1>4

\* A sequence has at most three bytes.
LEMMA BytesPerSequence ==
  ASSUME NEW c, Text(c), NEW p, Uncut(c, p), NEW q, q \in p..Len(c)
  PROVE  q - p <= 3 * (CountTo(c, q) - CountTo(c, p))
<1> DEFINE N(i) == CountTo(c, i)
           T == {i \in p..Len(c) : ~(i - p <= 3 * (N(i) - N(p)))}
<1>1. /\ Len(c) \in Nat /\ p \in Nat /\ p <= Len(c) /\ DOMAIN c = 1..Len(c)
      /\ \A i \in DOMAIN c : c[i] \in Byte
  BY DEF Text, Uncut
<1>2. \A i \in Int : N(i) \in Nat
  BY CountIs
<1>3. \A i, k \in Int : i <= k => N(i) <= N(k)
  BY CountGrows
<1>4. p < Len(c) => N(p + 1) = N(p) + 1
  BY DEF Uncut
<1>5. \A i \in DOMAIN c : \A k \in Nat : i = k + 1 =>
        (StartsSequence(c[i]) => N(i) = N(k) + 1) /\ (~StartsSequence(c[i]) => N(i) = N(k))
  BY CountStep
<1> HIDE DEF N
<1>6. SUFFICES ASSUME T # {}
               PROVE  FALSE
  BY DEF N
<1>7. \A i \in T : i \in p..Len(c) /\ ~(i - p <= 3 * (N(i) - N(p)))
  OBVIOUS
<1>8. \A i \in p..Len(c) : i \notin T => i - p <= 3 * (N(i) - N(p))
  OBVIOUS
<1>9. T \subseteq Nat
  BY <1>1
<1> HIDE DEF T
<1>10. PICK i \in T : \A j \in T : i <= j
  BY <1>6, <1>9, LeastNatural
<1>11. i \in Nat /\ p <= i /\ i <= Len(c)
  BY <1>1, <1>7, <1>9, <1>10
<1>12. p < i
  <2>1. p - p <= 3 * (N(p) - N(p))
    <3>1. N(p) \in Nat /\ p \in Nat
      BY <1>1, <1>2
    <3> QED BY <3>1
  <2> QED BY <1>1, <1>7, <1>10, <1>11, <2>1
<1> DEFINE U == {j \in 1..i : StartsSequence(c[j])}
<1>13. PICK o \in DOMAIN c : o = p + 1
  BY <1>1, <1>11, <1>12
<1>14. o \in U
  <2>1. StartsSequence(c[o])
    <3>1. p < Len(c) /\ N(p) \in Nat
      BY <1>1, <1>2, <1>11, <1>12
    <3>2. N(o) = N(p) + 1
      BY <1>4, <1>13, <3>1
    <3> QED BY <1>1, <1>5, <1>13, <3>1, <3>2
  <2> QED BY <1>1, <1>11, <1>12, <1>13, <2>1
<1>15. U \subseteq 0..i
  BY <1>11
<1>16. (\A j \in U : j \in 1..i /\ StartsSequence(c[j])) /\ (\A j \in 1..i : StartsSequence(c[j]) => j \in U)
  OBVIOUS
<1> HIDE DEF U
<1>17. PICK a \in U : \A j \in U : j <= a
  BY <1>11, <1>14, <1>15, GreatestNatural
<1>18. a \in DOMAIN c /\ a \in Nat /\ a <= i /\ p + 1 <= a /\ StartsSequence(c[a])
  BY <1>1, <1>11, <1>13, <1>14, <1>16, <1>17
<1>19. PICK m : m = SequenceLength(c[a])
  OBVIOUS
<1>20. m \in 1..3
  BY <1>19 DEF SequenceLength
<1>21. i < a + m
  <2>1. SUFFICES ASSUME a + m <= i
                 PROVE  FALSE
    BY <1>11, <1>18, <1>20
  <2>2. PICK j \in DOMAIN c : j = a + m
    BY <1>1, <1>11, <1>18, <1>20, <2>1
  <2>3. StartsSequence(c[j])
    BY <1>18, <1>19, <2>2, TextAt
  <2>4. j \in 1..i /\ ~(j <= a)
    BY <1>1, <1>11, <1>18, <1>20, <2>1, <2>2
  <2> QED BY <1>16, <1>17, <2>3, <2>4
<1>22. PICK e \in Nat : a = e + 1
  <2>1. a - 1 \in Nat /\ a = (a - 1) + 1
    BY <1>1, <1>18
  <2> QED BY <2>1
<1>23. e \in p..Len(c) /\ e \notin T
  BY <1>1, <1>10, <1>11, <1>18, <1>22
<1>24. e - p <= 3 * (N(e) - N(p))
  BY <1>8, <1>23
<1>25. N(a) = N(e) + 1 /\ N(a) <= N(i)
  BY <1>3, <1>5, <1>11, <1>18, <1>22
<1>26. N(e) \in Nat /\ N(p) \in Nat /\ N(i) \in Nat
  <2>1. e \in Int /\ p \in Int /\ i \in Int
    BY <1>1, <1>11
  <2> QED BY <1>2, <2>1
<1>27. i - p <= 3 * (N(i) - N(p))
  <2> DEFINE x == N(e)  y == N(p)  z == N(i)
  <2>1. x \in Nat /\ y \in Nat /\ z \in Nat /\ x + 1 <= z
    BY <1>25, <1>26
  <2>2. e \in Nat /\ p \in Int /\ i \in Int /\ e - p <= 3 * (x - y)
    BY <1>1, <1>11, <1>24
  <2>3. i < e + 1 + m
    BY <1>21, <1>22
  <2> HIDE DEF x, y, z
  <2>4. i <= e + 3
    BY <1>20, <2>2, <2>3
  <2>5. i - p <= 3 * (z - y)
    BY <2>1, <2>2, <2>4
  <2> QED BY <2>5 DEF y, z
<1> QED BY <1>7, <1>10, <1>27

\* What is between two borders of a text is a text.
LEMMA TextOfPart ==
  ASSUME NEW c, NEW p, NEW q, NEW b, Part(c, p, q, b), Between(c, p), Between(c, q)
  PROVE  IsText(b)
<1>1. /\ Text(c) /\ Len(c) \in Nat /\ DOMAIN c = 1..Len(c) /\ \A j \in DOMAIN c : c[j] \in Byte
      /\ p \in Nat /\ q \in Nat /\ p <= q /\ q <= Len(c)
  BY PartIs
<1>2. /\ Len(b) = q - p /\ DOMAIN b = 1..Len(b) /\ (b = << >> <=> p = q)
      /\ \A j \in 1..Len(b) : b[j] = c[p + j] /\ p + j \in DOMAIN c
  BY PartIs
<1>3. b # << >> => StartsSequence(b[1])
  <2>1. SUFFICES ASSUME b # << >>
                 PROVE  StartsSequence(b[1])
    OBVIOUS
  <2>2. p < Len(c) /\ 1 \in 1..Len(b)
    BY <1>1, <1>2, <2>1
  <2>3. CharStart(c, p + 1)
    BY <1>1, <2>2, StartAt
  <2> QED BY <1>2, <2>2, <2>3 DEF CharStart
<1>4. ASSUME NEW i \in DOMAIN b, StartsSequence(b[i]), NEW next, next = i + SequenceLength(b[i])
      PROVE  /\ next <= Len(b) + 1
             /\ \A j \in (i + 1)..(next - 1) : b[j] \in Continuation
             /\ next \in DOMAIN b => StartsSequence(b[next])
             /\ FirstHalfAt(b, i) => next \in DOMAIN b /\ SecondHalfAt(b, next)
             /\ SecondHalfAt(b, i) => i > 3 /\ FirstHalfAt(b, i - 3)
  <2>1. PICK k \in DOMAIN c : k = p + i
    BY <1>2
  <2>2. i \in 1..Len(b) /\ b[i] = c[k] /\ k \in Nat /\ p < k /\ k <= q
    BY <1>1, <1>2, <2>1
  <2>11. PICK n \in Nat : n = Len(b) /\ p + n = q /\ i <= n /\ 1 <= i /\ k = p + i
    <3>1. q - p \in Nat /\ p + (q - p) = q
      BY <1>1
    <3>2. i <= Len(b) /\ 1 <= i
      BY <1>2, <2>2, <3>1
    <3> QED BY <1>2, <2>1, <3>1, <3>2
  <2>12. p \in Nat /\ q \in Nat /\ Len(c) \in Nat /\ p <= q /\ q <= Len(c) /\ i \in Nat /\ n \in Nat
    BY <1>1, <1>2, <2>2, <2>11
  <2>13. p \in Nat /\ q \in Nat /\ i \in Nat /\ n \in Nat
    BY <2>12
  <2>3. PICK m : m = SequenceLength(c[k])
    OBVIOUS
  <2>4. m \in 1..3 /\ next = i + m
    BY <1>4, <2>2, <2>3 DEF SequenceLength
  <2>5. StartsSequence(c[k])
    BY <1>4, <2>2
  <2>6. k + m <= q + 1
    <3>1. SUFFICES ASSUME q + 1 < k + m
                   PROVE  FALSE
      BY <1>1, <2>2, <2>4
    <3>2. k + m <= Len(c) + 1
      BY <1>1, <2>3, <2>5, TextAt
    <3>3. q < Len(c)
      BY <1>1, <2>2, <2>4, <3>1, <3>2
    <3>4. PICK j \in Int : j = q + 1
      BY <1>1
    <3>5. CharStart(c, j)
      BY <1>1, <3>3, <3>4, StartAt
    <3>6. c[j] \in Continuation
      BY <1>1, <2>2, <2>3, <2>5, <3>1, <3>4, Continued
    <3> QED BY <3>5, <3>6 DEF CharStart, StartsSequence
  <2>7. ASSUME NEW j \in (i + 1)..(next - 1)
        PROVE  b[j] \in Continuation
    <3>1. j \in 1..Len(b)
      <4>1. p + i + m <= p + n + 1
        BY <2>6, <2>11
      <4>2. i + m <= n + 1
        BY <2>4, <2>13, <4>1
      <4>3. j \in Int /\ i + 1 <= j /\ j <= i + m - 1
        BY <2>4, <2>13
      <4>4. 1 <= j /\ j <= n
        BY <2>4, <2>13, <4>2, <4>3
      <4> QED BY <2>11, <4>3, <4>4
    <3>2. PICK l \in Int : l = p + j
      BY <1>1, <3>1
    <3>3. k < l /\ l < k + m
      <4>1. j \in Int /\ i + 1 <= j /\ j <= i + m - 1
        BY <2>4, <2>13
      <4>2. k = p + i /\ l = p + j
        BY <2>1, <3>2
      <4> QED BY <2>4, <2>13, <4>1, <4>2
    <3>4. c[l] \in Continuation
      BY <1>1, <2>3, <2>5, <3>3, Continued
    <3> QED BY <1>2, <3>1, <3>2, <3>4
  <2>8. ASSUME next \in DOMAIN b
        PROVE  StartsSequence(b[next])
    <3>1. PICK l \in DOMAIN c : l = p + next
      BY <1>2, <2>8
    <3>2. l = k + m
      BY <1>1, <2>1, <2>2, <2>4, <3>1
    <3>3. StartsSequence(c[l])
      BY <1>1, <2>3, <2>5, <3>2, TextAt
    <3> QED BY <1>2, <2>8, <3>1, <3>3
  <2>9. ASSUME FirstHalfAt(b, i)
        PROVE  next \in DOMAIN b /\ SecondHalfAt(b, next)
    <3>1. i < Len(b) /\ b[i + 1] = "f" /\ c[k] = "D"
      BY <2>2, <2>9 DEF FirstHalfAt
    <3>2. PICK j \in 1..Len(b) : j = i + 1
      BY <2>11, <2>12, <3>1
    <3>3. p + j = k + 1 /\ k + 1 \in DOMAIN c
      <4>1. p + j = k + 1
        BY <2>11, <2>12, <3>2
      <4> QED BY <1>2, <4>1
    <3>4. FirstHalfAt(c, k) /\ ~SecondHalfAt(c, k)
      BY <1>1, <1>2, <3>1, <3>2, <3>3, SMTT(60) DEF FirstHalfAt, SecondHalfAt
    <3>5. CharStart(c, k) /\ Width(c, k) = 6 /\ m = 3
      BY <2>3, <2>5, <3>1, <3>4 DEF CharStart, Width, SequenceLength
    <3>6. k + 6 <= q + 1
      <4>1. SUFFICES ASSUME q + 1 < k + 6
                     PROVE  FALSE
        BY <1>1, <2>2
      <4> QED BY <1>1, <2>2, <3>5, <4>1, NotInside
    <3>7. PICK l \in DOMAIN c : l = k + 3
      BY <1>1, <2>2, <3>6
    <3>8. SecondHalfAt(c, l)
      BY <1>1, <2>3, <2>5, <3>4, <3>5, <3>7, TextAt
    <3>9. next \in 1..Len(b) /\ next < Len(b) /\ p + next = l
      <4>1. next = i + 3 /\ k + 6 <= q + 1 /\ l = k + 3 /\ k = p + i /\ p + n = q
        BY <2>4, <2>11, <3>5, <3>6, <3>7
      <4>2. i + 5 <= n
        <5>1. p + i + 6 <= p + n + 1
          BY <4>1
        <5> QED BY <2>13, <5>1
      <4>6. next = i + 3
        BY <4>1
      <4>5. next \in Int /\ 1 <= next /\ next < n
        BY <2>13, <4>2, <4>6
      <4>3. next \in 1..n /\ next < n
        BY <2>13, <4>5
      <4>4. p + next = l
        BY <2>13, <4>1
      <4> QED BY <2>11, <4>3, <4>4
    <3>10. PICK h \in 1..Len(b) : h = next + 1
      BY <2>11, <3>9
    <3>11. p + h = l + 1
      BY <2>11, <2>12, <3>9, <3>10
    <3> QED BY <1>2, <3>8, <3>9, <3>10, <3>11 DEF SecondHalfAt
  <2>10. ASSUME SecondHalfAt(b, i)
         PROVE  i > 3 /\ FirstHalfAt(b, i - 3)
    <3>1. i < Len(b) /\ b[i + 1] = "s" /\ c[k] = "D"
      BY <2>2, <2>10 DEF SecondHalfAt
    <3>2. PICK j \in 1..Len(b) : j = i + 1
      BY <2>11, <2>12, <3>1
    <3>3. p + j = k + 1 /\ k + 1 \in DOMAIN c
      <4>1. p + j = k + 1
        BY <2>11, <2>12, <3>2
      <4> QED BY <1>2, <4>1
    <3>4. SecondHalfAt(c, k)
      BY <1>1, <1>2, <3>1, <3>2, <3>3, SMTT(60) DEF SecondHalfAt
    <3>5. k > 3 /\ FirstHalfAt(c, k - 3)
      BY <1>1, <2>5, <3>4, TextAt
    <3>6. PICK h \in DOMAIN c : h = k - 3
      BY <1>1, <2>2, <3>5
    <3>7. FirstHalfAt(c, h) /\ c[h] = "D" /\ c[h + 1] = "f"
      BY <3>5, <3>6 DEF FirstHalfAt
    <3>8. CharStart(c, h) /\ Width(c, h) = 6
      BY <3>7 DEF CharStart, Width, StartsSequence, Continuation, SecondHalfAt
    <3>9. p < h
      <4>1. SUFFICES ASSUME h <= p
                     PROVE  FALSE
        BY <1>1, <2>2, <3>6
      <4>2. p + 1 < h + 6 /\ p \in Int
        BY <1>1, <2>2, <3>6, SMTT(60)
      <4> QED BY <1>1, <3>8, <4>1, <4>2, NotInside
    <3>10. PICK g \in 1..Len(b) : g = i - 3
      BY <2>11, <2>12, <3>6, <3>9
    <3>11. PICK g1 \in 1..Len(b) : g1 = g + 1
      BY <2>11, <2>12, <3>10, SMTT(60)
    <3>12. p + g = h /\ p + g1 = h + 1 /\ g < Len(b) /\ i > 3
      <4>1. g \in 1..n /\ g1 \in 1..n /\ g = i - 3 /\ g1 = g + 1 /\ h = k - 3 /\ k = p + i
        BY <2>11, <3>6, <3>10, <3>11
      <4>2. g \in Int /\ g1 \in Int
        BY <4>1
      <4>3. g < n /\ i > 3
        <5>1. 1 <= g /\ g = i - 3
          BY <4>1
        <5>2. g1 <= n /\ g1 = g + 1
          BY <4>1
        <5>3. i > 3
          BY <2>13, <4>2, <5>1
        <5>4. g < n
          BY <2>13, <4>2, <5>2
        <5> QED BY <5>3, <5>4
      <4>5. p + g = h
        BY <2>13, <4>1
      <4>4. p + g = h /\ p + g1 = h + 1
        BY <2>13, <4>1, <4>2, <4>5
      <4> QED BY <2>11, <4>3, <4>4
    <3> QED BY <1>2, <3>7, <3>10, <3>11, <3>12 DEF FirstHalfAt
  <2> QED BY <2>1, <1>1, <1>2, <2>2, <2>4, <2>6, <2>7, <2>8, <2>9, <2>10
<1> QED BY <1>3, <1>4 DEF IsText

-----------------------------------------------------------------------------
(* Cutting and joining parts.                                              *)

\* The first k bytes of a part.
LEMMA PartFirst ==
  ASSUME NEW c, NEW p, NEW q, NEW b, Part(c, p, q, b), NEW k \in 0..Len(b), NEW r, r = p + k
  PROVE  Part(c, p, r, SubSeq(b, 1, k))
<1>1. /\ Text(c) /\ Len(c) \in Nat /\ c \in Seq(Byte)
      /\ p \in Nat /\ q \in Nat /\ p <= q /\ q <= Len(c) /\ Len(b) = q - p
  BY PartIs DEF Text
<1>2. k \in Nat /\ r \in Nat /\ p <= r /\ r <= q /\ r <= Len(c)
  BY <1>1
<1>3. b = SubSeq(c, p + 1, q)
  BY DEF Part
<1>4. CASE k = 0
  <2>1. SubSeq(b, 1, 0) = << >>
    BY SubSeqEmpty
  <2>2. SubSeq(c, p + 1, p) = << >>
    BY <1>1, SubSeqEmpty
  <2>3. r = p
    BY <1>1, <1>4
  <2> QED BY <1>1, <1>2, <1>4, <2>1, <2>2, <2>3 DEF Part
<1>5. CASE k # 0
  <2>1. p + 1 \in 1..Len(c) /\ q \in 1..Len(c) /\ 1 \in 1..(q - (p + 1) + 1) /\ k \in 1..(q - (p + 1) + 1)
    BY <1>1, <1>2, <1>5
  <2>2. SubSeq(SubSeq(c, p + 1, q), 1, k) = SubSeq(c, p + 1 + 1 - 1, p + 1 + k - 1)
    BY <1>1, <2>1, SubSeqOfSubSeq
  <2>3. p + 1 + 1 - 1 = p + 1 /\ p + 1 + k - 1 = r
    BY <1>1, <1>2
  <2>4. SubSeq(b, 1, k) = SubSeq(c, p + 1, r)
    BY <1>3, <2>2, <2>3
  <2> QED BY <1>1, <1>2, <2>4 DEF Part
<1> QED BY <1>4, <1>5

\* The other bytes of it.
LEMMA PartRest ==
  ASSUME NEW c, NEW p, NEW q, NEW b, Part(c, p, q, b), NEW k \in 0..Len(b), NEW r, r = p + k
  PROVE  Part(c, r, q, SubSeq(b, k + 1, Len(b)))
<1>1. /\ Text(c) /\ Len(c) \in Nat /\ c \in Seq(Byte)
      /\ p \in Nat /\ q \in Nat /\ p <= q /\ q <= Len(c) /\ Len(b) = q - p
  BY PartIs DEF Text
<1>2. k \in Nat /\ r \in Nat /\ p <= r /\ r <= q /\ r <= Len(c)
  BY <1>1
<1>3. b = SubSeq(c, p + 1, q)
  BY DEF Part
<1>4. CASE r = q
  <2>1. SubSeq(b, k + 1, Len(b)) = << >>
    <3>1. Len(b) < k + 1 /\ k + 1 \in Int /\ Len(b) \in Int
      BY <1>1, <1>2, <1>4
    <3> QED BY <3>1, SubSeqEmpty
  <2>2. SubSeq(c, r + 1, q) = << >>
    <3>1. q < r + 1 /\ r + 1 \in Int /\ q \in Int
      BY <1>1, <1>2, <1>4
    <3> QED BY <3>1, SubSeqEmpty
  <2> QED BY <1>1, <1>2, <2>1, <2>2 DEF Part
<1>5. CASE r # q
  <2> DEFINE i == p + 1
             n == q - p
  <2>1. /\ i \in 1..Len(c) /\ q \in 1..Len(c) /\ k + 1 \in 1..(q - i + 1) /\ n \in 1..(q - i + 1)
    BY <1>1, <1>2, <1>5
  <2>2. i + (k + 1) - 1 = r + 1 /\ i + n - 1 = q
    BY <1>1, <1>2
  <2>3. SubSeq(c, i, q) = b /\ Len(b) = n
    BY <1>1, <1>3
  <2> HIDE DEF i, n
  <2>4. SubSeq(SubSeq(c, i, q), k + 1, n) = SubSeq(c, i + (k + 1) - 1, i + n - 1)
    BY <1>1, <2>1, SubSeqOfSubSeq
  <2>5. SubSeq(b, k + 1, Len(b)) = SubSeq(c, r + 1, q)
    BY <2>2, <2>3, <2>4
  <2> QED BY <1>1, <1>2, <2>5 DEF Part
<1> QED BY <1>4, <1>5

\* Two parts that follow each other.
LEMMA PartJoin ==
  ASSUME NEW c, NEW p, NEW q, NEW r, NEW a, NEW b, Part(c, p, q, a), Part(c, q, r, b)
  PROVE  Part(c, p, r, a \o b)
<1>1. /\ Text(c) /\ Len(c) \in Nat /\ c \in Seq(Byte)
      /\ p \in Nat /\ q \in Nat /\ p <= q /\ q <= Len(c) /\ r \in Nat /\ q <= r /\ r <= Len(c)
  BY PartIs DEF Text
<1>2. p + 1 \in 1..(Len(c) + 1) /\ q \in (p + 1 - 1)..Len(c) /\ r \in q..Len(c) /\ p <= r
  BY <1>1
<1>3. SubSeq(c, p + 1, q) \o SubSeq(c, q + 1, r) = SubSeq(c, p + 1, r)
  BY <1>1, <1>2, ConcatAdjacentSubSeq
<1> QED BY <1>1, <1>2, <1>3 DEF Part

\* A part from the beginning.
LEMMA PartWhole ==
  ASSUME NEW c, NEW b, NEW n, Part(c, 0, n, b)
  PROVE  b = SubSeq(c, 1, n) /\ (b = c <=> n = Len(c))
<1>1. c \in Seq(Byte) /\ Len(c) \in Nat /\ n \in Nat /\ Len(b) = n - 0
  BY PartIs DEF Text
<1>2. b = SubSeq(c, 1, n)
  BY DEF Part
<1>3. SubSeq(c, 1, Len(c)) = c
  BY <1>1, SubSeqFull
<1>4. Len(b) = n
  BY <1>1
<1> QED BY <1>2, <1>3, <1>4

\* Nothing, at p.
LEMMA PartOfNone ==
  ASSUME NEW c, Text(c), NEW p \in Nat, p <= Len(c)
  PROVE  Part(c, p, p, << >>)
<1>1. SubSeq(c, p + 1, p) = << >>
  BY SubSeqEmpty
<1> QED BY <1>1 DEF Part

\* At the beginning and at the end no character is cut, and no sequence.
LEMMA AtTheEnds ==
  ASSUME NEW c, Text(c)
  PROVE  Between(c, 0) /\ Between(c, Len(c)) /\ Uncut(c, 0)
<1>1. Len(c) \in Nat /\ DOMAIN c = 1..Len(c) /\ c \in Seq(Byte)
  BY DEF Text
<1>2. ASSUME 0 # Len(c)
      PROVE  CharStart(c, 0 + 1) /\ CountTo(c, 0 + 1) = CountTo(c, 0) + 1
  <2>1. PICK k \in DOMAIN c : k = 0 + 1
    BY <1>1, <1>2
  <2>2. StartsSequence(c[1])
    BY <1>1, <1>2 DEF Text, IsText
  <2>3. k = 1 /\ StartsSequence(c[k])
    BY <2>1, <2>2
  <2>4. ~SecondHalfAt(c, k)
    BY <2>3, TextAt
  <2>5. CountTo(c, k) = CountTo(c, 0) + 1
    BY <2>1, <2>3, CountStep
  <2> QED BY <2>1, <2>3, <2>4, <2>5 DEF CharStart
<1> QED BY <1>1, <1>2 DEF Between, Uncut

\* What cesu8_char_type says of a byte of a part that is not the last one.
LEMMA TypeAt ==
  ASSUME NEW c, NEW p, NEW q, NEW b, Part(c, p, q, b), NEW i \in DOMAIN b, NEW k, k = p + i, k < q
  PROVE  /\ k + 1 \in DOMAIN c /\ i + 1 \in DOMAIN b /\ k \in DOMAIN c
         /\ CharStart(c, k) => CharType(b, i) \notin {"NotAStart", "TooShort", "SecondHalfOfSurrogate"}
         /\ ~CharStart(c, k) /\ ~StartsSequence(c[k]) => CharType(b, i) = "NotAStart"
         /\ ~CharStart(c, k) /\ StartsSequence(c[k]) => CharType(b, i) = "SecondHalfOfSurrogate"
<1>1. /\ Text(c) /\ Len(c) \in Nat /\ DOMAIN c = 1..Len(c) /\ \A j \in DOMAIN c : c[j] \in Byte
      /\ p \in Nat /\ q \in Nat /\ p <= q /\ q <= Len(c)
  BY PartIs
<1>2. /\ Len(b) = q - p /\ DOMAIN b = 1..Len(b) /\ i \in 1..Len(b)
      /\ \A j \in 1..Len(b) : b[j] = c[p + j] /\ p + j \in DOMAIN c
  BY PartIs
<1>3. k \in Nat /\ i \in Nat /\ p + i = k /\ k \in DOMAIN c /\ b[i] = c[k] /\ c[k] \in Byte
  BY <1>1, <1>2
<1>4. i # Len(b) /\ i < Len(b)
  BY <1>1, <1>2, <1>3
<1>5. PICK j \in 1..Len(b) : j = i + 1
  BY <1>2, <1>3, <1>4
<1>6. p + j = k + 1
  BY <1>1, <1>3, <1>5
<1>7. k + 1 \in DOMAIN c /\ i + 1 \in DOMAIN b /\ b[i + 1] = c[k + 1] /\ k < Len(c)
  <2>1. k < Len(c)
    BY <1>1, <1>3
  <2> QED BY <1>2, <1>5, <1>6, <2>1
<1>8. /\ FirstHalfAt(b, i) <=> FirstHalfAt(c, k)
      /\ SecondHalfAt(b, i) <=> SecondHalfAt(c, k)
  BY <1>3, <1>4, <1>7 DEF FirstHalfAt, SecondHalfAt
<1>9. CASE ~StartsSequence(c[k])
  <2>1. c[k] \in Continuation
    BY <1>9 DEF StartsSequence
  <2>2. CharType(b, i) = "NotAStart"
    BY <1>3, <1>4, <2>1 DEF CharType, Continuation, FirstHalfAt, SecondHalfAt
  <2> QED BY <1>3, <1>7, <1>9, <2>2 DEF CharStart
<1>10. CASE StartsSequence(c[k])
  <2>1. c[k] \in {"A", "L", "E", "D"}
    BY <1>3, <1>10 DEF Byte, StartsSequence
  <2>2. CASE c[k] \in {"A", "L"}
    <3>1. ~SecondHalfAt(c, k)
      BY <2>2 DEF SecondHalfAt
    <3> QED BY <1>3, <1>7, <1>10, <2>2, <3>1 DEF CharType, CharStart
  <2>3. CASE c[k] \in {"E", "D"}
    <3>1. c[k + 1] \in Continuation
      <4>1. PICK l \in Int : l = k + 1
        BY <1>3
      <4>2. k < l /\ l < k + 3
        BY <1>3, <4>1
      <4>3. SequenceLength(c[k]) = 3
        BY <2>3 DEF SequenceLength
      <4> QED BY <1>1, <1>3, <1>10, <4>1, <4>2, <4>3, Continued
    <3>2. CASE SecondHalfAt(c, k)
      <4>1. ~FirstHalfAt(c, k)
        BY <3>2 DEF FirstHalfAt, SecondHalfAt
      <4>2. CharType(b, i) = "SecondHalfOfSurrogate"
        BY <1>3, <1>4, <1>8, <2>3, <3>2, <4>1 DEF CharType
      <4> QED BY <1>3, <1>7, <1>10, <3>2, <4>2 DEF CharStart
    <3>3. CASE ~SecondHalfAt(c, k)
      <4>1. CharType(b, i) \in {"FirstHalfOfSurrogate", "Three"}
        BY <1>3, <1>4, <1>7, <1>8, <2>3, <3>1, <3>3 DEF CharType
      <4>2. CharStart(c, k)
        BY <1>3, <1>10, <3>3 DEF CharStart
      <4> QED BY <1>3, <1>7, <1>10, <4>1, <4>2
    <3> QED BY <3>2, <3>3
  <2> QED BY <2>1, <2>2, <2>3
<1> QED BY <1>9, <1>10

\* Where the second half of a pair is, the first one is before it; the pair is a
\* character.
LEMMA PairAround ==
  ASSUME NEW c, Text(c), NEW k \in DOMAIN c, StartsSequence(c[k]), ~CharStart(c, k)
  PROVE  \E h \in DOMAIN c : /\ h = k - 3 /\ CharStart(c, h) /\ Width(c, h) = 6 /\ h \in Nat /\ k \in Nat
                             /\ Between(c, k + 2) /\ SequenceLength(c[k]) = 3
<1>1. DOMAIN c = 1..Len(c) /\ Len(c) \in Nat
  BY DEF Text
<1>2. SecondHalfAt(c, k)
  BY DEF CharStart
<1>3. k > 3 /\ FirstHalfAt(c, k - 3)
  BY <1>2, TextAt
<1>4. PICK h \in DOMAIN c : h = k - 3
  BY <1>1, <1>3
<1>5. FirstHalfAt(c, h) /\ c[h] = "D" /\ c[h + 1] = "f"
  BY <1>3, <1>4 DEF FirstHalfAt
<1>6. CharStart(c, h) /\ Width(c, h) = 6
  BY <1>5 DEF CharStart, Width, StartsSequence, Continuation, SecondHalfAt
<1>7. Between(c, h + 6 - 1)
  BY <1>6, NextChar
<1>8. h + 6 - 1 = k + 2 /\ h \in Nat /\ k \in Nat
  BY <1>1, <1>4
<1>9. SequenceLength(c[k]) = 3
  BY <1>2 DEF SecondHalfAt, SequenceLength
<1> QED BY <1>4, <1>6, <1>7, <1>8, <1>9

\* A sequence that starts before an end where no sequence is cut is complete.
LEMMA SequenceEnds ==
  ASSUME NEW c, Text(c), NEW q, Uncut(c, q), NEW i \in DOMAIN c, StartsSequence(c[i]), i <= q,
         NEW m, m = SequenceLength(c[i])
  PROVE  m \in 1..3 /\ i + m <= q + 1
<1>1. /\ DOMAIN c = 1..Len(c) /\ Len(c) \in Nat /\ q \in Nat /\ q <= Len(c) /\ i \in Nat
  BY DEF Text, Uncut
<1>2. m \in 1..3
  BY DEF SequenceLength
<1>3. SUFFICES ASSUME q + 1 < i + m
               PROVE  FALSE
  BY <1>1, <1>2
<1>4. i + m <= Len(c) + 1
  BY TextAt
<1>5. PICK j \in DOMAIN c : j = q + 1
  BY <1>1, <1>2, <1>3, <1>4
<1>6. c[j] \in Continuation
  <2>1. j \in Int /\ i < j /\ j < i + m
    BY <1>1, <1>2, <1>3, <1>5
  <2> QED BY <2>1, Continued
<1>7. StartsSequence(c[j])
  <2>3. CountTo(c, q) \in Nat
    BY CountIs
  <2>1. q < Len(c) /\ CountTo(c, q) \in Nat
    BY <1>1, <1>5, <2>3
  <2>2. CountTo(c, j) = CountTo(c, q) + 1
    BY <1>5, <2>1 DEF Uncut
  <2> QED BY <1>1, <1>5, <2>1, <2>2, CountStep
<1> QED BY <1>6, <1>7 DEF StartsSequence

\* After an end where no sequence is cut a sequence starts.
LEMMA SequenceBegins ==
  ASSUME NEW c, Text(c), NEW q, Uncut(c, q), q < Len(c), NEW j, j = q + 1
  PROVE  j \in DOMAIN c /\ StartsSequence(c[j])
<1>1. /\ DOMAIN c = 1..Len(c) /\ Len(c) \in Nat /\ q \in Nat /\ q <= Len(c)
  BY DEF Text, Uncut
<1>2. j \in DOMAIN c
  BY <1>1
<1>3. CountTo(c, q) \in Nat /\ CountTo(c, j) = CountTo(c, q) + 1
  BY CountIs DEF Uncut
<1> QED BY <1>1, <1>2, <1>3, CountStep

\* Where no sequence is cut, a character is not cut or is the first half of a
\* pair.
LEMMA CutOfUncut ==
  ASSUME NEW c, Text(c), NEW r, NEW q, Between(c, r), Uncut(c, q), r <= q, NEW t, TailCuts(c, r, q, t)
  PROVE  t \in {0, 3}
<1>1. /\ DOMAIN c = 1..Len(c) /\ Len(c) \in Nat /\ q \in Nat /\ q <= Len(c) /\ r \in Nat
  BY DEF Text, Uncut, Between
<1>2. t # NoCutOff
  <2>1. SUFFICES ASSUME q = r + 1, ~Between(c, q)
                 PROVE  FALSE
    BY DEF TailCuts, NoCutOff
  <2>2. r < Len(c)
    BY <1>1, <2>1
  <2>3. CharStart(c, q)
    BY <2>1, <2>2, StartAt
  <2>4. q \in DOMAIN c /\ StartsSequence(c[q])
    BY <2>3 DEF CharStart
  <2>5. PICK m : m = SequenceLength(c[q])
    OBVIOUS
  <2>6. m \in 1..3 /\ q + m <= q + 1
    BY <1>1, <2>4, <2>5, SequenceEnds
  <2>7. m = 1
    BY <1>1, <2>6
  <2>8. Width(c, q) = 1
    BY <2>5, <2>7 DEF SequenceLength, Width
  <2>9. Between(c, q + 1 - 1)
    BY <2>3, <2>8, CharEnds
  <2> QED BY <1>1, <2>1, <2>9
<1>3. /\ t \in 0..5 /\ t <= q - r /\ Between(c, q - t)
      /\ \A y \in Int : q - t < y /\ y <= q => ~Between(c, y)
  BY <1>2 DEF TailCuts
<1>4. CASE Between(c, q)
  <2>1. ~(q - t < q)
    BY <1>1, <1>3, <1>4
  <2> QED BY <1>1, <1>3, <2>1
<1>5. CASE ~Between(c, q)
  <2>1. q < Len(c)
    BY <1>1, <1>5, AtTheEnds
  <2>2. PICK j : j = q + 1
    OBVIOUS
  <2>3. j \in DOMAIN c /\ StartsSequence(c[j])
    BY <2>1, <2>2, SequenceBegins
  <2>4. ~CharStart(c, j)
    <3>1. q = j - 1
      BY <1>1, <2>2
    <3> QED BY <1>5, <3>1, BetweenAt
  <2>5. PICK h \in DOMAIN c : h = j - 3 /\ CharStart(c, h) /\ Width(c, h) = 6 /\ h \in Nat
    BY <2>3, <2>4, PairAround
  <2>6. PICK e \in Int : e = q - 3
    BY <1>1
  <2>7. h = q - 2 /\ e = h - 1
    BY <1>1, <2>2, <2>5, <2>6
  <2>8. Between(c, e)
    BY <2>5, <2>7, BetweenAt
  <2>9. PICK g \in Int : g = q - t
    BY <1>1, <1>3
  <2>10. ~(h <= g /\ g + 1 < h + 6)
    BY <1>3, <2>5, <2>9, NotInside
  <2>11. ~(g < e)
    BY <1>1, <1>3, <2>6, <2>8, <2>9
  <2> QED BY <1>1, <1>3, <2>6, <2>7, <2>9, <2>10, <2>11
<1> QED BY <1>4, <1>5

-----------------------------------------------------------------------------
(* The handles.                                                            *)

\* The first p bytes are the first u units.
Counted(p, u) ==
  /\ kind = "NCLOB" => Uncut(content, p) /\ u = CountTo(content, p)
  /\ kind # "NCLOB" => p \in 0..Len(content) /\ u = p

\* PositionOf by the kind of the LOB.
LEMMA PositionOfUnits ==
  ASSUME NEW u
  PROVE  /\ kind = "NCLOB" => PositionOf(u) = Position(content, u)
         /\ kind # "NCLOB" => PositionOf(u) = Least(u, Len(content))
<1>1. {i \in DOMAIN content : StartsSequence(content[i])} = SequenceStarts(content)
  BY DEF SequenceStarts
<1> QED BY <1>1 DEF PositionOf, Position, CountTo

\* The length of a LOB in units.
LEMMA UnitsAre ==
  ASSUME Text(content)
  PROVE  UnitsOf(content) \in Nat
<1>1. Part(content, 0, Len(content), SubSeq(content, 1, Len(content)))
  BY DEF Part, Text
<1>2. SequenceCount(content) \in Nat
  BY <1>1, CountOfPart, PartWhole
<1> QED BY <1>2 DEF UnitsOf, Text

\* A chunk begins where the one before it ended and has at most the number of
\* units that was asked for; units of NCLOBs have at most three bytes.
LEMMA ChunkIs ==
  ASSUME Text(content), NEW p, NEW u, Counted(p, u), NEW n \in Nat, NEW b, b = Chunk(u, n)
  PROVE  \E q : /\ Part(content, p, q, b)
                /\ kind = "NCLOB" => Uncut(content, q) /\ CountTo(content, q) = u + SequenceCount(b)
                /\ kind = "NCLOB" => q - p <= n * 3
                /\ kind # "NCLOB" => q - p <= n
<1>1. Len(content) \in Nat /\ p \in Nat /\ p <= Len(content)
  BY DEF Text, Counted, Uncut
<1>2. CASE kind = "NCLOB"
  <2>1. Uncut(content, p) /\ u = CountTo(content, p)
    BY <1>2 DEF Counted
  <2>2. PositionOf(u) = p
    BY <1>2, <2>1, ChunkIsUncut, PositionOfUnits
  <2>3. PICK q : q = Position(content, u + n) /\ p <= q /\ Uncut(content, q) /\ CountTo(content, q) <= u + n
    BY <2>1, ChunkIsUncut
  <2>4. PositionOf(u + n) = q
    BY <1>2, <2>3, PositionOfUnits
  <2>5. q \in Nat /\ q <= Len(content) /\ b = SubSeq(content, p + 1, q)
    BY <1>1, <2>2, <2>3, <2>4 DEF Chunk, Uncut
  <2>6. Part(content, p, q, b)
    BY <1>1, <2>3, <2>5 DEF Part
  <2>7. CountTo(content, q) = u + SequenceCount(b)
    BY <2>1, <2>6, CountOfPart
  <2>8. q - p <= 3 * (CountTo(content, q) - CountTo(content, p))
    BY <1>1, <2>1, <2>3, <2>5, BytesPerSequence
  <2>9. PICK v : v = CountTo(content, q)
    OBVIOUS
  <2>10. u \in Nat /\ v \in Nat /\ v <= u + n /\ q - p <= 3 * (v - u)
    BY <2>1, <2>3, <2>8, <2>9, CountIs
  <2>11. q - p <= n * 3
    BY <1>1, <2>5, <2>10
  <2> QED BY <1>2, <2>3, <2>6, <2>7, <2>11
<1>3. CASE kind # "NCLOB"
  <2>1. u = p
    BY <1>3 DEF Counted
  <2>2. PositionOf(u) = p
    BY <1>1, <1>3, <2>1, PositionOfUnits DEF Least
  <2>3. PICK q : q = PositionOf(u + n)
    OBVIOUS
  <2>4. q = Least(u + n, Len(content))
    BY <1>3, <2>3, PositionOfUnits
  <2>5. q \in Nat /\ p <= q /\ q <= Len(content) /\ q - p <= n
    BY <1>1, <2>1, <2>4 DEF Least
  <2>6. Part(content, p, q, b)
    BY <1>1, <2>2, <2>3, <2>5 DEF Part, Chunk
  <2> QED BY <1>3, <2>5, <2>6
<1> QED BY <1>2, <1>3

\* What TailOf computes for a part that begins between two characters.
LEMMA TailIs ==
  ASSUME NEW p, NEW q, NEW b, Part(content, p, q, b), kind # "BLOB" => Between(content, p)
  PROVE  /\ kind = "BLOB" => TailOf(b) = 0
         /\ kind # "BLOB" => TailCuts(content, p, q, TailOf(b))
BY TailOfText DEF TailOf

\* Numbers of bytes that are cut off.
LEMMA CutIs ==
  ASSUME NEW p, NEW q, NEW b, Part(content, p, q, b), kind # "BLOB" => Between(content, p),
         NEW t, t = TailOf(b), t # NoCutOff
  PROVE  /\ t \in 0..5 /\ t <= Len(b)
         /\ kind # "BLOB" => Between(content, q - t)
         /\ q = Len(content) => t = 0
<1>1. /\ Text(content) /\ p \in Nat /\ q \in Nat /\ p <= q /\ q <= Len(content) /\ Len(b) = q - p
  BY PartIs
<1>2. CASE kind = "BLOB"
  BY <1>1, <1>2, TailIs
<1>3. CASE kind # "BLOB"
  <2>1. /\ t \in 0..5 /\ t <= q - p /\ Between(content, q - t)
        /\ \A y \in Int : q - t < y /\ y <= q => ~Between(content, y)
    BY <1>3, TailIs DEF TailCuts
  <2>2. q = Len(content) => Between(content, q)
    BY <1>1, AtTheEnds
  <2>3. Between(content, q) => ~(q - t < q)
    BY <1>1, <2>1
  <2> QED BY <1>1, <2>1, <2>2, <2>3
<1> QED BY <1>2, <1>3

-----------------------------------------------------------------------------
(* The inductive invariant.                                                *)

LobTypes ==
  /\ kind \in {"BLOB", "CLOB", "NCLOB"} /\ Text(content)
  /\ op \in {"none", "read", "into", "gone"} /\ (op = "read" => want \in BufferSizes /\ want <= widest)
  /\ complete \in BOOLEAN /\ maxBufLen \in Nat /\ widest \in Nat

\* acc counts what was fetched, Offset is the same in units; the tail is part of
\* the buffer as long as it is looked at.
Fetched ==
  /\ complete <=> acc = Len(content)
  /\ Counted(acc, Offset)
  /\ tail \in 0..5 /\ tail <= LargestTail /\ (~complete => tail <= Len(buffer))

\* What was read and what is buffered are what was fetched, and for text what
\* was read ends between two characters.
Streamed ==
  \E d : /\ Part(content, 0, d, delivered) /\ Part(content, d, acc, buffer)
         /\ kind # "BLOB" => Between(content, d)

\* A buffer of this length is one chunk and, if something was read, less than n
\* bytes and the largest tail.
FitsWith(length, n) ==
  /\ kind = "NCLOB" => length <= LobReadLength * 3 + (IF n = 0 THEN 0 ELSE n - 1 + 3)
  /\ kind = "CLOB" => length <= LobReadLength + (IF n = 0 THEN 0 ELSE n - 1 + 5)
  /\ kind = "BLOB" => length <= LobReadLength + (IF n = 0 THEN 0 ELSE n - 1 + 0)
Bounded == op \in {"none", "read"} => FitsWith(maxBufLen, widest)

\* The results that say that everything was read.
Answered ==
  /\ op = "none" /\ result = Result("ok", 0) => delivered = content
  /\ result.outcome = "whole" => op = "gone" /\ delivered = content

LobInv == LobTypes /\ Fetched /\ Streamed /\ Bounded /\ Answered

\* The reader's buffers have room for a character.
RoomForACharacter == BufferSizes # {} /\ \A n \in BufferSizes : n >= 6

\* Results differ where their outcomes or sizes do.
LEMMA ResultIs ==
  /\ \A outcome, size : Result(outcome, size).outcome = outcome
  /\ Result("err", 0) # Result("ok", 0) /\ Result("none", 0) # Result("ok", 0)
  /\ \A outcome, size : outcome = "whole" => Result(outcome, size) # Result("ok", 0)
  /\ \A size : size # 0 => Result("ok", size) # Result("ok", 0)
BY DEF Result

\* What fits with a buffer fits with a wider one.
LEMMA FitsWithWider ==
  ASSUME NEW length \in Nat, NEW m \in Nat, NEW n \in Nat, m <= n, LobReadLength \in Nat, FitsWith(length, m)
  PROVE  FitsWith(length, n)
BY DEF FitsWith

\* The tail of a part of the LOB that ends where a chunk can end.
LEMMA TailIsSmall ==
  ASSUME kind \in {"BLOB", "CLOB", "NCLOB"}, NEW p, NEW q, NEW u, NEW b, Part(content, p, q, b), p <= q,
         kind # "BLOB" => Between(content, p), Counted(q, u), NEW t, t = TailOf(b), t # NoCutOff
  PROVE  t <= LargestTail
<1>1. t \in 0..5 /\ Text(content)
  BY CutIs, PartIs
<1>2. CASE kind = "BLOB"
  BY <1>2, TailIs DEF LargestTail
<1>3. CASE kind = "CLOB"
  BY <1>1, <1>3 DEF LargestTail
<1>4. CASE kind = "NCLOB"
  <2>1. Uncut(content, q) /\ Between(content, p) /\ TailCuts(content, p, q, t)
    BY <1>4, TailIs DEF Counted
  <2>2. t \in {0, 3}
    BY <1>1, <2>1, CutOfUncut
  <2> QED BY <1>4, <2>2 DEF LargestTail
<1> QED BY <1>2, <1>3, <1>4

\* The first chunk comes with the row.
LEMMA InitLob ==
  ASSUME Init, RoomForACharacter
  PROVE  LobInv
<1>1. kind \in {"BLOB", "CLOB", "NCLOB"} /\ Text(content) /\ LobReadLength \in Nat /\ BufferSizes \subseteq Nat
  BY ConstantsAssumption DEF Init, Text
<1>2. Len(content) \in Nat
  BY <1>1 DEF Text
<1>3. PICK units \in 0..Least(LobReadLength, UnitsOf(content)) : buffer = Chunk(0, units)
  BY DEF Init
<1>4. units \in Nat /\ units <= LobReadLength
  BY <1>1, <1>3, UnitsAre DEF Least
<1>5. Counted(0, 0)
  BY <1>1, <1>2, AtTheEnds, CountOfNone DEF Counted
<1>6. PICK q : /\ Part(content, 0, q, buffer)
               /\ kind = "NCLOB" => Uncut(content, q) /\ CountTo(content, q) = 0 + SequenceCount(buffer)
               /\ kind = "NCLOB" => q - 0 <= units * 3
               /\ kind # "NCLOB" => q - 0 <= units
  BY <1>1, <1>3, <1>4, <1>5, ChunkIs
<1>7. q \in Nat /\ q <= Len(content) /\ Len(buffer) = q /\ acc = q
  <2>1. Len(buffer) = q - 0 /\ q \in Nat /\ q <= Len(content)
    BY <1>6, PartIs
  <2> QED BY <2>1 DEF Init
<1>8. Between(content, 0) /\ tail = TailOf(buffer) /\ tail # NoCutOff
  BY <1>1, AtTheEnds DEF Init
<1>9. LobTypes
  BY <1>1, <1>7 DEF Init, LobTypes
<1>10. Fetched
  <2>1. complete <=> acc = Len(content)
    BY <1>6, <1>7, PartWhole DEF Init
  <2>2. Counted(acc, Offset)
    <3>1. SequenceCount(buffer) \in Nat
      BY <1>6, CountOfPart
    <3>2. accChars = SequenceCount(buffer)
      BY DEF Init
    <3> QED BY <1>2, <1>6, <1>7, <3>1, <3>2 DEF Counted, Offset
  <2>3. tail \in 0..5 /\ tail <= Len(buffer)
    BY <1>6, <1>8, CutIs
  <2>4. tail <= LargestTail
    <3>1. Counted(q, Offset) /\ 0 <= q
      BY <1>7, <2>2
    <3> QED BY <1>1, <1>6, <1>8, <3>1, TailIsSmall
  <2> QED BY <2>1, <2>2, <2>3, <2>4 DEF Fetched
<1>11. Streamed
  <2>1. Part(content, 0, 0, delivered)
    BY <1>1, <1>2, PartOfNone DEF Init
  <2> QED BY <1>6, <1>7, <1>8, <2>1 DEF Streamed
<1>12. Bounded
  <2>1. maxBufLen = q /\ widest = 0
    BY <1>7 DEF Init
  <2>2. FitsWith(maxBufLen, widest)
    BY <1>1, <1>4, <1>6, <1>7, <2>1 DEF FitsWith
  <2> QED BY <2>2 DEF Bounded
<1>13. Answered
  BY ResultIs DEF Init, Answered
<1> QED BY <1>9, <1>10, <1>11, <1>12, <1>13 DEF LobInv

\* The steps that leave the buffer as it is.
LEMMA CallsLob ==
  ASSUME LobInv, Into \/ FetchFails \/ (\E n \in BufferSizes : Read(n))
                 \/ (\E offset, length : ReadSlice(offset, length)) \/ UNCHANGED vars
  PROVE  LobInv'
<1>1. UNCHANGED <<kind, content, complete, buffer, tail, acc, accChars, maxBufLen, delivered>>
  BY DEF Into, FetchFails, Read, ReadSlice, vars, lob, fetched, state
<1>2. LobTypes' /\ widest <= widest'
  <2>1. CASE \E n \in BufferSizes : Read(n)
    <3>1. PICK n \in BufferSizes : Read(n)
      BY <2>1
    <3>2. n \in Nat /\ widest \in Nat
      BY ConstantsAssumption DEF LobInv, LobTypes
    <3>3. widest' = Greatest(widest, n) /\ want' = n /\ op' = "read"
      BY <3>1 DEF Read
    <3>4. widest' \in Nat /\ n <= widest' /\ widest <= widest'
      BY <3>2, <3>3 DEF Greatest
    <3> QED BY <1>1, <3>3, <3>4 DEF LobInv, LobTypes
  <2>2. CASE ~(\E n \in BufferSizes : Read(n))
    <3>1. widest' = widest /\ widest \in Nat
      BY <2>2 DEF Into, FetchFails, ReadSlice, vars, call, Return, LobInv, LobTypes
    <3> QED BY <1>1, <2>2, <3>1 DEF LobInv, LobTypes, Into, FetchFails, ReadSlice, vars, call, Return
  <2> QED BY <2>1, <2>2
<1>3. Fetched'
  BY <1>1 DEF LobInv, Fetched, Counted, Offset, LargestTail
<1>4. Streamed'
  BY <1>1 DEF LobInv, Streamed
<1>5. Bounded'
  <2>1. SUFFICES ASSUME op' \in {"none", "read"}
                 PROVE  FitsWith(maxBufLen, widest')
    BY <1>1 DEF Bounded, FitsWith
  <2>2. op \in {"none", "read"}
    BY <2>1 DEF Into, FetchFails, NeedsMore, Reading, Read, ReadSlice, vars, call, Return
  <2>3. FitsWith(maxBufLen, widest)
    BY <2>2 DEF LobInv, Bounded
  <2>4. widest \in Nat /\ widest' \in Nat /\ maxBufLen \in Nat /\ LobReadLength \in Nat
    BY <1>2, ConstantsAssumption DEF LobInv, LobTypes
  <2> QED BY <1>2, <2>3, <2>4, FitsWithWider
<1>6. Answered'
  BY <1>1, ResultIs DEF LobInv, Answered, Into, FetchFails, Read, ReadSlice, vars, call, Return
<1> QED BY <1>2, <1>3, <1>4, <1>5, <1>6 DEF LobInv

\* A chunk is appended to the buffer.
LEMMA FetchLob ==
  ASSUME LobInv, FetchNextChunk
  PROVE  LobInv'
<1>1. /\ LobReadLength \in Nat \ {0} /\ U32 \in Nat \ {0} /\ BufferSizes \subseteq Nat
  BY ConstantsAssumption
<1>2. LobTypes /\ Fetched /\ Streamed /\ Bounded /\ Answered
  BY DEF LobInv
<1>3. Text(content) /\ Len(content) \in Nat /\ ~complete /\ op \in {"read", "into"}
  BY <1>2 DEF LobTypes, Text, FetchNextChunk, NeedsMore, Reading
<1>4. Counted(acc, Offset) /\ tail \in 0..5 /\ tail <= Len(buffer)
  BY <1>2, <1>3 DEF Fetched
<1>5. PICK d : /\ Part(content, 0, d, delivered) /\ Part(content, d, acc, buffer)
               /\ kind # "BLOB" => Between(content, d)
  BY <1>2 DEF Streamed
<1>6. PICK length \in (IF ReadLength = 0 THEN {0} ELSE 1..ReadLength) :
        \E data \in {Chunk(Offset, length)} : \E newBuffer \in {buffer \o data} :
        \E newTail \in {TailOf(newBuffer)} :
          /\ buffer' = newBuffer
          /\ acc' = acc + Len(data) /\ accChars' = accChars + SequenceCount(data)
          /\ \/ /\ newTail = NoCutOff
                /\ Return(Result("err", 0)) /\ UNCHANGED state
             \/ /\ newTail # NoCutOff
                /\ tail' = newTail
                /\ complete' = (acc + Len(data) = Len(content))
                /\ maxBufLen' = Greatest(maxBufLen, Len(newBuffer))
                /\ UNCHANGED call
  BY DEF FetchNextChunk
<1>7. PICK data : /\ data = Chunk(Offset, length)
                  /\ \E newBuffer \in {buffer \o data} :
                     \E newTail \in {TailOf(newBuffer)} :
                       /\ buffer' = newBuffer
                       /\ acc' = acc + Len(data) /\ accChars' = accChars + SequenceCount(data)
                       /\ \/ /\ newTail = NoCutOff
                             /\ Return(Result("err", 0)) /\ UNCHANGED state
                          \/ /\ newTail # NoCutOff
                             /\ tail' = newTail
                             /\ complete' = (acc + Len(data) = Len(content))
                             /\ maxBufLen' = Greatest(maxBufLen, Len(newBuffer))
                             /\ UNCHANGED call
  BY <1>6
<1>8. PICK newTail : /\ newTail = TailOf(buffer')
                     /\ buffer' = buffer \o data
                     /\ acc' = acc + Len(data) /\ accChars' = accChars + SequenceCount(data)
                     /\ \/ /\ newTail = NoCutOff
                           /\ Return(Result("err", 0)) /\ UNCHANGED state
                        \/ /\ newTail # NoCutOff
                           /\ tail' = newTail
                           /\ complete' = (acc + Len(data) = Len(content))
                           /\ maxBufLen' = Greatest(maxBufLen, Len(buffer'))
                           /\ UNCHANGED call
  BY <1>7
<1>9. UNCHANGED <<kind, content, delivered, slice, faults>>
  BY DEF FetchNextChunk, lob
<1>10. length \in Nat /\ length <= LobReadLength
  <2>1. Offset \in Nat
    <3>1. acc \in Nat
      BY <1>5, PartIs
    <3> QED BY <1>3, <1>4, <3>1, CountIs DEF Counted
  <2>2. PICK left \in Int : left = UnitsOf(content) - Offset
    BY <1>3, <2>1, UnitsAre
  <2>3. left % U32 \in Nat
    BY <1>1, <2>2
  <2>4. ReadLength \in Nat /\ ReadLength <= LobReadLength
    BY <1>1, <2>2, <2>3 DEF ReadLength, Left, Least
  <2> QED BY <1>1, <1>6, <2>4
<1>11. PICK q : /\ Part(content, acc, q, data)
                /\ kind = "NCLOB" => Uncut(content, q) /\ CountTo(content, q) = Offset + SequenceCount(data)
                /\ kind = "NCLOB" => q - acc <= length * 3
                /\ kind # "NCLOB" => q - acc <= length
  BY <1>3, <1>4, <1>7, <1>10, ChunkIs
<1>12. Part(content, d, q, buffer')
  BY <1>5, <1>8, <1>11, PartJoin
<1>13. /\ acc \in Nat /\ q \in Nat /\ acc <= q /\ q <= Len(content) /\ d \in Nat /\ d <= acc
       /\ Len(data) = q - acc /\ Len(buffer) = acc - d /\ Len(buffer') = q - d
  <2>1. acc \in Nat /\ q \in Nat /\ acc <= q /\ q <= Len(content) /\ Len(data) = q - acc
    BY <1>11, PartIs
  <2>2. d \in Nat /\ d <= acc /\ Len(buffer) = acc - d
    BY <1>5, PartIs
  <2>3. Len(buffer') = q - d
    BY <1>12, PartIs
  <2> QED BY <2>1, <2>2, <2>3
<1>14. acc' = q
  BY <1>8, <1>13
<1>15. Counted(acc, Offset)'
  <2>1. CASE kind = "NCLOB"
    BY <1>8, <1>9, <1>11, <1>14, <2>1 DEF Counted, Offset
  <2>2. CASE kind # "NCLOB"
    BY <1>9, <1>13, <1>14, <2>2 DEF Counted, Offset
  <2> QED BY <2>1, <2>2
<1>16. Streamed'
  BY <1>5, <1>9, <1>12, <1>14 DEF Streamed
<1>17. CASE newTail = NoCutOff
  <2>1. UNCHANGED <<complete, tail, maxBufLen>> /\ result' = Result("err", 0) /\ UNCHANGED <<want, widest>>
        /\ op' = IF op = "into" THEN "gone" ELSE "none"
    BY <1>8, <1>17 DEF state, Return, NoCutOff
  <2>2. q # Len(content)
    <3>3. TailOf(buffer') = NoCutOff
      BY <1>8, <1>17
    <3>4. NoCutOff # 0
      BY DEF NoCutOff
    <3>5. /\ kind = "BLOB" => TailOf(buffer') = 0
          /\ kind # "BLOB" => TailCuts(content, d, q, TailOf(buffer'))
      BY <1>5, <1>12, TailIs
    <3>1. kind # "BLOB" /\ TailCuts(content, d, q, NoCutOff)
      BY <3>3, <3>4, <3>5
    <3>2. ~Between(content, q)
      BY <3>1 DEF TailCuts, NoCutOff
    <3> QED BY <1>3, <3>2, AtTheEnds
  <2>3. Fetched'
    <3>1. tail <= LargestTail /\ LargestTail' = LargestTail
      BY <1>2, <1>9 DEF Fetched, LargestTail
    <3> QED BY <1>3, <1>4, <1>9, <1>13, <1>14, <1>15, <2>1, <2>2, <3>1 DEF Fetched
  <2>4. LobTypes'
    BY <1>2, <1>9, <2>1 DEF LobTypes
  <2>5. Bounded'
    BY <1>2, <1>3, <1>9, <2>1 DEF Bounded, FitsWith
  <2>6. Answered'
    BY <2>1, ResultIs DEF Answered
  <2> QED BY <1>16, <2>3, <2>4, <2>5, <2>6 DEF LobInv
<1>18. CASE newTail # NoCutOff
  <2>1. /\ tail' = newTail /\ complete' = (q = Len(content)) /\ UNCHANGED <<op, want, widest, result>>
        /\ maxBufLen' = Greatest(maxBufLen, q - d)
    BY <1>8, <1>13, <1>18 DEF call
  <2>2. tail' \in 0..5 /\ tail' <= Len(buffer')
    BY <1>5, <1>8, <1>12, <1>18, <2>1, CutIs
  <2>3. Fetched'
    <3>1. Counted(q, Offset')
      BY <1>9, <1>14, <1>15 DEF Counted
    <3>2. kind \in {"BLOB", "CLOB", "NCLOB"} /\ d <= q
      BY <1>2, <1>13 DEF LobTypes
    <3>3. newTail = TailOf(buffer') /\ newTail # NoCutOff
      BY <1>8, <1>18
    <3>4. newTail <= LargestTail
      BY <1>5, <1>12, <3>1, <3>2, <3>3, TailIsSmall
    <3>5. tail' <= LargestTail'
      BY <1>9, <2>1, <3>4 DEF LargestTail
    <3> QED BY <1>9, <1>14, <1>15, <2>1, <2>2, <3>5 DEF Fetched
  <2>4. LobTypes'
    BY <1>2, <1>9, <1>13, <2>1 DEF LobTypes, Greatest
  <2>5. Bounded'
    <3>1. SUFFICES ASSUME op = "read"
                   PROVE  FitsWith(maxBufLen', widest)
      BY <1>3, <1>9, <2>1 DEF Bounded, FitsWith
    <3>2. /\ want \in Nat /\ widest \in Nat /\ want <= widest /\ want > Len(buffer) - tail
          /\ kind \in {"BLOB", "CLOB", "NCLOB"}
      BY <1>1, <1>2, <3>1 DEF LobTypes, FetchNextChunk, NeedsMore
    <3>3. CASE maxBufLen' = maxBufLen
      BY <1>2, <3>1, <3>3 DEF Bounded
    <3>4. CASE maxBufLen' = q - d
      <4>1. /\ kind = "NCLOB" => tail <= 3
            /\ kind = "CLOB" => tail <= 5
            /\ kind = "BLOB" => tail <= 0
        BY <1>2 DEF Fetched, LargestTail
      <4>2. q - d = (q - acc) + (acc - d) /\ acc - d <= widest - 1 + tail /\ widest # 0
        BY <1>4, <1>13, <3>2
      <4>3. q - d \in Nat /\ q - acc \in Nat /\ acc - d \in Nat
        BY <1>13
      <4>4. CASE kind = "NCLOB"
        <5>1. q - acc <= LobReadLength * 3 /\ acc - d <= widest - 1 + 3
          BY <1>1, <1>4, <1>10, <1>11, <3>2, <4>1, <4>2, <4>3, <4>4
        <5> QED BY <1>1, <3>2, <3>4, <4>2, <4>3, <4>4, <5>1 DEF FitsWith
      <4>5. CASE kind # "NCLOB"
        <5>1. q - acc <= LobReadLength
          BY <1>1, <1>10, <1>11, <4>3, <4>5
        <5>2. (kind = "CLOB" => acc - d <= widest - 1 + 5) /\ (kind = "BLOB" => acc - d <= widest - 1 + 0)
          BY <1>4, <3>2, <4>1, <4>2, <4>3
        <5> QED BY <1>1, <3>2, <3>4, <4>2, <4>3, <4>5, <5>1, <5>2 DEF FitsWith
      <4> QED BY <4>4, <4>5
    <3> QED BY <2>1, <3>3, <3>4 DEF Greatest
  <2>6. Answered'
    BY <1>2, <1>3, <1>9, <2>1 DEF Answered
  <2> QED BY <1>16, <2>3, <2>4, <2>5, <2>6 DEF LobInv
<1> QED BY <1>17, <1>18

\* into_bytes and into_string give what is left.
LEMMA IntoRestLob ==
  ASSUME LobInv, IntoRest
  PROVE  LobInv'
<1>1. LobTypes /\ Fetched /\ Streamed
  BY DEF LobInv
<1>2. op = "into" /\ complete /\ UNCHANGED <<kind, content, complete, tail, acc, accChars, maxBufLen, want, widest>>
  BY DEF IntoRest, NeedsMore, Reading, lob, state, Return
<1>3. Text(content) /\ acc = Len(content)
  BY <1>1, <1>2 DEF LobTypes, Fetched
<1>4. PICK d : /\ Part(content, 0, d, delivered) /\ Part(content, d, acc, buffer)
               /\ kind # "BLOB" => Between(content, d)
  BY <1>1 DEF Streamed
<1>5. Between(content, acc)
  BY <1>3, AtTheEnds
<1>6. kind # "BLOB" => IsText(buffer)
  BY <1>4, <1>5, TextOfPart
<1>7. /\ delivered' = delivered \o buffer /\ buffer' = << >>
      /\ op' = "gone" /\ result' = Result("whole", Len(buffer))
  BY <1>2, <1>6 DEF IntoRest, Return
<1>8. Part(content, 0, acc, delivered')
  BY <1>4, <1>7, PartJoin
<1>9. acc \in Nat
  BY <1>4, PartIs
<1>10. Part(content, acc, acc, << >>)
  BY <1>3, <1>9, PartOfNone
<1>11. delivered' = content
  BY <1>3, <1>8, PartWhole
<1>12. LobTypes'
  BY <1>1, <1>2, <1>7 DEF LobTypes
<1>13. Fetched'
  BY <1>1, <1>2 DEF Fetched, Counted, Offset, LargestTail
<1>14. Streamed'
  BY <1>2, <1>5, <1>7, <1>8, <1>10 DEF Streamed
<1>15. Bounded' /\ Answered'
  BY <1>2, <1>7, <1>11 DEF Bounded, Answered
<1> QED BY <1>12, <1>13, <1>14, <1>15 DEF LobInv

\* read takes as many characters as fit, and something if there is something.
LEMMA ReadRestLob ==
  ASSUME LobInv, ReadRest, RoomForACharacter
  PROVE  LobInv'
<1>1. LobTypes /\ Fetched /\ Streamed /\ Bounded
  BY DEF LobInv
<1>2. op = "read" /\ (~complete => ~(want > Len(buffer) - tail))
      /\ UNCHANGED <<kind, content, complete, tail, acc, accChars, maxBufLen>>
  BY DEF ReadRest, NeedsMore, Reading, lob, state
<1>3. Text(content) /\ Len(content) \in Nat
  BY <1>1 DEF LobTypes, Text
<1>4. want \in BufferSizes /\ want \in Nat /\ want >= 6
  BY <1>1, <1>2, ConstantsAssumption DEF LobTypes, RoomForACharacter
<1>5. PICK d : /\ Part(content, 0, d, delivered) /\ Part(content, d, acc, buffer)
               /\ kind # "BLOB" => Between(content, d)
  BY <1>1 DEF Streamed
<1>6. d \in Nat /\ acc \in Nat /\ d <= acc /\ acc <= Len(content) /\ Len(buffer) = acc - d
  BY <1>5, PartIs
<1>7. PICK k : k = Least(want, Len(buffer))
  OBVIOUS
<1>8. k \in 0..Len(buffer) /\ (k = want \/ k = acc - d) /\ k <= want
  BY <1>4, <1>6, <1>7 DEF Least
<1>9. PICK cut : /\ cut = TailOf(SubSeq(buffer, 1, k))
                 /\ ReadRest
  OBVIOUS
<1>10. PICK drained : drained = SubSeq(buffer, 1, k)
  OBVIOUS
<1>11. \/ /\ cut = NoCutOff
          /\ buffer' = SubSeq(buffer, Len(drained) + 1, Len(buffer))
          /\ Return(Result("err", 0)) /\ UNCHANGED delivered
       \/ /\ cut # NoCutOff
          /\ buffer' = SubSeq(buffer, Len(drained) - cut + 1, Len(buffer))
          /\ delivered' = delivered \o SubSeq(drained, 1, Len(drained) - cut)
          /\ Return(Result("ok", Len(drained) - cut))
  BY <1>7, <1>9, <1>10 DEF ReadRest, Remaining
<1>12. PICK q \in Nat : q = d + k
  BY <1>6, <1>8
<1>13. Part(content, d, q, drained)
  BY <1>5, <1>8, <1>10, <1>12, PartFirst
<1>14. q <= Len(content) /\ d <= q /\ Len(drained) = k
  <2>1. q <= Len(content) /\ d <= q /\ Len(drained) = q - d
    BY <1>13, PartIs
  <2> QED BY <1>6, <1>8, <1>12, <2>1
<1>15. complete => acc = Len(content)
  BY <1>1 DEF Fetched
<1>16. tail \in 0..5
  BY <1>1 DEF Fetched
\* Either a whole buffer can be given, or everything that is left.
<1>17. k = want \/ q = Len(content)
  <2>1. CASE complete
    BY <1>6, <1>8, <1>12, <1>15, <2>1
  <2>2. CASE ~complete
    BY <1>2, <1>4, <1>6, <1>8, <1>16, <2>2
  <2> QED BY <2>1, <2>2
<1>18. cut # NoCutOff
  <2>1. SUFFICES ASSUME cut = NoCutOff
                 PROVE  FALSE
    OBVIOUS
  <2>2. kind # "BLOB" /\ TailCuts(content, d, q, NoCutOff)
    BY <1>5, <1>9, <1>10, <1>13, <2>1, TailIs DEF NoCutOff
  <2>3. q = d + 1 /\ ~Between(content, q)
    BY <2>2 DEF TailCuts, NoCutOff
  <2>4. q # Len(content)
    BY <1>3, <2>3, AtTheEnds
  <2> QED BY <1>4, <1>6, <1>8, <1>12, <1>17, <2>3, <2>4
<1>19. /\ cut \in 0..5 /\ cut <= k /\ (kind # "BLOB" => Between(content, q - cut))
       /\ q = Len(content) => cut = 0
  <2>1. cut = TailOf(drained)
    BY <1>9, <1>10
  <2>2. /\ cut \in 0..5 /\ cut <= Len(drained) /\ (kind # "BLOB" => Between(content, q - cut))
        /\ q = Len(content) => cut = 0
    BY <1>5, <1>13, <1>18, <2>1, CutIs
  <2> QED BY <1>14, <2>2
<1>20. PICK size \in Nat : size = k - cut
  BY <1>8, <1>6, <1>19
<1>21. PICK e \in Nat : e = d + size
  BY <1>6
<1>22. /\ buffer' = SubSeq(buffer, size + 1, Len(buffer))
       /\ delivered' = delivered \o SubSeq(drained, 1, size)
       /\ result' = Result("ok", size) /\ op' = "none" /\ want' = want /\ widest' = widest
  <2>1. Len(drained) - cut = size
    BY <1>14, <1>20
  <2> QED BY <1>2, <1>11, <1>18, <2>1 DEF Return
<1>23. size \in 0..Len(buffer) /\ size \in 0..Len(drained) /\ q - cut = e
  BY <1>6, <1>8, <1>12, <1>14, <1>19, <1>20, <1>21
<1>24. Part(content, e, acc, buffer')
  BY <1>5, <1>21, <1>22, <1>23, PartRest
<1>25. Part(content, 0, e, delivered')
  <2>1. Part(content, d, e, SubSeq(drained, 1, size))
    BY <1>13, <1>21, <1>23, PartFirst
  <2> QED BY <1>5, <1>22, <2>1, PartJoin
<1>26. kind # "BLOB" => Between(content, e)
  BY <1>19, <1>23
<1>27. Streamed'
  BY <1>2, <1>24, <1>25, <1>26 DEF Streamed
<1>28. Fetched'
  <2>1. Len(buffer') = acc - e
    BY <1>24, PartIs
  <2>2. ~complete => tail <= Len(buffer')
    BY <1>2, <1>4, <1>6, <1>8, <1>16, <1>19, <1>20, <1>21, <2>1
  <2> QED BY <1>1, <1>2, <2>2 DEF Fetched, Counted, Offset, LargestTail
<1>29. LobTypes' /\ Bounded'
  BY <1>1, <1>2, <1>22 DEF LobTypes, Bounded, FitsWith
<1>30. Answered'
  <2>1. ASSUME size = 0
        PROVE  delivered' = content
    <3>1. e = Len(content)
      BY <1>4, <1>6, <1>8, <1>12, <1>17, <1>19, <1>20, <1>21, <2>1
    <3> QED BY <1>25, <3>1, PartWhole
  <2> QED BY <1>2, <1>22, <2>1, ResultIs DEF Answered
<1> QED BY <1>27, <1>28, <1>29, <1>30 DEF LobInv

-----------------------------------------------------------------------------
(* The theorems.                                                           *)

\* The invariant holds if every buffer of the reader has room for a character.
THEOREM LobInvariant ==
  ASSUME RoomForACharacter
  PROVE  Spec => []LobInv
<1>1. Init => LobInv
  BY InitLob
<1>2. LobInv /\ [Next]_vars => LobInv'
  <2> SUFFICES ASSUME LobInv, [Next]_vars
               PROVE  LobInv'
    OBVIOUS
  <2>1. CASE FetchNextChunk
    BY <2>1, FetchLob
  <2>2. CASE ReadRest
    BY <2>2, ReadRestLob
  <2>3. CASE IntoRest
    BY <2>3, IntoRestLob
  <2>4. CASE Into \/ FetchFails \/ (\E n \in BufferSizes : Read(n))
             \/ (\E offset, length : ReadSlice(offset, length)) \/ UNCHANGED vars
    BY <2>4, CallsLob
  <2> QED BY <2>1, <2>2, <2>3, <2>4 DEF Next, Step
<1> QED BY <1>1, <1>2, PTL DEF Spec

\* What was read, the buffer and the offset of the next fetch stay in step, for
\* contents, chunks and buffers of every size; Ok(0) is the end of the content.
THEOREM ReadsLoseNothing ==
  ASSUME RoomForACharacter
  PROVE  Spec => []NothingIsLost
<1>1. LobInv => NothingIsLost
  <2> SUFFICES ASSUME LobInv
               PROVE  NothingIsLost
    OBVIOUS
  <2>1. PICK d : Part(content, 0, d, delivered) /\ Part(content, d, acc, buffer)
    BY DEF LobInv, Streamed
  <2>2. delivered \o buffer = SubSeq(content, 1, acc)
    <3>1. Part(content, 0, acc, delivered \o buffer)
      BY <2>1, PartJoin
    <3> QED BY <3>1, PartWhole
  <2> QED BY <2>2 DEF LobInv, Answered, NothingIsLost
<1> QED BY <1>1, LobInvariant, PTL

\* What was read from a CLOB or NCLOB is text at every moment.
THEOREM ReadsEndWithCharacters ==
  ASSUME RoomForACharacter
  PROVE  Spec => []ReadsAreText
<1>1. LobInv => ReadsAreText
  <2> SUFFICES ASSUME LobInv, kind # "BLOB"
               PROVE  IsText(delivered)
    BY DEF ReadsAreText
  <2>1. PICK d : Part(content, 0, d, delivered) /\ Between(content, d)
    BY DEF LobInv, Streamed
  <2>2. Between(content, 0)
    BY AtTheEnds DEF LobInv, LobTypes
  <2> QED BY <2>1, <2>2, TextOfPart
<1> QED BY <1>1, LobInvariant, PTL

\* A handle never buffers more than a chunk, less than the widest buffer that
\* was read into, and an incomplete character.
THEOREM BuffersAreBounded ==
  ASSUME RoomForACharacter
  PROVE  Spec => []BufferIsBounded
<1>1. LobInv => BufferIsBounded
  <2> SUFFICES ASSUME LobInv, op \in {"none", "read"}
               PROVE  /\ ~complete => tail <= Len(buffer)
                      /\ maxBufLen <= LobReadLength * UnitLength
                                        + (IF widest = 0 THEN 0 ELSE widest - 1 + LargestTail)
    BY DEF BufferIsBounded
  <2>1. ~complete => tail <= Len(buffer)
    BY DEF LobInv, Fetched
  <2>2. FitsWith(maxBufLen, widest) /\ kind \in {"BLOB", "CLOB", "NCLOB"}
    BY DEF LobInv, Bounded, LobTypes
  <2>3. LobReadLength * 1 = LobReadLength
    BY ConstantsAssumption
  <2>4. CASE kind = "NCLOB"
    <3>1. UnitLength = 3 /\ LargestTail = 3
      BY <2>4 DEF UnitLength, LargestTail
    <3> QED BY <2>1, <2>2, <2>4, <3>1 DEF FitsWith
  <2>5. CASE kind = "CLOB"
    <3>1. UnitLength = 1 /\ LargestTail = 5
      BY <2>5 DEF UnitLength, LargestTail
    <3> QED BY <2>1, <2>2, <2>3, <2>5, <3>1 DEF FitsWith
  <2>6. CASE kind = "BLOB"
    <3>1. UnitLength = 1 /\ LargestTail = 0
      BY <2>6 DEF UnitLength, LargestTail
    <3> QED BY <2>1, <2>2, <2>3, <2>6, <3>1 DEF FitsWith
  <2> QED BY <2>2, <2>4, <2>5, <2>6
<1> QED BY <1>1, LobInvariant, PTL

-----------------------------------------------------------------------------
(* Slices.                                                                 *)

\* What is said of a slice of which a was asked for: see SliceIsAnswered.
Cut(a, s) ==
  s.ok => /\ s.prefix \o s.data \o s.postfix = a
          /\ IsText(s.data)
          /\ Len(s.prefix) <= 5 /\ Len(s.postfix) <= 5

\* Nothing is said of a slice that is refused.
LEMMA FailureIsCut ==
  ASSUME NEW a
  PROVE  ~Failure.ok /\ Cut(a, Failure)
BY DEF Failure, Cut

\* cesu8_to_string_and_tail succeeds if there is a place to cut.
LEMMA SliceIs ==
  ASSUME NEW c, NEW p, NEW r, NEW q, NEW w, NEW a, NEW b, Part(c, p, q, w), Part(c, p, r, a), Part(c, r, q, b),
         Between(c, r), Len(a) <= 5, NEW s, s = SliceOf(a, b), NEW t, t = TailLen(b)
  PROVE  /\ Cut(w, s)
         /\ t # NoCutOff => s.ok /\ Len(s.postfix) = t
<1>1. TailCuts(c, r, q, t)
  BY TailOfText
<1>2. r \in Nat /\ q \in Nat /\ r <= q /\ Len(b) = q - r
  BY PartIs
<1>3. CASE t = NoCutOff
  <2>1. s = Failure
    BY <1>3 DEF SliceOf
  <2> QED BY <1>3, <2>1, FailureIsCut
<1>4. CASE t # NoCutOff
  <2>1. t \in 0..5 /\ t <= q - r /\ Between(c, q - t)
    BY <1>1, <1>4 DEF TailCuts
  <2>2. PICK k \in Nat : k = Len(b) - t
    BY <1>2, <2>1
  <2>3. PICK e \in Nat : e = r + k
    BY <1>2
  <2>4. k \in 0..Len(b) /\ e = q - t
    <3>1. Len(b) \in Nat /\ t \in Nat
      BY <1>2, <2>1
    <3>2. k <= Len(b)
      BY <2>2, <3>1
    <3>3. r \in Nat /\ q \in Nat /\ k = q - r - t
      BY <1>2, <2>2
    <3>4. e = q - t
      BY <2>3, <3>1, <3>3
    <3> QED BY <3>1, <3>2, <3>4
  <2> DEFINE data == SubSeq(b, 1, k)
             postfix == SubSeq(b, k + 1, Len(b))
  <2>5. Part(c, r, e, data) /\ Part(c, e, q, postfix)
    BY <2>3, <2>4, PartFirst, PartRest
  <2>6. IsText(data)
    BY <2>1, <2>4, <2>5, TextOfPart
  <2>7. Len(postfix) = t
    <3> HIDE DEF data, postfix
    <3>1. Len(postfix) = q - e
      BY <2>5, PartIs
    <3> QED BY <1>2, <2>1, <2>3, <2>4, <3>1
  <2>8. s = Slice(a, data, postfix)
    BY <1>4, <2>2, <2>6 DEF SliceOf
  <2> HIDE DEF data, postfix
  <2>9. Part(c, p, e, a \o data)
    BY <2>5, PartJoin
  <2>10. Part(c, p, q, (a \o data) \o postfix)
    BY <2>5, <2>9, PartJoin
  <2>11. (a \o data) \o postfix = w
    BY <2>10 DEF Part
  <2>12. s.ok /\ s.prefix = a /\ s.data = data /\ s.postfix = postfix
    BY <2>8 DEF Slice
  <2>13. t <= 5
    BY <2>1
  <2> QED BY <2>6, <2>7, <2>11, <2>12, <2>13 DEF Cut
<1> QED BY <1>3, <1>4

\* A last byte alone, of a sequence that has more, cannot be cut.
LEMMA OneByteFails ==
  ASSUME NEW a, NEW b, Len(b) = 1, b # << >>, DOMAIN b = {1}, b[1] \notin {"A", "L"}
  PROVE  SliceOf(a, b) = Failure
<1>1. CharType(b, 1) = "TooShort"
  BY DEF CharType
<1>2. Starts(b) = {}
  BY <1>1 DEF Starts, CharLength
<1>3. TailLen(b) = NoCutOff
  BY <1>2 DEF TailLen
<1> QED BY <1>3 DEF SliceOf

\* The first byte of a part that is no NotAStart is one of the first six, and
\* one of the first three if it is the second half of a pair.
LEMMA OrphansAreFew ==
  ASSUME NEW c, NEW p, NEW q, NEW b, Part(c, p, q, b), NEW first \in DOMAIN b,
         \A i \in DOMAIN b : i < first => CharType(b, i) = "NotAStart",
         NEW k, k = p + first
  PROVE  /\ first <= 6
         /\ k < q /\ StartsSequence(c[k]) /\ ~CharStart(c, k) => first <= 3
<1>1. /\ Text(c) /\ Len(c) \in Nat /\ DOMAIN c = 1..Len(c) /\ p \in Nat /\ q \in Nat /\ p <= q /\ q <= Len(c)
  BY PartIs
<1>2. /\ Len(b) = q - p /\ DOMAIN b = 1..Len(b) /\ first \in 1..Len(b)
      /\ \A j \in 1..Len(b) : p + j \in DOMAIN c
  BY PartIs
<1>3. k \in DOMAIN c /\ k \in Nat /\ p < k /\ k <= q /\ first \in Nat
  BY <1>1, <1>2
<1>4. ASSUME NEW h \in Int, p < h, h < k
      PROVE  ~CharStart(c, h)
  <2>1. PICK i \in DOMAIN b : i = h - p
    BY <1>1, <1>2, <1>3, <1>4
  <2>2. h = p + i /\ h < q /\ i < first
    BY <1>1, <1>2, <1>3, <1>4, <2>1
  <2>3. CharType(b, i) = "NotAStart"
    BY <2>2
  <2> QED BY <2>2, <2>3, TypeAt
<1>5. first <= 6
  <2>1. SUFFICES ASSUME first > 6
                 PROVE  FALSE
    BY <1>3
  <2>2. PICK o \in DOMAIN c : o = p + 1
    BY <1>1, <1>2, <1>3
  <2>3. PICK s \in DOMAIN c : CharStart(c, s) /\ s <= o /\ o < s + Width(c, s)
    BY <1>1, CharOf
  <2>4. PICK w : w = Width(c, s)
    OBVIOUS
  <2>5. w \in 1..6 /\ s \in Int /\ Between(c, s + w - 1)
    BY <1>1, <2>3, <2>4, CharEnds
  <2>6. o \in Int /\ o < k
    BY <1>1, <1>2, <1>3, <2>1, <2>2
  <2>7. s # o
    BY <1>1, <1>4, <2>2, <2>3, <2>6
  <2>8. PICK e \in Nat : e = s + w - 1
    BY <1>1, <2>3, <2>5
  <2>9. p <= e /\ e + 1 < k
    <3>1. o < s + w /\ s <= o
      BY <2>3, <2>4
    <3>2. p \in Nat /\ first \in Nat /\ k = p + first /\ o = p + 1
      BY <1>1, <1>3, <2>2
    <3>3. s \in Int /\ w \in 1..6 /\ s # o
      BY <2>5, <2>7
    <3>4. s + w <= p + 6 /\ p + 6 < k
      BY <2>1, <3>1, <3>2, <3>3
    <3> QED BY <2>8, <3>1, <3>2, <3>3, <3>4
  <2>10. e < Len(c) /\ Between(c, e) /\ p < e + 1
    BY <1>1, <1>3, <2>5, <2>8, <2>9, SMTT(60)
  <2>11. PICK h \in Int : h = e + 1
    BY <2>8
  <2>12. CharStart(c, h)
    BY <1>1, <2>10, <2>11, StartAt
  <2> QED BY <1>4, <2>9, <2>10, <2>11, <2>12
<1>6. ASSUME StartsSequence(c[k]), ~CharStart(c, k)
      PROVE  first <= 3
  <2>1. PICK h \in DOMAIN c : h = k - 3 /\ CharStart(c, h) /\ h \in Nat
    BY <1>1, <1>3, <1>6, PairAround
  <2>2. ~(p < h)
    BY <1>3, <1>4, <2>1
  <2> QED BY <1>1, <1>3, <2>1, <2>2
<1> QED BY <1>5, <1>6

\* A slice of a CLOB, wherever it begins and ends in the text.
LEMMA ClobSlice ==
  ASSUME NEW c, NEW p, NEW q, NEW b, Part(c, p, q, b), NEW s, s = SplitOffOrphanedBytes(b)
  PROVE  Cut(b, s)
<1>1. /\ Text(c) /\ Len(c) \in Nat /\ DOMAIN c = 1..Len(c) /\ \A j \in DOMAIN c : c[j] \in Byte
      /\ p \in Nat /\ q \in Nat /\ p <= q /\ q <= Len(c)
  BY PartIs
<1>2. /\ Len(b) = q - p /\ DOMAIN b = 1..Len(b) /\ (b = << >> <=> p = q)
      /\ \A j \in 1..Len(b) : b[j] = c[p + j] /\ p + j \in DOMAIN c
  BY PartIs
<1> DEFINE found == {i \in DOMAIN b : CharType(b, i) # "NotAStart"}
           first == CHOOSE i \in found : \A j \in found : i <= j
           split == IF b = << >> THEN 0
                    ELSE IF CharType(b, first) = "SecondHalfOfSurrogate" THEN first + 2
                    ELSE first - 1
<1>3. s = IF split > Len(b) THEN Failure ELSE SliceOf(SubSeq(b, 1, split), SubSeq(b, split + 1, Len(b)))
  BY DEF SplitOffOrphanedBytes
<1>4. CASE b = << >>
  <2>1. Text(<< >>) /\ Part(<< >>, 0, 0, << >>) /\ Between(<< >>, 0)
    <3>1. << >> \in Seq(Byte) /\ Len(<< >>) = 0 /\ DOMAIN << >> = {}
      OBVIOUS
    <3>2. Text(<< >>)
      BY <3>1 DEF Text, IsText
    <3>3. Part(<< >>, 0, 0, << >>)
      BY <3>1, <3>2, PartOfNone
    <3> QED BY <3>2, <3>3, AtTheEnds
  <2>2. split = 0 /\ Len(b) = 0 /\ SubSeq(b, 1, 0) = << >> /\ SubSeq(b, 0 + 1, Len(b)) = << >>
    BY <1>4, SubSeqEmpty
  <2> HIDE DEF split
  <2>3. s = SliceOf(<< >>, << >>)
    <3>1. SubSeq(b, 1, split) = << >> /\ SubSeq(b, split + 1, Len(b)) = << >> /\ ~(split > Len(b))
      BY <2>2
    <3> QED BY <1>3, <3>1
  <2>4. Len(<< >>) <= 5
    OBVIOUS
  <2> QED BY <1>4, <2>1, <2>3, <2>4, SliceIs
<1>5. CASE b # << >>
  <2>1. PICK n \in Nat : n = Len(b) /\ n = q - p /\ n >= 1
    BY <1>1, <1>2, <1>5
  <2>2. n \in DOMAIN b
    BY <1>2, <2>1
  <2>3. CharType(b, n) # "NotAStart"
    BY <2>1 DEF CharType
  <2>4. first \in found /\ \A j \in found : first <= j
    <3>1. found \subseteq Nat /\ found # {}
      BY <1>2, <2>2, <2>3
    <3> HIDE DEF found
    <3>2. \E i \in found : \A j \in found : i <= j
      BY <3>1, LeastNatural
    <3> QED BY <3>2
  <2>5. PICK f \in DOMAIN b : f = first
    BY <2>4
  <2>6. CharType(b, f) # "NotAStart" /\ \A i \in DOMAIN b : i < f => CharType(b, i) = "NotAStart"
    <3>1. \A i \in found : f <= i /\ i \in Int
      BY <1>2, <2>4, <2>5
    <3>2. f \in Int /\ f \in found /\ \A i \in DOMAIN b : i \in Int
      BY <1>2, <2>4, <2>5
    <3> QED BY <3>1, <3>2
  <2>7. PICK m : m = IF CharType(b, f) = "SecondHalfOfSurrogate" THEN f + 2 ELSE f - 1
    OBVIOUS
  <2>8. split = m
    BY <1>5, <2>5, <2>7
  <2> HIDE DEF found, first, split
  <2>9. s = IF m > Len(b) THEN Failure ELSE SliceOf(SubSeq(b, 1, m), SubSeq(b, m + 1, Len(b)))
    BY <1>3, <2>8
  <2>10. PICK k \in DOMAIN c : k = p + f
    BY <1>2
  <2>11. f \in Nat /\ 1 <= f /\ f <= n /\ k \in Nat /\ p + n = q
    BY <1>1, <1>2, <2>1, <2>10
  <2>12. m \in Nat
    BY <2>7, <2>11
  <2>13. f <= 6 /\ (k < q /\ StartsSequence(c[k]) /\ ~CharStart(c, k) => f <= 3)
    BY <2>6, <2>10, OrphansAreFew
  <2>14. CASE m > Len(b)
    BY <2>9, <2>14, FailureIsCut
  <2>15. CASE ~(m > Len(b))
    <3>1. m \in 0..Len(b) /\ m <= n
      BY <2>1, <2>12, <2>15
    <3>2. PICK r \in Nat : r = p + m
      BY <1>1, <2>12
    <3> DEFINE a == SubSeq(b, 1, m)
               d == SubSeq(b, m + 1, Len(b))
    <3>3. Part(c, p, r, a) /\ Part(c, r, q, d)
      BY <3>1, <3>2, PartFirst, PartRest
    <3>4. s = SliceOf(a, d)
      BY <2>9, <2>15
    <3> HIDE DEF a, d
    <3>5. Len(a) = m
      <4>1. Len(a) = r - p
        BY <3>3, PartIs
      <4> QED BY <1>1, <2>12, <3>2, <4>1
    <3>6. ASSUME Between(c, r), m <= 5
          PROVE  Cut(b, s)
      BY <3>3, <3>4, <3>5, <3>6, SliceIs
    <3>7. CASE k < q
      <4>1. CASE CharStart(c, k)
        <5>1. CharType(b, f) # "SecondHalfOfSurrogate"
          BY <2>10, <3>7, <4>1, TypeAt
        <5>2. m = f - 1 /\ r = k - 1
          BY <1>1, <2>7, <2>10, <2>11, <3>2, <5>1
        <5>3. Between(c, r)
          BY <1>1, <4>1, <5>2, BetweenAt
        <5> QED BY <2>11, <2>13, <3>6, <5>2, <5>3
      <4>2. CASE ~CharStart(c, k)
        <5>1. StartsSequence(c[k]) /\ CharType(b, f) = "SecondHalfOfSurrogate"
          BY <2>6, <2>10, <3>7, <4>2, TypeAt
        <5>2. m = f + 2 /\ r = k + 2
          BY <1>1, <2>7, <2>10, <2>11, <3>2, <5>1
        <5>3. Between(c, r)
          BY <1>1, <4>2, <5>1, <5>2, PairAround
        <5> QED BY <2>11, <2>13, <3>6, <3>7, <4>2, <5>1, <5>2, <5>3
      <4> QED BY <4>1, <4>2
    <3>8. CASE ~(k < q)
      <4>1. k = q /\ f = n
        BY <1>1, <2>10, <2>11, <3>8
      <4>2. b[f] = c[k] /\ f = Len(b)
        BY <1>2, <2>1, <2>10, <4>1
      <4>3. CharType(b, f) # "SecondHalfOfSurrogate"
        BY <4>2 DEF CharType
      <4>4. m = f - 1 /\ r = k - 1 /\ m <= 5
        BY <1>1, <2>7, <2>10, <2>11, <2>13, <3>2, <4>3
      <4>5. CASE c[k] \in {"A", "L"}
        <5>1. CharStart(c, k)
          BY <4>5 DEF CharStart, StartsSequence, Continuation, SecondHalfAt
        <5>2. Between(c, r)
          BY <1>1, <4>4, <5>1, BetweenAt
        <5> QED BY <3>6, <4>4, <5>2
      <4>6. CASE c[k] \notin {"A", "L"}
        <5>1. q = r + 1 /\ Len(d) = q - r /\ DOMAIN d = 1..Len(d) /\ r + 1 = k
          <6>1. Len(d) = q - r /\ DOMAIN d = 1..Len(d)
            BY <3>3, PartIs
          <6> QED BY <2>11, <3>2, <4>1, <4>4, <6>1
        <5>2. Len(d) = 1 /\ DOMAIN d = {1} /\ 1 \in 1..Len(d)
          BY <3>2, <5>1
        <5>3. d[1] = c[r + 1]
          <6>1. Part(c, r, q, d)
            BY <3>3
          <6>2. \A j \in 1..Len(d) : d[j] = c[r + j]
            BY <6>1, PartIs
          <6> QED BY <5>2, <6>2
        <5>4. d # << >>
          BY <5>2
        <5>5. s = Failure
          BY <3>4, <4>6, <5>1, <5>2, <5>3, <5>4, OneByteFails
        <5> QED BY <5>5, FailureIsCut
      <4> QED BY <4>5, <4>6
    <3> QED BY <3>7, <3>8
  <2> QED BY <2>14, <2>15
<1> QED BY <1>4, <1>5

\* A slice of an NCLOB that has a sequence is not refused.
LEMMA NClobSlice ==
  ASSUME NEW c, NEW p, NEW q, NEW b, Part(c, p, q, b), Uncut(c, p), Uncut(c, q),
         NEW s, s = SplitOffOrphanedSurrogates(b)
  PROVE  Cut(b, s) /\ (b # << >> => s.ok)
<1>1. /\ Text(c) /\ Len(c) \in Nat /\ DOMAIN c = 1..Len(c) /\ \A j \in DOMAIN c : c[j] \in Byte
      /\ p \in Nat /\ q \in Nat /\ p <= q /\ q <= Len(c)
  BY PartIs
<1>2. /\ Len(b) = q - p /\ DOMAIN b = 1..Len(b) /\ (b = << >> <=> p = q)
      /\ \A j \in 1..Len(b) : b[j] = c[p + j] /\ p + j \in DOMAIN c
  BY PartIs
<1>3. CASE b = << >>
  <2>1. s = Failure
    BY <1>3 DEF SplitOffOrphanedSurrogates
  <2> QED BY <1>3, <2>1, FailureIsCut
<1>4. CASE b # << >>
  <2>1. p < q /\ p < Len(c) /\ 1 \in DOMAIN b
    BY <1>1, <1>2, <1>4
  <2>2. PICK k : k = p + 1
    OBVIOUS
  <2>3. k \in DOMAIN c /\ StartsSequence(c[k]) /\ k \in Nat /\ k <= q
    BY <1>1, <2>1, <2>2, SequenceBegins
  <2>4. PICK m : m = SequenceLength(c[k])
    OBVIOUS
  <2>5. m \in 1..3 /\ k + m <= q + 1
    BY <1>1, <2>3, <2>4, SequenceEnds
  <2>6. b[1] = c[k]
    BY <1>2, <2>1, <2>2
  <2> DEFINE split == IF CharType(b, 1) = "SecondHalfOfSurrogate" THEN 3 ELSE 0
  <2>7. /\ CharType(b, 1) \notin {"NotAStart", "TooShort"}
        /\ split \in 0..Len(b) /\ split <= 5 /\ Between(c, p + split)
    <3>1. CASE k < q
      <4>1. CASE CharStart(c, k)
        <5>1. CharType(b, 1) \notin {"NotAStart", "TooShort", "SecondHalfOfSurrogate"}
          BY <2>1, <2>2, <3>1, <4>1, TypeAt
        <5>2. split = 0 /\ p + 0 = p /\ 0 \in 0..Len(b) /\ 0 <= 5 /\ p = k - 1
          BY <1>1, <1>2, <2>2, <5>1
        <5>3. Between(c, p)
          BY <1>1, <4>1, <5>2, BetweenAt
        <5> QED BY <5>1, <5>2, <5>3
      <4>2. CASE ~CharStart(c, k)
        <5>1. CharType(b, 1) = "SecondHalfOfSurrogate"
          BY <2>1, <2>2, <2>3, <3>1, <4>2, TypeAt
        <5>2. Between(c, k + 2) /\ m = 3
          BY <1>1, <2>3, <2>4, <4>2, PairAround
        <5>3. split = 3 /\ p + 3 = k + 2 /\ 3 \in 0..Len(b) /\ 3 <= 5
          BY <1>1, <1>2, <2>2, <2>5, <5>1, <5>2
        <5> QED BY <5>1, <5>2, <5>3
      <4> QED BY <4>1, <4>2
    <3>2. CASE ~(k < q)
      <4>1. m = 1
        BY <1>1, <2>3, <2>5, <3>2
      <4>2. c[k] = "A"
        BY <2>4, <4>1 DEF SequenceLength
      <4>3. CharType(b, 1) = "One"
        BY <2>6, <4>2 DEF CharType
      <4>4. CharStart(c, k)
        BY <2>3, <4>2 DEF CharStart, SecondHalfAt
      <4>5. split = 0 /\ p + 0 = p /\ 0 \in 0..Len(b) /\ 0 <= 5 /\ p = k - 1
        BY <1>1, <1>2, <2>2, <4>3
      <4>6. Between(c, p)
        BY <1>1, <4>4, <4>5, BetweenAt
      <4> QED BY <4>3, <4>5, <4>6
    <3> QED BY <3>1, <3>2
  <2> DEFINE a == SubSeq(b, 1, split)
             d == SubSeq(b, split + 1, Len(b))
             slice0 == IF split > Len(b) THEN Failure ELSE SliceOf(a, d)
  <2>8. s = IF slice0.ok /\ Len(slice0.postfix) \in {0, 3} THEN slice0 ELSE Failure
    BY <1>4, <2>7 DEF SplitOffOrphanedSurrogates
  <2> HIDE DEF split
  <2>9. PICK r \in Nat : r = p + split
    BY <1>1, <1>2, <2>7
  <2>10. Part(c, p, r, a) /\ Part(c, r, q, d)
    BY <2>7, <2>9, PartFirst, PartRest
  <2> HIDE DEF a, d
  <2>11. slice0 = SliceOf(a, d)
    BY <1>1, <1>2, <2>7
  <2> HIDE DEF slice0
  <2>12. Between(c, r) /\ r <= q /\ Len(a) <= 5
    <3>1. Len(a) = r - p /\ r <= q
      BY <2>10, PartIs
    <3> QED BY <1>1, <2>7, <2>9, <3>1
  <2>13. PICK t : t = TailLen(d)
    OBVIOUS
  <2>14. TailCuts(c, r, q, t)
    BY <2>10, <2>12, <2>13, TailOfText
  <2>15. t \in {0, 3}
    BY <1>1, <2>12, <2>14, CutOfUncut
  <2>16. Cut(b, slice0) /\ slice0.ok /\ Len(slice0.postfix) = t
    <3>1. t # NoCutOff
      BY <2>15 DEF NoCutOff
    <3> QED BY <2>10, <2>11, <2>12, <2>13, <3>1, SliceIs
  <2> QED BY <2>8, <2>15, <2>16
<1> QED BY <1>3, <1>4

\* A slice that was read.
LEMMA SliceOfLob ==
  ASSUME Text(content), kind \in {"BLOB", "CLOB", "NCLOB"}, NEW offset \in Nat, NEW length \in Nat,
         ReadSlice(offset, length)
  PROVE  SliceIsAnswered'
<1>1. PICK asked : asked = Chunk(offset, length)
  OBVIOUS
<1>2. /\ kind' = kind
      /\ slice'.asked = asked
      /\ slice'.got = CASE kind = "BLOB"  -> Slice(<< >>, asked, << >>)
                        [] kind = "CLOB"  -> SplitOffOrphanedBytes(asked)
                        [] kind = "NCLOB" -> SplitOffOrphanedSurrogates(asked)
  BY <1>1 DEF ReadSlice, lob
<1>3. Len(content) \in Nat /\ content \in Seq(Byte)
  BY DEF Text
<1>4. CASE kind = "NCLOB"
  <2>1. slice'.got = SplitOffOrphanedSurrogates(asked)
    BY <1>2, <1>4
  <2>2. CountTo(content, 0) = 0 /\ Uncut(content, 0)
    BY CountOfNone, AtTheEnds
  <2>3. PICK p : p = Position(content, 0 + offset) /\ 0 <= p /\ Uncut(content, p)
    BY <2>2, ChunkIsUncut
  <2>4. PICK n \in Nat : n = offset + length
    OBVIOUS
  <2>5. PICK q : q = Position(content, 0 + n) /\ 0 <= q /\ Uncut(content, q)
    BY <2>2, ChunkIsUncut
  <2>6. PositionOf(offset) = p /\ PositionOf(offset + length) = q
    <3>1. 0 + offset = offset /\ 0 + n = offset + length
      BY <2>4
    <3> QED BY <1>4, <2>3, <2>5, <3>1, PositionOfUnits
  <2>7. p \in Nat /\ q \in Nat /\ p <= Len(content) /\ q <= Len(content)
    BY <1>3, <2>3, <2>5 DEF Uncut
  <2>8. asked = SubSeq(content, p + 1, q)
    BY <1>1, <2>6 DEF Chunk
  <2>9. CASE p <= q
    <3>1. Part(content, p, q, asked)
      BY <2>7, <2>8, <2>9 DEF Part
    <3>2. Cut(asked, slice'.got) /\ (asked # << >> => slice'.got.ok)
      BY <2>1, <2>3, <2>5, <3>1, NClobSlice
    <3> QED BY <1>2, <1>4, <3>2 DEF SliceIsAnswered, Cut
  <2>10. CASE q < p
    <3>1. asked = << >>
      BY <2>7, <2>8, <2>10, SubSeqEmpty
    <3>2. slice'.got = Failure
      BY <2>1, <3>1 DEF SplitOffOrphanedSurrogates
    <3> QED BY <1>2, <3>1, <3>2, FailureIsCut DEF SliceIsAnswered
  <2> QED BY <2>7, <2>9, <2>10
<1>5. CASE kind # "NCLOB"
  <2>1. PICK p : p = Least(offset, Len(content))
    OBVIOUS
  <2>2. PICK q : q = Least(offset + length, Len(content))
    OBVIOUS
  <2>3. PositionOf(offset) = p /\ PositionOf(offset + length) = q
    BY <1>5, <2>1, <2>2, PositionOfUnits
  <2>4. p \in Nat /\ q \in Nat /\ p <= q /\ q <= Len(content)
    BY <1>3, <2>1, <2>2 DEF Least
  <2>5. Part(content, p, q, asked)
    BY <1>1, <2>3, <2>4 DEF Part, Chunk
  <2>6. CASE kind = "CLOB"
    <3>1. slice'.got = SplitOffOrphanedBytes(asked)
      BY <1>2, <2>6
    <3>2. Cut(asked, slice'.got)
      BY <2>5, <3>1, ClobSlice
    <3> QED BY <1>2, <2>6, <3>2 DEF SliceIsAnswered, Cut
  <2>7. CASE kind = "BLOB"
    <3>1. slice'.got.prefix = << >> /\ slice'.got.data = asked /\ slice'.got.postfix = << >>
      BY <1>2, <2>7 DEF Slice
    <3>2. Part(content, p, p, << >>) /\ Part(content, q, q, << >>)
      BY <1>3, <2>4, PartOfNone
    <3>3. Part(content, p, q, (<< >> \o asked) \o << >>)
      BY <2>5, <3>2, PartJoin
    <3>4. (<< >> \o asked) \o << >> = asked
      BY <2>5, <3>3 DEF Part
    <3>5. Len(<< >>) <= 5
      OBVIOUS
    <3> QED BY <1>2, <2>7, <3>1, <3>4, <3>5 DEF SliceIsAnswered
  <2> QED BY <1>5, <2>6, <2>7
<1> QED BY <1>4, <1>5

\* A slice is what was asked for, cut at the ends of its text; slices of NCLOBs that
\* have a sequence are never refused.  This does not depend on the reader's buffers.
THEOREM SlicesAreCut == Spec => []SliceIsAnswered
<1> DEFINE SliceInv == Text(content) /\ kind \in {"BLOB", "CLOB", "NCLOB"} /\ SliceIsAnswered
<1>1. Init => SliceInv
  <2> SUFFICES ASSUME Init
               PROVE  SliceInv
    OBVIOUS
  <2>1. Text(content) /\ kind \in {"BLOB", "CLOB", "NCLOB"}
    BY ConstantsAssumption DEF Init, Text
  <2>2. /\ slice.asked = << >> /\ slice.got.prefix = << >> /\ slice.got.data = << >>
        /\ slice.got.postfix = << >>
    BY DEF Init, NoSlice, Slice
  <2>3. (<< >> \o << >>) \o << >> = << >> /\ Len(<< >>) = 0 /\ DOMAIN << >> = {}
    OBVIOUS
  <2>4. IsText(<< >>)
    BY <2>3 DEF IsText
  <2> QED BY <2>1, <2>2, <2>3, <2>4 DEF SliceIsAnswered
<1>2. SliceInv /\ [Next]_vars => SliceInv'
  <2> SUFFICES ASSUME SliceInv, [Next]_vars
               PROVE  SliceInv'
    OBVIOUS
  <2>1. UNCHANGED <<kind, content>>
    BY DEF Next, Step, FetchNextChunk, ReadRest, IntoRest, FetchFails, Into, Read, ReadSlice, vars, lob
  <2>2. CASE UNCHANGED slice
    BY <2>1, <2>2 DEF SliceIsAnswered
  <2>3. CASE \E offset, length \in 0..UnitsOf(content) : ReadSlice(offset, length)
    <3>1. PICK offset \in 0..UnitsOf(content), length \in 0..UnitsOf(content) : ReadSlice(offset, length)
      BY <2>3
    <3>2. offset \in Nat /\ length \in Nat
      OBVIOUS
    <3> QED BY <2>1, <3>1, <3>2, SliceOfLob
  <2> QED
    BY <2>2, <2>3 DEF Next, Step, FetchNextChunk, ReadRest, IntoRest, FetchFails, Into, Read, vars
<1> QED BY <1>1, <1>2, PTL DEF Spec
=============================================================================
