------------------------------- MODULE Cesu8 -------------------------------
(***************************************************************************)
(* CESU-8 as hdbconnect's protocol/util.rs sees it.  A byte is one of the  *)
(* classes the code distinguishes:                                         *)
(*    A  00..7F     L  C0..DF      E  E0..EF without ED     D  ED          *)
(*    l  80..9F     f  A0..AF      s  B0..BF    (continuation bytes)       *)
(* A surrogate pair is D f x D s x, where x is any continuation byte.      *)
(***************************************************************************)
EXTENDS Integers, Sequences, FiniteSets

Continuation == {"l", "f", "s"}
Byte == {"A", "L", "E", "D"} \cup Continuation

-----------------------------------------------------------------------------
(* The encoding.                                                           *)

\* How many bytes a sequence has that starts with this byte; half a pair of
\* surrogates is a sequence of its own.
SequenceLength(byte) == CASE byte = "A" -> 1 [] byte = "L" -> 2 [] OTHER -> 3

StartsSequence(byte) == byte \notin Continuation

\* The second half of a surrogate pair starts at i.
SecondHalfAt(b, i) == b[i] = "D" /\ i < Len(b) /\ b[i + 1] = "s"
FirstHalfAt(b, i) == b[i] = "D" /\ i < Len(b) /\ b[i + 1] = "f"

\* b is a sequence of complete characters.
IsText(b) ==
  /\ b # <<>> => StartsSequence(b[1])
  /\ \A i \in DOMAIN b : StartsSequence(b[i]) =>
       LET next == i + SequenceLength(b[i]) IN
       /\ next <= Len(b) + 1
       /\ \A j \in (i + 1)..(next - 1) : b[j] \in Continuation
       /\ next \in DOMAIN b => StartsSequence(b[next])
       /\ FirstHalfAt(b, i) => next \in DOMAIN b /\ SecondHalfAt(b, next)
       /\ SecondHalfAt(b, i) => i > 3 /\ FirstHalfAt(b, i - 3)

\* The number of 1-2-3-byte sequences, which is the length of an NCLOB.
SequenceCount(b) ==   \* count_1_2_3_sequence_starts
  Cardinality({i \in DOMAIN b : StartsSequence(b[i])})

-----------------------------------------------------------------------------
(* cesu8_char_type and get_cesu8_tail_len.                                 *)

\* cesu8_char_type(b, i, Len(b))
CharType(b, i) ==
  IF b[i] = "A" THEN "One"
  ELSE IF b[i] = "L" THEN "Two"
  ELSE IF i = Len(b) THEN "TooShort"
  ELSE IF FirstHalfAt(b, i) THEN "FirstHalfOfSurrogate"
  ELSE IF SecondHalfAt(b, i) THEN "SecondHalfOfSurrogate"
  ELSE IF b[i] \in {"E", "D"} /\ b[i + 1] \in Continuation THEN "Three"
  ELSE "NotAStart"

\* Bug variant: each half of a pair is taken for a character.
CharLength_Halves(type) ==
  CASE type = "One" -> 1 [] type = "Two" -> 2
    [] type \in {"Three", "FirstHalfOfSurrogate"} -> 3
    [] OTHER -> 0

\* The length of a character by the type of its start, 0 for no start.
CharLength(type) ==
  CASE type = "One" -> 1 [] type = "Two" -> 2 [] type = "Three" -> 3
    [] type = "FirstHalfOfSurrogate" -> 6
    [] OTHER -> 0

Starts(b) == {i \in DOMAIN b : CharLength(CharType(b, i)) # 0}

\* How many bytes must be cut off for the rest to be text; -1 is the error "no
\* valid cesu8 cutoff point found".
NoCutOff == -1
TailLen(b) ==
  IF b = <<>> \/ b[Len(b)] = "A" THEN 0
  ELSE IF b[Len(b)] = "L" THEN 1
  ELSE LET starts == Starts(b)
           last == CHOOSE i \in starts : \A j \in starts : j <= i
           char == CharLength(CharType(b, last))
           size == Len(b) - last + 1
       IN IF starts = {} THEN NoCutOff
          ELSE IF size < char THEN size ELSE size - char

-----------------------------------------------------------------------------
(* Splitting a slice (CharLobSlice).                                       *)

Slice(prefix, data, postfix) ==
  [ok |-> TRUE, prefix |-> prefix, data |-> data, postfix |-> postfix]

\* The result of a function that fails, or panics.
Failure == [ok |-> FALSE, prefix |-> <<>>, data |-> <<>>, postfix |-> <<>>]

\* cesu8_to_string_and_tail, whose result is unwrapped, so that an error is a
\* panic.
SliceOf(prefix, b) ==
  LET tail == TailLen(b)
      data == SubSeq(b, 1, Len(b) - tail)
  IN IF tail = NoCutOff \/ ~IsText(data) THEN Failure
     ELSE Slice(prefix, data, SubSeq(b, Len(b) - tail + 1, Len(b)))

\* split_off_orphaned_bytes looks for the first byte that is no NotAStart; a
\* second half of a pair is skipped as a whole.
SplitOffOrphanedBytes(b) ==
  LET found == {i \in DOMAIN b : CharType(b, i) # "NotAStart"}
      first == CHOOSE i \in found : \A j \in found : i <= j
      split == IF b = <<>> THEN 0
               ELSE IF CharType(b, first) = "SecondHalfOfSurrogate" THEN first + 2
               ELSE first - 1
  IN IF split > Len(b) THEN Failure
     ELSE SliceOf(SubSeq(b, 1, split), SubSeq(b, split + 1, Len(b)))

\* split_off_orphaned_surrogates; the index of the first byte is computed for
\* an empty slice, too.
SplitOffOrphanedSurrogates(b) ==
  IF b = <<>> \/ CharType(b, 1) \in {"NotAStart", "TooShort"} THEN Failure
  ELSE LET split == IF CharType(b, 1) = "SecondHalfOfSurrogate" THEN 3 ELSE 0
           slice == IF split > Len(b) THEN Failure
                    ELSE SliceOf(SubSeq(b, 1, split), SubSeq(b, split + 1, Len(b)))
       IN IF slice.ok /\ Len(slice.postfix) \in {0, 3} THEN slice ELSE Failure

=============================================================================
