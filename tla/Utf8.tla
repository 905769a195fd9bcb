-------------------------------- MODULE Utf8 --------------------------------
(***************************************************************************)
(* UTF-8 as types_impl/lob/lob_writer.rs sees it.  A byte is one of the    *)
(* classes that get_utf8_char_start distinguishes:                         *)
(*    A  00..7F    c  80..BF (continuation)    L  C0..DF    E  E0..EF      *)
(*    F  F0..F7    X  F8..FF, and all others that UTF-8 does not know      *)
(* The conversion gives CESU-8 in the classes of the module Cesu8.         *)
(***************************************************************************)
EXTENDS SeqOps

CESU == INSTANCE Cesu8

Utf8Byte == {"A", "c", "L", "E", "F", "X"}

\* get_utf8_char_start: how many bytes the character has that starts with this
\* byte; 0 stands for NotAStart, Illegal and Empty.
CharStart(byte) ==
  CASE byte = "A" -> 1 [] byte = "L" -> 2 [] byte = "E" -> 3 [] byte = "F" -> 4
    [] OTHER -> 0

\* String::from_utf8 succeeds: the bytes are complete characters.
IsUtf8(b) ==
  /\ b # <<>> => b[1] # "c"
  /\ \A i \in DOMAIN b : b[i] # "c" =>
       LET next == i + CharStart(b[i]) IN
       /\ next \in (i + 1)..(Len(b) + 1)
       /\ \A j \in (i + 1)..(next - 1) : b[j] = "c"
       /\ next \in DOMAIN b => b[next] # "c"

-----------------------------------------------------------------------------
\* Bug variant: a three-byte character at the end is taken for complete.
TailOfStart_TwoOfThree(length, index, char) ==
  IF index + char > length
  THEN IF char = 3 /\ index + 2 = length THEN 0 ELSE length - index
  ELSE length - index - char

\* What is cut off if the last start of a character is at (zero-based) index.
TailOfStart(length, index, char) ==
  IF index + char > length THEN length - index ELSE length - index - char

\* get_utf8_tail_len; -1 is the error "no valid utf8 cutoff point found".  The
\* search begins before the last byte.
NoCutOff == -1
Utf8TailLen(b) ==
  IF b = <<>> \/ b[Len(b)] = "A" THEN 0
  ELSE IF b[Len(b)] = "L" THEN 1
  ELSE LET starts == {i \in 1..(Len(b) - 1) : CharStart(b[i]) # 0}
           last == CHOOSE i \in starts : \A j \in starts : j <= i
       IN IF starts = {} THEN NoCutOff
          ELSE TailOfStart(Len(b), last - 1, CharStart(b[last]))

\* F c c c becomes two surrogates, other continuation bytes are kept.
ContinuedByte(b, i) ==
  IF i > 1 /\ b[i - 1] = "F" THEN <<"D">>
  ELSE IF i > 2 /\ b[i - 2] = "F" THEN <<"s">>
  ELSE <<"l">>

\* What becomes of a byte: only four-byte characters change.
ConvertedByte(b, i) ==
  CASE b[i] = "F" -> <<"D", "f", "l">>
    [] b[i] = "c" -> ContinuedByte(b, i)
    [] OTHER -> <<b[i]>>

\* cesu8::to_cesu8
ToCesu8(b) == S!FlattenSeq([i \in DOMAIN b |-> ConvertedByte(b, i)])

\* Bug variant: the bytes before the tail are not checked.
Convertible_Unchecked(text) == TRUE

\* String::from_utf8 is an error for everything else.
Convertible(text) == IsUtf8(text)

\* utf8_to_cesu8_and_utf8_tail
CutOff(b) ==
  LET tail == Utf8TailLen(b)
      text == SubSeq(b, 1, Len(b) - tail)
  IN IF tail = NoCutOff \/ ~Convertible(text)
     THEN [ok |-> FALSE, cesu8 |-> <<>>, tail |-> <<>>]
     ELSE [ok |-> TRUE, cesu8 |-> ToCesu8(text),
           tail |-> SubSeq(b, Len(b) - tail + 1, Len(b))]

=============================================================================
