------------------------------ MODULE LobRead ------------------------------
(***************************************************************************)
(* The handles with which a program reads a LOB: BLobHandle, CLobHandle    *)
(* and NCLobHandle.  The first chunk comes with the row, the others are    *)
(* fetched when they are needed, by a ReadLob request each.  BLOBs and     *)
(* CLOBs are counted in bytes, NCLOBs in 1-2-3-byte sequences.  What is    *)
(* read from a CLOB or NCLOB is UTF-8, so the chunks are cut at the last   *)
(* complete character (see Cesu8).                                         *)
(*                                                                         *)
(* The content is identified with its CESU-8 bytes, also after it was      *)
(* converted.                                                              *)
(***************************************************************************)
EXTENDS Cesu8

CONSTANTS
  Kinds,          \* of LOBs that are considered
  Contents,       \* what they contain, sequences of bytes
  LobReadLength,  \* bytes, or 1-2-3-byte sequences, per fetch
  BufferSizes,    \* of the reader's buffers
  U32,            \* the number of values of a u32
  MaxFaults       \* how many fetches fail, at most

ASSUME ConstantsAssumption ==
  /\ Kinds \subseteq {"BLOB", "CLOB", "NCLOB"}
  /\ \A content \in Contents : content \in Seq(Byte) /\ IsText(content)
  /\ LobReadLength \in Nat \ {0} /\ U32 \in Nat \ {0} /\ LobReadLength < U32
  /\ BufferSizes \subseteq Nat /\ MaxFaults \in Nat

VARIABLES
  kind, content,   \* of the LOB on the server
  complete,        \* is_data_complete
  buffer,          \* data, or cesu8
  tail,            \* cesu8_tail_len
  acc, accChars,   \* acc_byte_length, acc_char_length
  maxBufLen,
  op,              \* "none", "read", "into" or "gone"
  want,            \* the size of the reader's buffer
  widest,          \* of the buffers that were read into so far
  delivered,       \* what was read so far
  result,          \* of the last operation
  slice,           \* the slice that was read: what was asked for, and got
  faults

lob == <<kind, content>>
fetched == <<buffer, acc, accChars>>
state == <<complete, tail, maxBufLen>>
call == <<op, want, widest, result>>
vars == <<lob, fetched, state, call, delivered, slice, faults>>

Result(outcome, size) == [outcome |-> outcome, size |-> size]
NoSlice == [asked |-> <<>>, got |-> Slice(<<>>, <<>>, <<>>)]
Least(a, b) == IF a < b THEN a ELSE b
Greatest(a, b) == IF a < b THEN b ELSE a

-----------------------------------------------------------------------------
(* The server (external).                                                  *)

UnitsOf(b) == IF kind = "NCLOB" THEN SequenceCount(b) ELSE Len(b)

\* The number of bytes of the first u units.
PositionOf(u) ==
  IF kind = "NCLOB"
  THEN LET starts == {i \in DOMAIN content : StartsSequence(content[i])} IN
       Cardinality({i \in DOMAIN content : Cardinality({j \in starts : j <= i}) <= u})
  ELSE Least(u, Len(content))

Chunk(offset, length) == SubSeq(content, PositionOf(offset) + 1, PositionOf(offset + length))

-----------------------------------------------------------------------------

\* BLobHandle has no cesu8_tail_len.
TailOf(b) == IF kind = "BLOB" THEN 0 ELSE TailLen(b)

\* The first chunk comes with the row; where it cannot be cut, the row cannot
\* be parsed and there is no handle.
Init ==
  /\ kind \in Kinds /\ content \in Contents
  /\ \E units \in 0..Least(LobReadLength, UnitsOf(content)) : buffer = Chunk(0, units)
  /\ tail = TailOf(buffer) /\ tail # NoCutOff
  /\ complete = (buffer = content)
  /\ acc = Len(buffer) /\ accChars = SequenceCount(buffer) /\ maxBufLen = Len(buffer)
  /\ op = "none" /\ want = 0 /\ widest = 0 /\ delivered = <<>> /\ result = Result("none", 0)
  /\ slice = NoSlice /\ faults = 0

Return(r) ==
  /\ result' = r
  /\ op' = IF op = "into" THEN "gone" ELSE "none"
  /\ UNCHANGED <<want, widest>>

\* Read::read() with a buffer of size n.
Read(n) ==
  /\ op = "none"
  /\ op' = "read" /\ want' = n /\ widest' = Greatest(widest, n)
  /\ UNCHANGED <<lob, fetched, state, result, delivered, slice, faults>>

\* into_bytes, into_string: consumes the handle.
Into ==
  /\ op = "none"
  /\ op' = "into"
  /\ UNCHANGED <<lob, fetched, state, want, widest, result, delivered, slice, faults>>

Reading == op \in {"read", "into"}

\* Bug variants: one chunk is enough; everything is read ahead.
NeedsMore_IfEmpty == Reading /\ ~complete /\ buffer = <<>>
NeedsMore_Greedy == Reading /\ ~complete

\* read fetches until the buffer can be filled, into_string (load_complete)
\* until everything is there.
NeedsMore ==
  /\ Reading /\ ~complete
  /\ op = "read" => want > Len(buffer) - tail

\* Where the next chunk starts.
Offset == IF kind = "NCLOB" THEN accChars ELSE acc

\* Bug variant: the buffer is filled up to the lob read length.
ReadLength_FillUp == LobReadLength - Len(buffer)

\* What is left is cut to a u32.
Left == (UnitsOf(content) - Offset) % U32

\* The length that is requested.
ReadLength == Least(LobReadLength, Left)

\* fetch_next_chunk appends what it gets, and fails if that cannot be cut; who
\* asks for nothing gets nothing.
FetchNextChunk ==
  /\ NeedsMore
  /\ \E length \in (IF ReadLength = 0 THEN {0} ELSE 1..ReadLength) :
     \E data \in {Chunk(Offset, length)} : \E newBuffer \in {buffer \o data} :
     \E newTail \in {TailOf(newBuffer)} :
        /\ buffer' = newBuffer
        /\ acc' = acc + Len(data) /\ accChars' = accChars + SequenceCount(data)
        /\ \/ /\ newTail = NoCutOff
              /\ Return(Result("err", 0)) /\ UNCHANGED state
           \/ /\ newTail # NoCutOff
              /\ tail' = newTail
              /\ complete' = (acc + Len(data) = Len(content))
              /\ maxBufLen' = Greatest(maxBufLen, Len(newBuffer))
              /\ UNCHANGED call
  /\ UNCHANGED <<lob, delivered, slice, faults>>

\* The roundtrip fails, or its reply is for another locator.
FetchFails ==
  /\ NeedsMore /\ faults < MaxFaults
  /\ faults' = faults + 1
  /\ Return(Result("err", 0))
  /\ UNCHANGED <<lob, fetched, state, delivered, slice>>

\* Bug variant: the bytes after the last complete character are not kept.
Remaining_Dropped(drained, size) == SubSeq(buffer, Len(drained) + 1, Len(buffer))

\* The bytes that were drained and not delivered are pushed back.
Remaining(drained, size) == SubSeq(buffer, size + 1, Len(buffer))

\* The rest of read: as many complete characters as fit.  If there is no place
\* to cut, the bytes that were drained are lost.
ReadRest ==
  /\ op = "read" /\ ~NeedsMore
  /\ \E drained \in {SubSeq(buffer, 1, Least(want, Len(buffer)))} :
     \E cut \in {TailOf(drained)} :
     LET size == Len(drained) - cut
     IN \/ /\ cut = NoCutOff
           /\ buffer' = SubSeq(buffer, Len(drained) + 1, Len(buffer))
           /\ Return(Result("err", 0)) /\ UNCHANGED delivered
        \/ /\ cut # NoCutOff
           /\ buffer' = Remaining(drained, size)
           /\ delivered' = delivered \o SubSeq(drained, 1, size)
           /\ Return(Result("ok", size))
  /\ UNCHANGED <<lob, acc, accChars, state, slice, faults>>

\* The rest of into_bytes and into_string.
IntoRest ==
  /\ op = "into" /\ ~NeedsMore
  /\ \/ /\ kind = "BLOB" \/ IsText(buffer)
        /\ delivered' = delivered \o buffer /\ buffer' = <<>>
        /\ Return(Result("whole", Len(buffer)))
     \/ /\ kind # "BLOB" /\ ~IsText(buffer)
        /\ buffer' = <<>> /\ UNCHANGED delivered
        /\ Return(Result("err", 0))
  /\ UNCHANGED <<lob, acc, accChars, state, slice, faults>>

\* read_slice neither depends on the state of the handle nor changes it; it is
\* called here before everything else, and only once.
ReadSlice(offset, length) ==
  /\ op = "none" /\ result.outcome = "none" /\ maxBufLen = 0
  /\ LET asked == Chunk(offset, length) IN
     slice' = [asked |-> asked,
               got |-> CASE kind = "BLOB"  -> Slice(<<>>, asked, <<>>)
                         [] kind = "CLOB"  -> SplitOffOrphanedBytes(asked)
                         [] kind = "NCLOB" -> SplitOffOrphanedSurrogates(asked)]
  /\ op' = "gone"
  /\ UNCHANGED <<lob, fetched, state, want, widest, result, delivered, faults>>

-----------------------------------------------------------------------------
Step == FetchNextChunk \/ ReadRest \/ IntoRest

Next ==
  \/ Step \/ FetchFails \/ Into
  \/ \E n \in BufferSizes : Read(n)
  \/ \E offset, length \in 0..UnitsOf(content) :
        offset + length <= UnitsOf(content) /\ ReadSlice(offset, length)

Spec == Init /\ [][Next]_vars

\* An operation that was started goes on, and the server answers.
FairSpec == Spec /\ WF_vars(Step)

-----------------------------------------------------------------------------
(* Properties.                                                             *)

\* Nothing is lost, doubled or moved between what was read, the buffer and the
\* offset of the next fetch, failed fetches and reads included, as long as the
\* reader's buffers have room for a character: Ok(0) says that everything was
\* read (the end of the file for std::io::Read), and into_bytes and into_string
\* give everything that was not yet read.
NothingIsLost ==
  /\ op \in {"none", "read"} => delivered \o buffer = SubSeq(content, 1, acc)
  /\ op = "none" /\ result = Result("ok", 0) => delivered = content
  /\ result.outcome = "whole" => delivered = content

\* Every read from a CLOB or NCLOB ends at the end of a character, wherever the
\* server or the reader's buffer cut the stream.
ReadsAreText == kind # "BLOB" => IsText(delivered)

\* The bytes of a unit, and what an incomplete character can have at the end of
\* a sequence of units.
UnitLength == IF kind = "NCLOB" THEN 3 ELSE 1
LargestTail == CASE kind = "BLOB" -> 0 [] kind = "CLOB" -> 5 [] kind = "NCLOB" -> 3

\* A handle buffers one chunk at most, and before it, if somebody reads, less
\* than what the widest of the reader's buffers takes and an incomplete
\* character; BLOBs have none, and NCLOBs are cut between sequences.  The tail is
\* part of the buffer: read subtracts their lengths, which are unsigned, while
\* the data are not complete.  clob.rs:117 promises less, the read length and the
\* size of the reader's buffer.
BufferIsBounded ==
  op \in {"none", "read"} =>
     /\ ~complete => tail <= Len(buffer)
     /\ maxBufLen <= LobReadLength * UnitLength + (IF widest = 0 THEN 0 ELSE widest - 1 + LargestTail)

\* A slice is what was asked for, cut at the ends of its text; an incomplete
\* character has at most five bytes.  A slice of an NCLOB, which is counted in
\* 1-2-3-byte sequences, is returned if it has one (for the others, see
\* SlicesAreReturned).
SliceIsAnswered ==
  /\ slice.got.ok => /\ slice.got.prefix \o slice.got.data \o slice.got.postfix = slice.asked
                     /\ kind # "BLOB" => IsText(slice.got.data)
                     /\ Len(slice.got.prefix) <= 5 /\ Len(slice.got.postfix) <= 5
  /\ kind = "NCLOB" /\ slice.asked # <<>> => slice.got.ok

\* What is left is a multiple of 2^32: the next fetch asks for nothing, as does
\* the one after it.
AsksForNothing == NeedsMore /\ Left = 0

\* read, into_bytes and into_string come to an end, unless they ask for nothing
\* for ever; no other cut, buffer or failure keeps them from it.
ReadsReturn == <>[]AsksForNothing \/ (Reading ~> ~Reading)

\* char_lob_slice.rs:8 says: "If the specified boundaries of the slice do not
\* coincide with the begin or end of a unicode-codepoint, then it will begin
\* and/or end with a byte sequence that cannot be converted into UTF-8 [...]
\* `CharLobSlice::prefix` and/or `CharLobSlice::postfix` then contain these 1-5
\* extra bytes."  nclob.rs:100 and clob.rs:96 take any offset and any length.
\* Violated by slices of CLOBs without a complete character, and by empty slices
\* of NCLOBs.
SlicesAreReturned == slice.got.ok

=============================================================================
