------------------------------ MODULE LineRead ------------------------------
(***************************************************************************)
(* The line reader under both engines (engine/internal/lineread): a buffer *)
(* of BufferSize bytes hands a long line over in fragments, and MaxLine    *)
(* caps the content of the assembled line, its newline not counted.        *)
(* A line is the number of its content bytes and how it ends: "lf",        *)
(* "crlf", or, at the end of the stream, "eof" or "cr" (a last line whose  *)
(* final byte is a carriage return).  A call consumes the whole line       *)
(* whatever it returns: the rest of an oversized line is discarded.        *)
(***************************************************************************)
EXTENDS Integers, Sequences

CONSTANTS
  BufferSize,  \* size of the bufio.Reader
  MaxLine      \* maxLineSize; 0 or less is unlimited

ASSUME LineAssumption == BufferSize \in Nat \ {0} /\ MaxLine \in Int

Endings == [lf |-> <<"\n">>, crlf |-> <<"\r", "\n">>, cr |-> <<"\r">>, eof |-> <<>>]

Terminated(line) == line.end \in {"lf", "crlf"}
Bytes(line) == [i \in 1..line.n |-> "x"] \o Endings[line.end]

ExceedsMax(size) == MaxLine > 0 /\ size > MaxLine

\* The k-th fragment ReadSlice returns for a line of these bytes ends here.
FragmentEnd(bytes, k) ==
  IF k * BufferSize < Len(bytes) THEN k * BufferSize ELSE Len(bytes)

Fragment(bytes, k) == SubSeq(bytes, (k - 1) * BufferSize + 1, FragmentEnd(bytes, k))

EndsIn(bytes, b) == bytes # <<>> /\ bytes[Len(bytes)] = b

FoundNewline(bytes, k) == EndsIn(Fragment(bytes, k), "\n")
BufferFull(bytes, k)   == Len(Fragment(bytes, k)) = BufferSize /\ ~FoundNewline(bytes, k)

ContentEstimate(bytes, k) ==
  IF EndsIn(Fragment(bytes, k), "\r") THEN FragmentEnd(bytes, k) - 1 ELSE FragmentEnd(bytes, k)

\* A carriage return before the newline counts even when the two fall into
\* different fragments.
NewlineOverhead(bytes) ==
  IF ~EndsIn(bytes, "\n") THEN 0
  ELSE IF Len(bytes) > 1 /\ bytes[Len(bytes) - 1] = "\r" THEN 2 ELSE 1

\* Without a newline a trailing carriage return goes too.
StripNewline(bytes) ==
  IF EndsIn(bytes, "\n") THEN Len(bytes) - NewlineOverhead(bytes)
  ELSE IF EndsIn(bytes, "\r") THEN Len(bytes) - 1 ELSE Len(bytes)

TooLong(bytes, k) ==
  IF FoundNewline(bytes, k)
  THEN ExceedsMax(Len(bytes) - NewlineOverhead(bytes))
  ELSE ExceedsMax(ContentEstimate(bytes, k))

\* The loop goes on only while the buffer is full of a line still within the
\* limit; what it returns in the end is decided by the fragment it stops at.
LastFragment(bytes) ==
  CHOOSE k \in 1..(Len(bytes) \div BufferSize + 1) :
    /\ TooLong(bytes, k) \/ ~BufferFull(bytes, k)
    /\ \A j \in 1..(k - 1) : BufferFull(bytes, j) /\ ~TooLong(bytes, j)

\* Whether ReadLine returns the line rather than ErrLineTooLong, and the size
\* of what it returns.
ReadLine(line) ==
  LET bytes == Bytes(line)
  IN [ok |-> ~TooLong(bytes, LastFragment(bytes)), size |-> StripNewline(bytes)]

-----------------------------------------------------------------------------
\* Reference definition: the lines over the limit, and one that is not but is
\* refused with them, a last line at the limit whose carriage return fills the
\* buffer.
Oversized(line) ==
  MaxLine > 0 /\ (line.n > MaxLine \/
                  (line.end = "cr" /\ line.n = MaxLine /\ (MaxLine + 1) % BufferSize = 0))
=============================================================================
