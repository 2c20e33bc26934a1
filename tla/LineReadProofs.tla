---------------------------- MODULE LineReadProofs ----------------------------
(***************************************************************************)
(* What the line reader returns, for any buffer size, any limit and any    *)
(* line: the assembled content of exactly the lines within the limit,      *)
(* whatever the boundaries of the buffer they straddle.                    *)
(***************************************************************************)
EXTENDS LineRead, SequenceTheorems, WellFoundedInduction, TLAPS

\* A nonempty set of naturals has a least element.
LEMMA LeastNatural ==
  ASSUME NEW S, S \subseteq Nat, S # {}
  PROVE  \E x \in S : \A y \in S : x <= y
<1>1. \E x \in S : \A y \in S : <<y, x>> \notin OpToRel(<, Nat)
  BY NatLessThanWellFounded, WFMin
<1>2. \E x \in S : \A y \in S : <<y, x>> \notin {ss \in Nat \X Nat : ss[1] < ss[2]}
  BY ONLY <1>1 DEF OpToRel
<1>3. PICK x \in S : \A y \in S : <<y, x>> \notin {ss \in Nat \X Nat : ss[1] < ss[2]}
  BY <1>2
<1>4. ASSUME NEW y \in S
      PROVE  x <= y
  <2>1. x \in Nat /\ y \in Nat
    OBVIOUS
  <2>2. ~(y < x)
    BY <1>3, <2>1
  <2> QED
    BY <2>1, <2>2
<1> QED
  BY <1>4

-----------------------------------------------------------------------------
(* The bytes of a line and their fragments.                                *)

Alphabet == {"x", "\n", "\r"}

LEMMA Content ==
  ASSUME NEW n \in Nat
  PROVE  LET content == [i \in 1..n |-> "x"]
         IN content \in Seq(Alphabet) /\ Len(content) = n /\ \A i \in 1..n : content[i] = "x"
<1>1. [i \in 1..n |-> "x"] \in [1..n -> Alphabet]
  BY DEF Alphabet
<1>2. [i \in 1..n |-> "x"] \in Seq(Alphabet)
  BY <1>1, SeqDef
<1> QED
  BY <1>2, LenProperties

\* The bytes at the end: at most a carriage return and a newline, in this order.
LEMMA Ending ==
  ASSUME NEW line, line.end \in DOMAIN Endings
  PROVE  LET ending == Endings[line.end]
         IN /\ ending \in Seq(Alphabet)
            /\ Len(ending) = IF line.end = "eof" THEN 0 ELSE IF line.end = "crlf" THEN 2 ELSE 1
            /\ \A i \in 1..Len(ending) :
                 /\ ending[i] = "\n" <=> Terminated(line) /\ i = Len(ending)
                 /\ ending[i] = "\r" <=> (line.end = "cr" \/ line.end = "crlf") /\ i = 1
<1>1. line.end \in {"lf", "crlf", "cr", "eof"}
  BY DEF Endings
<1>2. CASE line.end = "lf"
  <2>1. Endings[line.end] = <<"\n">>
    BY <1>2 DEF Endings
  <2>2. <<"\n">> \in Seq(Alphabet) /\ Len(<<"\n">>) = 1
    BY DEF Alphabet
  <2> QED
    BY <1>2, <2>1, <2>2 DEF Terminated
<1>3. CASE line.end = "crlf"
  <2>1. Endings[line.end] = <<"\r", "\n">>
    BY <1>3 DEF Endings
  <2>2. <<"\r", "\n">> \in Seq(Alphabet) /\ Len(<<"\r", "\n">>) = 2
    BY DEF Alphabet
  <2> QED
    BY <1>3, <2>1, <2>2 DEF Terminated
<1>4. CASE line.end = "cr"
  <2>1. Endings[line.end] = <<"\r">>
    BY <1>4 DEF Endings
  <2>2. <<"\r">> \in Seq(Alphabet) /\ Len(<<"\r">>) = 1
    BY DEF Alphabet
  <2> QED
    BY <1>4, <2>1, <2>2 DEF Terminated
<1>5. CASE line.end = "eof"
  <2>1. Endings[line.end] = <<>>
    BY <1>5 DEF Endings
  <2> QED
    BY <1>5, <2>1, EmptySeq
<1> QED
  BY <1>1, <1>2, <1>3, <1>4, <1>5

LEMMA Joined ==
  ASSUME NEW c \in Seq(Alphabet), NEW e \in Seq(Alphabet), NEW n \in Nat, Len(c) = n
  PROVE  /\ c \o e \in Seq(Alphabet) /\ Len(c \o e) = n + Len(e)
         /\ \A i \in 1..n : (c \o e)[i] = c[i]
         /\ \A j \in 1..Len(e) : (c \o e)[n + j] = e[j]
<1>1. c \o e \in Seq(Alphabet)
  BY ConcatProperties
<1>2. Len(c \o e) = n + Len(e)
  BY ConcatProperties
<1>3. \A i \in 1..(n + Len(e)) : (c \o e)[i] = IF i <= n THEN c[i] ELSE e[i - n]
  BY ConcatProperties
<1>4. Len(e) \in Nat
  BY LenProperties
<1> QED
  BY <1>1, <1>2, <1>3, <1>4

\* Only the last byte may be a newline; a carriage return is before it or last.
LEMMA BytesOfALine ==
  ASSUME NEW line, line.n \in Nat, line.end \in DOMAIN Endings
  PROVE  /\ Bytes(line) \in Seq(Alphabet)
         /\ Len(Bytes(line)) =
              line.n + (IF line.end = "eof" THEN 0 ELSE IF line.end = "crlf" THEN 2 ELSE 1)
         /\ \A i \in 1..Len(Bytes(line)) :
              /\ Bytes(line)[i] = "\n" <=> Terminated(line) /\ i = Len(Bytes(line))
              /\ Bytes(line)[i] = "\r" <=> (line.end = "cr" \/ line.end = "crlf") /\ i = line.n + 1
<1>1. PICK content \in Seq(Alphabet) :
        /\ content = [i \in 1..line.n |-> "x"]
        /\ Len(content) = line.n /\ \A i \in 1..line.n : content[i] = "x"
  BY Content
<1>2. PICK ending : ending = Endings[line.end]
  OBVIOUS
<1>3. /\ ending \in Seq(Alphabet)
      /\ Len(ending) = IF line.end = "eof" THEN 0 ELSE IF line.end = "crlf" THEN 2 ELSE 1
      /\ \A i \in 1..Len(ending) :
           /\ ending[i] = "\n" <=> Terminated(line) /\ i = Len(ending)
           /\ ending[i] = "\r" <=> (line.end = "cr" \/ line.end = "crlf") /\ i = 1
  BY ONLY <1>2, Ending, line.end \in DOMAIN Endings
<1>4. PICK bytes : bytes = content \o ending
  OBVIOUS
<1>5. /\ bytes \in Seq(Alphabet) /\ Len(bytes) = line.n + Len(ending)
      /\ \A i \in 1..line.n : bytes[i] = content[i]
      /\ \A j \in 1..Len(ending) : bytes[line.n + j] = ending[j]
  <2>1. line.n \in Nat /\ Len(content) = line.n /\ ending \in Seq(Alphabet)
    BY <1>1, <1>3
  <2>2. /\ content \o ending \in Seq(Alphabet) /\ Len(content \o ending) = line.n + Len(ending)
        /\ \A i \in 1..line.n : (content \o ending)[i] = content[i]
        /\ \A j \in 1..Len(ending) : (content \o ending)[line.n + j] = ending[j]
    BY <2>1, Joined
  <2> QED
    BY <1>4, <2>2
<1>6. Bytes(line) = bytes
  BY <1>1, <1>2, <1>4 DEF Bytes
<1>7. line.end \in {"lf", "crlf", "cr", "eof"}
  BY DEF Endings
<1>8. ASSUME NEW i \in 1..Len(bytes)
      PROVE  /\ bytes[i] = "\n" <=> Terminated(line) /\ i = Len(bytes)
             /\ bytes[i] = "\r" <=> (line.end = "cr" \/ line.end = "crlf") /\ i = line.n + 1
  <2>1. CASE i <= line.n
    <3>1. bytes[i] = "x"
      BY <1>1, <1>3, <1>5, <2>1
    <3>2. Terminated(line) => Len(ending) > 0
      BY <1>3, <1>7 DEF Terminated
    <3> QED
      BY <1>2, <1>3, <1>5, <2>1, <3>1, <3>2
  <2>2. CASE ~(i <= line.n)
    <3>1. PICK j \in 1..Len(ending) : i = line.n + j
      <4>1. i - line.n \in 1..Len(ending) /\ i = line.n + (i - line.n)
        BY <1>3, <1>5, <2>2
      <4> QED
        BY <4>1
    <3>2. bytes[i] = ending[j]
      BY <1>2, <1>3, <1>5, <2>2, <3>1
    <3> QED
      BY <1>2, <1>3, <1>5, <3>1, <3>2
  <2> QED
    BY <2>1, <2>2
<1> QED
  BY <1>2, <1>3, <1>5, <1>6, <1>8

-----------------------------------------------------------------------------
(* Where the fragments of a line end, and what they end in.                *)

LEMMA Multiples ==
  ASSUME NEW k \in Nat \ {0}
  PROVE  /\ (k - 1) * BufferSize \in Nat
         /\ k * BufferSize = (k - 1) * BufferSize + BufferSize
         /\ k > 1 => (k - 1) * BufferSize = (k - 2) * BufferSize + BufferSize
                     /\ (k - 2) * BufferSize \in Nat
         /\ k = 1 => (k - 1) * BufferSize = 0
<1>1. BufferSize \in Nat \ {0}
  BY LineAssumption
<1> QED
  BY <1>1

LEMMA Remainder ==
  ASSUME NEW m \in Nat, NEW r \in 0..(BufferSize - 1)
  PROVE  (m * BufferSize + r) % BufferSize = r
<1>1. BufferSize \in Nat \ {0}
  BY LineAssumption
<1>2. PICK size \in Nat : size = m * BufferSize + r
  BY <1>1
<1>3. PICK q \in Nat : q = size \div BufferSize
  BY <1>1
<1>4. PICK rest \in 0..(BufferSize - 1) : rest = size % BufferSize
  BY <1>1
<1>5. size = q * BufferSize + rest
  BY <1>1, <1>3, <1>4
<1>6. m = q
  <2>1. (m - q) * BufferSize = rest - r
    BY <1>1, <1>2, <1>5
  <2>2. m - q >= 1 => (m - q) * BufferSize >= BufferSize
    BY <1>1
  <2>3. q - m >= 1 => (q - m) * BufferSize >= BufferSize
    BY <1>1
  <2>4. (q - m) * BufferSize = r - rest
    BY <1>1, <1>2, <1>5
  <2> QED
    BY <1>1, <2>1, <2>2, <2>3, <2>4
<1> QED
  BY <1>1, <1>2, <1>4, <1>5, <1>6

\* The fragments 1..size \div BufferSize + 1 cover a line of this size.
LEMMA Covered ==
  ASSUME NEW size \in Nat
  PROVE  /\ size \div BufferSize \in Nat
         /\ size < (size \div BufferSize + 1) * BufferSize
         /\ \A k \in 1..(size \div BufferSize + 1) : (k - 1) * BufferSize <= size
<1>1. BufferSize \in Nat \ {0}
  BY LineAssumption
<1>2. /\ size \div BufferSize \in Nat
      /\ (size \div BufferSize) * BufferSize <= size
      /\ size < (size \div BufferSize + 1) * BufferSize
  BY <1>1
<1>3. ASSUME NEW k \in 1..(size \div BufferSize + 1)
      PROVE  (k - 1) * BufferSize <= size
  <2>1. k - 1 <= size \div BufferSize /\ k - 1 \in Nat
    BY <1>2
  <2>2. (k - 1) * BufferSize <= (size \div BufferSize) * BufferSize
    BY <1>1, <1>2, <2>1
  <2> QED
    BY <1>1, <1>2, <2>1, <2>2
<1> QED
  BY <1>2, <1>3

LEMMA Fragments ==
  ASSUME NEW bytes \in Seq(Alphabet), NEW k \in Nat \ {0}, (k - 1) * BufferSize <= Len(bytes)
  PROVE  LET begin == (k - 1) * BufferSize
             end   == FragmentEnd(bytes, k)
         IN /\ end \in begin..Len(bytes)
            /\ end = begin + BufferSize \/ (end = Len(bytes) /\ end < begin + BufferSize)
            /\ Len(Fragment(bytes, k)) = end - begin
            /\ \A b : EndsIn(Fragment(bytes, k), b) <=> end > begin /\ bytes[end] = b
<1>1. BufferSize \in Nat \ {0} /\ Len(bytes) \in Nat
  BY LineAssumption, LenProperties
<1>2. PICK begin \in Nat : begin = (k - 1) * BufferSize
  BY Multiples
<1>3. k * BufferSize = begin + BufferSize
  BY <1>2, Multiples
<1>4. PICK end \in Nat : end = FragmentEnd(bytes, k)
  BY <1>1, <1>3 DEF FragmentEnd
<1>5. /\ end \in begin..Len(bytes)
      /\ end = begin + BufferSize \/ (end = Len(bytes) /\ end < begin + BufferSize)
  BY <1>1, <1>2, <1>3, <1>4 DEF FragmentEnd
<1>6. PICK fragment : fragment = SubSeq(bytes, begin + 1, end)
  OBVIOUS
<1>7. fragment = Fragment(bytes, k)
  BY <1>2, <1>4, <1>6 DEF Fragment
<1>8. /\ fragment \in Seq(Alphabet)
      /\ Len(fragment) = end - begin
      /\ end > begin => fragment[end - begin] = bytes[end]
  <2>1. begin + 1 \in 1..(Len(bytes) + 1) /\ end \in begin..Len(bytes)
    BY <1>1, <1>5
  <2>2. /\ SubSeq(bytes, begin + 1, end) \in Seq(Alphabet)
        /\ Len(SubSeq(bytes, begin + 1, end)) = IF begin + 1 <= end THEN end - (begin + 1) + 1 ELSE 0
        /\ \A i \in 1..(end - (begin + 1) + 1) :
             SubSeq(bytes, begin + 1, end)[i] = bytes[begin + 1 + i - 1]
    BY <2>1, SubSeqProperties
  <2> QED
    BY <1>6, <2>1, <2>2
<1>9. fragment = <<>> <=> Len(fragment) = 0
  BY <1>8, EmptySeq
<1>10. \A b : EndsIn(fragment, b) <=> end > begin /\ bytes[end] = b
  BY <1>5, <1>8, <1>9 DEF EndsIn
<1> QED
  BY <1>2, <1>4, <1>5, <1>7, <1>8, <1>10

\* What an assembled line is stripped of is its ending.
LEMMA Stripped ==
  ASSUME NEW line, line.n \in Nat, line.end \in DOMAIN Endings
  PROVE  /\ StripNewline(Bytes(line)) = line.n
         /\ Terminated(line) => Len(Bytes(line)) - NewlineOverhead(Bytes(line)) = line.n
<1>1. PICK bytes : bytes = Bytes(line)
  OBVIOUS
<1>2. /\ bytes \in Seq(Alphabet)
      /\ Len(bytes) =
           line.n + (IF line.end = "eof" THEN 0 ELSE IF line.end = "crlf" THEN 2 ELSE 1)
      /\ \A i \in 1..Len(bytes) :
           /\ bytes[i] = "\n" <=> Terminated(line) /\ i = Len(bytes)
           /\ bytes[i] = "\r" <=> (line.end = "cr" \/ line.end = "crlf") /\ i = line.n + 1
  BY <1>1, BytesOfALine
<1>3. line.end \in {"lf", "crlf", "cr", "eof"}
  BY DEF Endings
<1>4. bytes = <<>> <=> Len(bytes) = 0
  BY <1>2, EmptySeq
<1>5. EndsIn(bytes, "\n") <=> Terminated(line)
  BY <1>2, <1>3, <1>4 DEF EndsIn, Terminated
<1>6. EndsIn(bytes, "\r") <=> line.end = "cr"
  BY <1>2, <1>3, <1>4 DEF EndsIn
<1>7. Terminated(line) => Len(bytes) - NewlineOverhead(bytes) = line.n
  BY <1>2, <1>3, <1>5 DEF NewlineOverhead, Terminated
<1>8. StripNewline(bytes) = line.n
  BY <1>2, <1>3, <1>5, <1>6, <1>7 DEF StripNewline, Terminated
<1> QED
  BY <1>1, <1>7, <1>8

-----------------------------------------------------------------------------
(* What is refused.                                                        *)

\* The loop has reached the k-th fragment of a line.
Reached(bytes, k) ==
  /\ k \in Nat \ {0} /\ (k - 1) * BufferSize <= Len(bytes)
  /\ \A j \in 1..(k - 1) : BufferFull(bytes, j)

\* An empty fragment follows a full buffer that ends at the line's last byte,
\* which then is no newline.
LEMMA EmptyFragment ==
  ASSUME NEW bytes \in Seq(Alphabet), NEW k, Reached(bytes, k),
         (k - 1) * BufferSize = Len(bytes), bytes # <<>>
  PROVE  k > 1 /\ bytes[Len(bytes)] # "\n"
<1>1. Len(bytes) \in Nat \ {0}
  BY LenProperties, EmptySeq
<1>2. k \in Nat \ {0} /\ k > 1
  BY <1>1, Multiples DEF Reached
<1>3. PICK j : j = k - 1
  OBVIOUS
<1>4. j \in Nat \ {0} /\ j \in 1..(k - 1)
  BY <1>2, <1>3
<1>5. /\ (j - 1) * BufferSize \in Nat
      /\ Len(bytes) = (j - 1) * BufferSize + BufferSize
  BY <1>2, <1>3, <1>4, Multiples
<1>6. BufferFull(bytes, j)
  BY <1>4 DEF Reached
<1>7. BufferSize \in Nat \ {0}
  BY LineAssumption
<1>8. FragmentEnd(bytes, j) = Len(bytes)
  BY <1>1, <1>3, <1>4, <1>5, <1>7, Multiples DEF FragmentEnd
<1>9. EndsIn(Fragment(bytes, j), "\n") <=> bytes[Len(bytes)] = "\n"
  <2>1. (j - 1) * BufferSize <= Len(bytes) /\ Len(bytes) > (j - 1) * BufferSize
    BY <1>1, <1>5, <1>7
  <2>2. \A b : EndsIn(Fragment(bytes, j), b) <=>
                FragmentEnd(bytes, j) > (j - 1) * BufferSize /\ bytes[FragmentEnd(bytes, j)] = b
    BY <1>4, <2>1, Fragments
  <2> QED
    BY <1>8, <2>1, <2>2
<1> QED
  BY <1>2, <1>6, <1>9 DEF BufferFull, FoundNewline

LEMMA RefusedIsOversized ==
  ASSUME NEW line, line.n \in Nat, line.end \in DOMAIN Endings,
         NEW k, Reached(Bytes(line), k), TooLong(Bytes(line), k)
  PROVE  Oversized(line)
<1>1. PICK bytes : bytes = Bytes(line)
  OBVIOUS
<1>2. /\ bytes \in Seq(Alphabet)
      /\ Len(bytes) =
           line.n + (IF line.end = "eof" THEN 0 ELSE IF line.end = "crlf" THEN 2 ELSE 1)
      /\ \A i \in 1..Len(bytes) :
           /\ bytes[i] = "\n" <=> Terminated(line) /\ i = Len(bytes)
           /\ bytes[i] = "\r" <=> (line.end = "cr" \/ line.end = "crlf") /\ i = line.n + 1
  BY <1>1, BytesOfALine
<1>3. line.end \in {"lf", "crlf", "cr", "eof"} /\ MaxLine \in Int /\ BufferSize \in Nat \ {0}
  BY LineAssumption DEF Endings
<1>4. Terminated(line) => Len(bytes) - NewlineOverhead(bytes) = line.n
  BY <1>1, Stripped
<1>5. Reached(bytes, k) /\ TooLong(bytes, k)
  BY <1>1
<1>6. k \in Nat \ {0} /\ (k - 1) * BufferSize <= Len(bytes)
  BY <1>5 DEF Reached
<1>7. PICK begin \in Nat : begin = (k - 1) * BufferSize
  BY <1>6, Multiples
<1>8. PICK end : end = FragmentEnd(bytes, k)
  OBVIOUS
<1>9. /\ end \in begin..Len(bytes)
      /\ end = begin + BufferSize \/ (end = Len(bytes) /\ end < begin + BufferSize)
      /\ \A b : EndsIn(Fragment(bytes, k), b) <=> end > begin /\ bytes[end] = b
  BY <1>2, <1>6, <1>7, <1>8, Fragments
<1>10. CASE FoundNewline(bytes, k)
  <2>1. ExceedsMax(Len(bytes) - NewlineOverhead(bytes))
    BY <1>5, <1>10 DEF TooLong
  <2>2. Terminated(line)
    BY <1>2, <1>7, <1>9, <1>10 DEF FoundNewline
  <2> QED
    BY <1>4, <2>1, <2>2 DEF ExceedsMax, Oversized
<1>11. CASE ~FoundNewline(bytes, k) /\ EndsIn(Fragment(bytes, k), "\r")
  <2>1. ExceedsMax(end - 1)
    BY <1>5, <1>8, <1>11 DEF TooLong, ContentEstimate
  <2>2. end = line.n + 1
    BY <1>2, <1>3, <1>7, <1>9, <1>11
  <2> QED
    BY <2>1, <2>2 DEF ExceedsMax, Oversized
<1>12. CASE ~FoundNewline(bytes, k) /\ ~EndsIn(Fragment(bytes, k), "\r")
  <2>1. MaxLine > 0 /\ end > MaxLine
    BY <1>5, <1>8, <1>12 DEF TooLong, ContentEstimate, ExceedsMax
  <2>2. CASE end <= line.n
    BY <1>3, <1>9, <2>1, <2>2 DEF Oversized
  <2>3. CASE end > line.n
    <3>1. end = begin
      BY <1>2, <1>3, <1>7, <1>9, <1>12, <2>3 DEF FoundNewline, Terminated
    <3>2. end = Len(bytes)
      BY <1>3, <1>7, <1>9, <3>1
    <3>3. bytes # <<>>
      BY <1>2, <1>3, <2>1, <3>2, EmptySeq
    <3>4. k > 1 /\ bytes[Len(bytes)] # "\n"
      BY <1>2, <1>5, <1>7, <3>1, <3>2, <3>3, EmptyFragment
    <3>5. line.end = "cr" /\ Len(bytes) = line.n + 1
      BY <1>2, <1>3, <2>3, <3>2, <3>4 DEF Terminated
    <3>6. (k - 1) * BufferSize % BufferSize = 0
      <4>1. k - 1 \in Nat /\ 0 \in 0..(BufferSize - 1)
        BY <1>3, <1>6
      <4>2. ((k - 1) * BufferSize + 0) % BufferSize = 0
        BY <4>1, Remainder
      <4> QED
        BY <1>7, <4>2
    <3>7. line.n + 1 = (k - 1) * BufferSize
      BY <1>7, <3>1, <3>2, <3>5
    <3>8. line.n >= MaxLine
      BY <1>3, <2>1, <3>2, <3>5
    <3> QED
      BY <1>3, <2>1, <3>5, <3>6, <3>7, <3>8 DEF Oversized
  <2> QED
    BY <1>2, <1>3, <1>9, <2>2, <2>3
<1> QED
  BY <1>10, <1>11, <1>12

LEMMA OversizedIsRefused ==
  ASSUME NEW line, line.n \in Nat, line.end \in DOMAIN Endings, Oversized(line),
         NEW k, Reached(Bytes(line), k), ~BufferFull(Bytes(line), k)
  PROVE  TooLong(Bytes(line), k)
<1>1. PICK bytes : bytes = Bytes(line)
  OBVIOUS
<1>2. /\ bytes \in Seq(Alphabet)
      /\ Len(bytes) =
           line.n + (IF line.end = "eof" THEN 0 ELSE IF line.end = "crlf" THEN 2 ELSE 1)
      /\ \A i \in 1..Len(bytes) :
           /\ bytes[i] = "\n" <=> Terminated(line) /\ i = Len(bytes)
           /\ bytes[i] = "\r" <=> (line.end = "cr" \/ line.end = "crlf") /\ i = line.n + 1
  BY <1>1, BytesOfALine
<1>3. line.end \in {"lf", "crlf", "cr", "eof"} /\ MaxLine \in Int /\ BufferSize \in Nat \ {0}
  BY LineAssumption DEF Endings
<1>4. Terminated(line) => Len(bytes) - NewlineOverhead(bytes) = line.n
  BY <1>1, Stripped
<1>5. Reached(bytes, k) /\ ~BufferFull(bytes, k)
  BY <1>1
<1>6. k \in Nat \ {0} /\ (k - 1) * BufferSize <= Len(bytes)
  BY <1>5 DEF Reached
<1>7. PICK begin \in Nat : begin = (k - 1) * BufferSize
  BY <1>6, Multiples
<1>8. PICK end : end = FragmentEnd(bytes, k)
  OBVIOUS
<1>9. /\ end \in begin..Len(bytes)
      /\ end = begin + BufferSize \/ (end = Len(bytes) /\ end < begin + BufferSize)
      /\ Len(Fragment(bytes, k)) = end - begin
      /\ \A b : EndsIn(Fragment(bytes, k), b) <=> end > begin /\ bytes[end] = b
  BY <1>2, <1>6, <1>7, <1>8, Fragments
<1>10. MaxLine > 0 /\ line.n >= MaxLine
  BY <1>3 DEF Oversized
<1>11. line.n > MaxLine \/ (line.end = "cr" /\ line.n = MaxLine /\ (line.n + 1) % BufferSize = 0)
  BY <1>3 DEF Oversized
<1>12. CASE FoundNewline(bytes, k)
  <2>1. Terminated(line)
    BY <1>2, <1>7, <1>9, <1>12 DEF FoundNewline
  <2>2. line.n > MaxLine
    BY <1>11, <2>1 DEF Terminated
  <2> QED
    BY <1>1, <1>4, <1>10, <1>12, <2>1, <2>2 DEF TooLong, ExceedsMax
<1>13. CASE ~FoundNewline(bytes, k)
  <2>1. end = Len(bytes) /\ end < begin + BufferSize
    BY <1>3, <1>5, <1>7, <1>9, <1>13 DEF BufferFull
  <2>2. ExceedsMax(ContentEstimate(bytes, k)) => TooLong(bytes, k)
    BY <1>13 DEF TooLong
  <2>3. CASE end > begin
    <3>1. line.end = "cr" \/ line.end = "eof"
      BY <1>2, <1>3, <1>7, <1>9, <1>13, <2>1, <2>3 DEF FoundNewline, Terminated
    <3>2. CASE line.end = "cr"
      <4>1. bytes[end] = "\r"
        BY <1>2, <1>7, <1>9, <2>1, <2>3, <3>2
      <4>2. ContentEstimate(bytes, k) = line.n
        BY <1>2, <1>8, <1>9, <2>1, <2>3, <3>2, <4>1 DEF ContentEstimate
      <4>3. line.n > MaxLine
        <5>1. SUFFICES ASSUME (line.n + 1) % BufferSize = 0
                       PROVE  FALSE
          BY <1>11
        <5>2. line.n + 1 = begin + (end - begin) /\ end - begin \in 1..(BufferSize - 1)
          BY <1>2, <1>3, <1>7, <1>9, <2>1, <2>3, <3>2
        <5>3. ((k - 1) * BufferSize + (end - begin)) % BufferSize = end - begin
          <6>1. k - 1 \in Nat /\ end - begin \in 0..(BufferSize - 1)
            BY <1>3, <1>6, <5>2
          <6> QED
            BY <6>1, Remainder
        <5> QED
          BY <1>7, <5>1, <5>2, <5>3
      <4> QED
        BY <1>1, <1>10, <2>2, <4>2, <4>3 DEF ExceedsMax
    <3>3. CASE line.end = "eof"
      <4>1. bytes[end] # "\r"
        BY <1>2, <1>7, <1>9, <2>1, <2>3, <3>3
      <4>2. ContentEstimate(bytes, k) = line.n
        BY <1>2, <1>8, <1>9, <2>1, <3>3, <4>1 DEF ContentEstimate
      <4> QED
        BY <1>1, <1>10, <1>11, <2>2, <3>3, <4>2 DEF ExceedsMax
    <3> QED
      BY <3>1, <3>2, <3>3
  <2>4. CASE end = begin
    <3>1. bytes # <<>>
      BY <1>2, <1>3, <1>10, EmptySeq
    <3>2. bytes[Len(bytes)] # "\n" /\ Len(bytes) \in 1..Len(bytes)
      BY <1>2, <1>3, <1>5, <1>7, <1>10, <2>1, <2>4, <3>1, EmptyFragment
    <3>3. line.end = "cr" \/ line.end = "eof"
      BY <1>2, <1>3, <3>2 DEF Terminated
    <3>4. ContentEstimate(bytes, k) = Len(bytes)
      BY <1>7, <1>8, <1>9, <2>1, <2>4 DEF ContentEstimate
    <3>5. Len(bytes) > MaxLine
      BY <1>2, <1>3, <1>10, <1>11, <3>3
    <3> QED
      BY <1>1, <1>10, <2>2, <3>4, <3>5 DEF ExceedsMax
  <2> QED
    BY <1>2, <1>3, <1>7, <1>9, <2>3, <2>4
<1> QED
  BY <1>12, <1>13

-----------------------------------------------------------------------------
(* What ReadLine returns.                                                  *)

\* A fragment that does not fill the buffer with an unfinished line ends the
\* loop, and the line is not longer than all its fragments.
LEMMA LoopEndsAtAFragment ==
  ASSUME NEW line, line.n \in Nat, line.end \in DOMAIN Endings
  PROVE  LET bytes == Bytes(line)
             last  == LastFragment(bytes)
         IN /\ Reached(bytes, last)
            /\ TooLong(bytes, last) \/ ~BufferFull(bytes, last)
<1>1. PICK bytes : bytes = Bytes(line)
  OBVIOUS
<1>2. bytes \in Seq(Alphabet) /\ Len(bytes) \in Nat
  BY <1>1, BytesOfALine, LenProperties
<1>3. BufferSize \in Nat \ {0}
  BY LineAssumption
<1>4. PICK final : final = Len(bytes) \div BufferSize + 1
  OBVIOUS
<1>5. /\ final \in Nat \ {0} /\ Len(bytes) < final * BufferSize
      /\ \A k \in 1..final : (k - 1) * BufferSize <= Len(bytes)
  <2>1. /\ Len(bytes) \div BufferSize \in Nat
        /\ Len(bytes) < (Len(bytes) \div BufferSize + 1) * BufferSize
        /\ \A k \in 1..(Len(bytes) \div BufferSize + 1) : (k - 1) * BufferSize <= Len(bytes)
    BY <1>2, Covered
  <2> QED
    BY <1>4, <2>1
<1>6. PICK stops : stops = {k \in 1..final : TooLong(bytes, k) \/ ~BufferFull(bytes, k)}
  OBVIOUS
<1>7. final \in stops
  <2>1. (final - 1) * BufferSize <= Len(bytes) /\ final \in 1..final
    BY <1>5
  <2>2. /\ (final - 1) * BufferSize \in Nat
        /\ final * BufferSize = (final - 1) * BufferSize + BufferSize
    BY <1>5, Multiples
  <2>3. FragmentEnd(bytes, final) = Len(bytes)
    BY <1>2, <1>3, <1>5, <2>2 DEF FragmentEnd
  <2>4. Len(Fragment(bytes, final)) = FragmentEnd(bytes, final) - (final - 1) * BufferSize
    BY <1>2, <1>5, <2>1, Fragments
  <2>5. Len(Fragment(bytes, final)) # BufferSize
    BY <1>2, <1>3, <1>5, <2>2, <2>3, <2>4
  <2> QED
    BY <1>6, <2>1, <2>5 DEF BufferFull
<1>8. PICK first \in stops : \A k \in stops : first <= k
  <2>1. stops \subseteq Nat /\ stops # {}
    BY <1>5, <1>6, <1>7
  <2> QED
    BY <2>1, LeastNatural
<1>9. \A j \in 1..(first - 1) : BufferFull(bytes, j) /\ ~TooLong(bytes, j)
  BY <1>5, <1>6, <1>8
<1>10. PICK last : last = LastFragment(bytes)
  OBVIOUS
<1>11. /\ last \in 1..final
       /\ TooLong(bytes, last) \/ ~BufferFull(bytes, last)
       /\ \A j \in 1..(last - 1) : BufferFull(bytes, j) /\ ~TooLong(bytes, j)
  BY <1>4, <1>6, <1>8, <1>9, <1>10 DEF LastFragment
<1> QED
  BY <1>1, <1>5, <1>10, <1>11 DEF Reached

\* ReadLine returns ErrLineTooLong for the oversized lines and for no others,
\* and of the others the whole content: neither a boundary of the buffer nor a
\* carriage return and newline split by one changes what a line is (ReadLine
\* and stripNewline in lineread.go).
THEOREM LinesAreReadWhole ==
  ASSUME NEW line, line.n \in Nat, line.end \in DOMAIN Endings
  PROVE  /\ ReadLine(line).ok <=> ~Oversized(line)
         /\ ReadLine(line).size = line.n
<1>1. PICK bytes : bytes = Bytes(line)
  OBVIOUS
<1>2. PICK last : last = LastFragment(bytes)
  OBVIOUS
<1>3. Reached(bytes, last) /\ (TooLong(bytes, last) \/ ~BufferFull(bytes, last))
  BY <1>1, <1>2, LoopEndsAtAFragment
<1>4. TooLong(bytes, last) <=> Oversized(line)
  <2>1. TooLong(bytes, last) => Oversized(line)
    BY <1>1, <1>3, RefusedIsOversized
  <2>2. Oversized(line) => TooLong(bytes, last)
    BY <1>1, <1>3, OversizedIsRefused
  <2> QED
    BY <2>1, <2>2
<1>5. ReadLine(line).ok = ~TooLong(bytes, last)
  BY <1>1, <1>2 DEF ReadLine
<1>6. ReadLine(line).size = line.n
  BY Stripped DEF ReadLine
<1> QED
  BY <1>4, <1>5, <1>6

=============================================================================
