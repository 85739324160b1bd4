------------------------- MODULE BlockStreamProofs -------------------------
(***************************************************************************)
(* Proofs about BlockStream, for all chains of blocks of any texts.        *)
(*                                                                         *)
(* What the file has is what the chain is serialised to, up to where a     *)
(* crash has torn it, or over the bytes of another chain.  While it is     *)
(* loaded the buffer has the first bytes of one block of one of the two    *)
(* chains (Buffered): from its first byte, so that from_bytes finds the    *)
(* texts of the block and nothing else (ParserExact), but for the block    *)
(* whose first bytes the chain is written over, in which it finds less     *)
(* than three (ParserCut).  So it adds whole blocks only, and in order.    *)
(*                                                                         *)
(* Long, Join, Over and Added are Len, \o and Append under names that the  *)
(* leaves leave closed.                                                    *)
(***************************************************************************)
EXTENDS BlockStream, SequenceTheorems, TLAPS

(* The bytes of a block *)

\* The length of a sequence, which the leaves take for a number.
Long(s) == Len(s)
Join(s, t) == s \o t

\* How long a text of a block is, and where it begins and ends in its bytes.
Size(b, i) == Long(b[i])
Begin(b, i) ==
  IF i = 1 THEN 1 ELSE IF i = 2 THEN Size(b, 1) + 3 ELSE Size(b, 1) + Size(b, 2) + 5
After(b, i) == Begin(b, i) + Size(b, i) + 1
Length(b) == Long(ToBytes(b))

\* The delimiters are bytes, differ, and are not letters.
LEMMA Delimiters ==
  /\ START \in Byte /\ END \in Byte /\ EOF \in Byte /\ Letters \subseteq Byte
  /\ START \notin Letters /\ END \notin Letters /\ EOF \notin Letters
  /\ START # END /\ START # EOF /\ END # EOF
  BY BlockStreamAssumption DEF BlockStreamAssumption, Byte

\* The places of the three texts of a block follow one another.
LEMMA Places ==
  ASSUME NEW b \in Block
  PROVE  /\ \A i \in 1 .. 3 : /\ b[i] \in Texts /\ Size(b, i) \in Nat
                              /\ Begin(b, i) \in Nat /\ After(b, i) \in Nat
                              /\ After(b, i) = Begin(b, i) + Size(b, i) + 1
         /\ Begin(b, 1) = 1
         /\ Begin(b, 2) = After(b, 1) + 1
         /\ Begin(b, 3) = After(b, 2) + 1
<1>1. \A i \in 1 .. 3 : b[i] \in Texts /\ Size(b, i) \in Nat
  BY LenProperties DEF Block, Texts, Size, Long
<1>2. Size(b, 1) \in Nat /\ Size(b, 2) \in Nat /\ Size(b, 3) \in Nat
  BY <1>1
<1>3. Begin(b, 1) = 1 /\ Begin(b, 2) = Size(b, 1) + 3
      /\ Begin(b, 3) = Size(b, 1) + Size(b, 2) + 5
  BY DEF Begin
<1>4. ASSUME NEW i \in 1 .. 3
      PROVE  Begin(b, i) \in Nat
  <2>1. i = 1 \/ i = 2 \/ i = 3
    OBVIOUS
  <2> QED
    BY <1>2, <1>3, <2>1
<1>5. ASSUME NEW i \in 1 .. 3
      PROVE  After(b, i) = Begin(b, i) + Size(b, i) + 1 /\ After(b, i) \in Nat
  BY <1>1, <1>4 DEF After
<1>6. Begin(b, 2) = After(b, 1) + 1 /\ Begin(b, 3) = After(b, 2) + 1
  BY <1>2, <1>3, <1>5
<1> QED
  BY <1>1, <1>3, <1>4, <1>5, <1>6

\* A sequence of bytes that goes on with another.
LEMMA Joined ==
  ASSUME NEW s \in Seq(Byte), NEW t \in Seq(Byte)
  PROVE  /\ Join(s, t) \in Seq(Byte)
         /\ Long(s) \in Nat /\ Long(t) \in Nat
         /\ Long(Join(s, t)) = Long(s) + Long(t)
         /\ \A x \in 1 .. Long(s) : Join(s, t)[x] = s[x]
         /\ \A x \in 1 .. Long(t) : Join(s, t)[Long(s) + x] = t[x]
<1>1. Long(s) \in Nat /\ Long(t) \in Nat
  BY LenProperties DEF Long
<1>2. Join(s, t) \in Seq(Byte) /\ Long(Join(s, t)) = Long(s) + Long(t)
  BY ConcatProperties DEF Long, Join
<1>3. \A x \in 1 .. Long(s) + Long(t) :
        Join(s, t)[x] = IF x <= Long(s) THEN s[x] ELSE t[x - Long(s)]
  BY ConcatProperties DEF Long, Join
<1>4. ASSUME NEW x \in 1 .. Long(t)
      PROVE  Join(s, t)[Long(s) + x] = t[x]
  <2>1. Long(s) + x \in 1 .. Long(s) + Long(t) /\ ~ Long(s) + x <= Long(s)
        /\ (Long(s) + x) - Long(s) = x
    BY <1>1
  <2> QED
    BY <1>3, <2>1
<1> QED
  BY <1>1, <1>2, <1>3, <1>4

\* The bytes of a block: between START and END the letters of each text, EOF last.
LEMMA BytesOf ==
  ASSUME NEW b \in Block
  PROVE  /\ ToBytes(b) \in Seq(Byte)
         /\ Length(b) = After(b, 3) + 1
         /\ \A i \in 1 .. 3 :
              /\ ToBytes(b)[Begin(b, i)] = START
              /\ ToBytes(b)[After(b, i)] = END
              /\ \A x \in 1 .. Size(b, i) : ToBytes(b)[Begin(b, i) + x] = b[i][x]
         /\ ToBytes(b)[Length(b)] = EOF
<1> DEFINE t1 == b[1]
           t2 == b[2]
           t3 == b[3]
           l1 == Size(b, 1)
           l2 == Size(b, 2)
           l3 == Size(b, 3)
           between == <<END, START>>
           last == <<END, EOF>>
           first == <<START>>
           s1 == Join(first, t1)
           s2 == Join(s1, between)
           s3 == Join(s2, t2)
           s4 == Join(s3, between)
           s5 == Join(s4, t3)
           s6 == Join(s5, last)
<1>1. ToBytes(b) = s6
  BY DEF ToBytes, Join
<1>2. t1 \in Seq(Byte) /\ t2 \in Seq(Byte) /\ t3 \in Seq(Byte)
  BY Delimiters DEF Block, Texts
<1>3. between \in Seq(Byte) /\ Long(between) = 2 /\ between[1] = END /\ between[2] = START
  BY Delimiters DEF Long
<1>4. last \in Seq(Byte) /\ Long(last) = 2 /\ last[1] = END /\ last[2] = EOF
  BY Delimiters DEF Long
<1>5. first \in Seq(Byte) /\ Long(first) = 1 /\ first[1] = START
  BY Delimiters DEF Long
<1>6. l1 \in Nat /\ l2 \in Nat /\ l3 \in Nat
  BY Places
<1>t. Long(t1) = l1 /\ Long(t2) = l2 /\ Long(t3) = l3
  BY DEF Size
<1> HIDE DEF t1, t2, t3, between, last, first, l1, l2, l3
<1>7. /\ s1 \in Seq(Byte) /\ Long(s1) = 1 + l1
      /\ s1[1] = START /\ \A x \in 1 .. l1 : s1[1 + x] = t1[x]
  <2>1. /\ s1 \in Seq(Byte) /\ Long(s1) = Long(first) + Long(t1)
        /\ \A x \in 1 .. Long(first) : s1[x] = first[x]
        /\ \A x \in 1 .. Long(t1) : s1[Long(first) + x] = t1[x]
    BY <1>2, <1>5, Joined
  <2> QED
    BY <1>5, <1>6, <1>t, <2>1
<1> HIDE DEF s1
<1>8. /\ s2 \in Seq(Byte) /\ Long(s2) = 1 + l1 + 2
      /\ \A x \in 1 .. 1 + l1 : s2[x] = s1[x]
      /\ \A x \in 1 .. 2 : s2[1 + l1 + x] = between[x]
  <2>1. /\ s2 \in Seq(Byte) /\ Long(s2) = Long(s1) + Long(between)
        /\ \A x \in 1 .. Long(s1) : s2[x] = s1[x]
        /\ \A x \in 1 .. Long(between) : s2[Long(s1) + x] = between[x]
    BY <1>3, <1>7, Joined
  <2> QED
    BY <1>3, <1>6, <1>7, <2>1
<1> HIDE DEF s2
<1>9. /\ s3 \in Seq(Byte) /\ Long(s3) = 1 + l1 + 2 + l2
      /\ \A x \in 1 .. 1 + l1 + 2 : s3[x] = s2[x]
      /\ \A x \in 1 .. l2 : s3[1 + l1 + 2 + x] = t2[x]
  <2>1. /\ s3 \in Seq(Byte) /\ Long(s3) = Long(s2) + Long(t2)
        /\ \A x \in 1 .. Long(s2) : s3[x] = s2[x]
        /\ \A x \in 1 .. Long(t2) : s3[Long(s2) + x] = t2[x]
    BY <1>2, <1>8, Joined
  <2> QED
    BY <1>6, <1>t, <1>8, <2>1
<1> HIDE DEF s3
<1>10. /\ s4 \in Seq(Byte) /\ Long(s4) = 1 + l1 + 2 + l2 + 2
       /\ \A x \in 1 .. 1 + l1 + 2 + l2 : s4[x] = s3[x]
       /\ \A x \in 1 .. 2 : s4[1 + l1 + 2 + l2 + x] = between[x]
  <2>1. /\ s4 \in Seq(Byte) /\ Long(s4) = Long(s3) + Long(between)
        /\ \A x \in 1 .. Long(s3) : s4[x] = s3[x]
        /\ \A x \in 1 .. Long(between) : s4[Long(s3) + x] = between[x]
    BY <1>3, <1>9, Joined
  <2> QED
    BY <1>3, <1>6, <1>9, <2>1
<1> HIDE DEF s4
<1>11. /\ s5 \in Seq(Byte) /\ Long(s5) = 1 + l1 + 2 + l2 + 2 + l3
       /\ \A x \in 1 .. 1 + l1 + 2 + l2 + 2 : s5[x] = s4[x]
       /\ \A x \in 1 .. l3 : s5[1 + l1 + 2 + l2 + 2 + x] = t3[x]
  <2>1. /\ s5 \in Seq(Byte) /\ Long(s5) = Long(s4) + Long(t3)
        /\ \A x \in 1 .. Long(s4) : s5[x] = s4[x]
        /\ \A x \in 1 .. Long(t3) : s5[Long(s4) + x] = t3[x]
    BY <1>2, <1>10, Joined
  <2> QED
    BY <1>6, <1>t, <1>10, <2>1
<1> HIDE DEF s5
<1>12. /\ s6 \in Seq(Byte) /\ Long(s6) = 1 + l1 + 2 + l2 + 2 + l3 + 2
       /\ \A x \in 1 .. 1 + l1 + 2 + l2 + 2 + l3 : s6[x] = s5[x]
       /\ \A x \in 1 .. 2 : s6[1 + l1 + 2 + l2 + 2 + l3 + x] = last[x]
  <2>1. /\ s6 \in Seq(Byte) /\ Long(s6) = Long(s5) + Long(last)
        /\ \A x \in 1 .. Long(s5) : s6[x] = s5[x]
        /\ \A x \in 1 .. Long(last) : s6[Long(s5) + x] = last[x]
    BY <1>4, <1>11, Joined
  <2> QED
    BY <1>4, <1>6, <1>11, <2>1
<1> HIDE DEF s6
<1>13. Begin(b, 1) = 1 /\ Begin(b, 2) = l1 + 3 /\ Begin(b, 3) = l1 + l2 + 5
       /\ After(b, 1) = l1 + 2 /\ After(b, 2) = l1 + l2 + 4
       /\ After(b, 3) = l1 + l2 + l3 + 6
  BY <1>6 DEF Begin, After, l1, l2, l3
<1>14. /\ s6[1] = START /\ s6[l1 + 2] = END /\ \A x \in 1 .. l1 : s6[1 + x] = t1[x]
  <2>1. \A x \in 1 .. 1 + l1 + 2 : s6[x] = s2[x]
    BY <1>6, <1>9, <1>10, <1>11, <1>12
  <2>2. s2[1 + l1 + 1] = END
    BY <1>3, <1>8
  <2> QED
    BY <1>6, <1>7, <1>8, <2>1, <2>2
<1>15. /\ s6[l1 + 3] = START /\ s6[l1 + l2 + 4] = END
       /\ \A x \in 1 .. l2 : s6[l1 + 3 + x] = t2[x]
  <2>1. \A x \in 1 .. 1 + l1 + 2 + l2 + 2 : s6[x] = s4[x]
    BY <1>6, <1>11, <1>12
  <2>2. \A x \in 1 .. 1 + l1 + 2 + l2 : s6[x] = s3[x]
    BY <1>6, <1>10, <2>1
  <2>3. s2[1 + l1 + 2] = START
    BY <1>3, <1>8
  <2>4. s6[1 + l1 + 2] = START
    BY <1>6, <1>9, <2>2, <2>3
  <2>5. s4[1 + l1 + 2 + l2 + 1] = END
    BY <1>3, <1>10
  <2>6. s6[1 + l1 + 2 + l2 + 1] = END
    BY <1>6, <2>1, <2>5
  <2>7. ASSUME NEW x \in 1 .. l2
        PROVE  s6[1 + l1 + 2 + x] = t2[x]
    BY <1>6, <1>9, <2>2
  <2> QED
    BY <1>6, <2>4, <2>6, <2>7
<1>16. /\ s6[l1 + l2 + 5] = START /\ s6[l1 + l2 + l3 + 6] = END
       /\ \A x \in 1 .. l3 : s6[l1 + l2 + 5 + x] = t3[x]
  <2>1. s4[1 + l1 + 2 + l2 + 2] = START
    BY <1>3, <1>10
  <2>2. s6[1 + l1 + 2 + l2 + 2] = START
    BY <1>6, <1>11, <1>12, <2>1
  <2>3. s6[1 + l1 + 2 + l2 + 2 + l3 + 1] = END
    BY <1>4, <1>12
  <2>4. ASSUME NEW x \in 1 .. l3
        PROVE  s6[1 + l1 + 2 + l2 + 2 + x] = t3[x]
    BY <1>6, <1>11, <1>12
  <2> QED
    BY <1>6, <2>2, <2>3, <2>4
<1>17. ASSUME NEW i \in 1 .. 3
       PROVE  /\ s6[Begin(b, i)] = START
              /\ s6[After(b, i)] = END
              /\ \A x \in 1 .. Size(b, i) : s6[Begin(b, i) + x] = b[i][x]
  <2>1. CASE i = 1
    BY <1>13, <1>14, <2>1 DEF t1, l1
  <2>2. CASE i = 2
    BY <1>13, <1>15, <2>2 DEF t2, l2
  <2>3. CASE i = 3
    BY <1>13, <1>16, <2>3 DEF t3, l3
  <2> QED
    BY <2>1, <2>2, <2>3
<1>18. Long(s6) = After(b, 3) + 1
  BY <1>6, <1>12, <1>13
<1>19. s6[Long(s6)] = EOF
  <2>1. s6[1 + l1 + 2 + l2 + 2 + l3 + 2] = EOF
    BY <1>4, <1>12
  <2> QED
    BY <1>12, <2>1
<1> QED
  BY <1>1, <1>12, <1>17, <1>18, <1>19 DEF Length

-----------------------------------------------------------------------------

(* The invariant *)

\* Where block k of the blocks collected so far ends.
End(e, k) == IF k = 0 THEN 0 ELSE e[k]

\* s has the bytes of the first blocks of c, one block after the other, and e
\* their ends: every byte is one of a block.
Serial(c, s, e) ==
  /\ Long(e) <= Long(c)
  /\ Long(s) = End(e, Long(e))
  /\ \A k \in 1 .. Long(e) :
       /\ e[k] = End(e, k - 1) + Length(c[k])
       /\ e[k] <= Long(s)
       /\ \A x \in 1 .. Length(c[k]) : s[End(e, k - 1) + x] = ToBytes(c[k])[x]
  /\ \A x \in 0 .. Long(s) - 1 :
       \E k \in 1 .. Long(e) : End(e, k - 1) <= x /\ x < e[k]

SavedInv ==
  /\ Serial(chain, stream, ends)
  /\ Serial(other, otherStream, otherEnds)

\* Before the file is read nothing is loaded.
StartInv ==
  pc \in {"serialise", "write"} =>
    /\ place = 0 /\ buffer = <<>> /\ out = <<>> /\ ParserIdle
    /\ pc = "serialise" => other = <<>>
    /\ pc = "write" => Long(ends) = Long(chain)

Loading == pc \in {"read", "parse", "done", "raise"}

\* The file that is read: the bytes of the chain as far as they were written,
\* and after them those of the other worker.
FileInv ==
  Loading =>
    /\ Long(ends) = Long(chain) /\ Long(otherEnds) = Long(other)
    /\ Long(file) <= Long(stream) \/ Long(file) = Long(otherStream)
    /\ other # <<>> => Long(stream) <= Long(file) /\ Long(otherStream) <= Long(file)
    /\ \A x \in 1 .. Long(file) :
         file[x] = IF x <= Long(stream) THEN stream[x] ELSE otherStream[x]

\* What from_bytes has found in the bytes of block b: its first texts, and the
\* beginning of the next one.
ParserExact(b) ==
  LET i == Long(blocks)
  IN  /\ i <= 3
      /\ \A x \in 1 .. i : blocks[x] = b[x]
      /\ recording =>
           /\ i < 3
           /\ at = Begin(b, i + 1) + Long(current)
           /\ Long(current) <= Size(b, i + 1)
           /\ \A x \in 1 .. Long(current) : current[x] = b[i + 1][x]
      /\ ~ recording => at = IF i = 0 THEN 0 ELSE After(b, i)

\* How many texts begin in the first y bytes of a block, the first one left out.
Starts(b, y) == IF y < Begin(b, 2) THEN 0 ELSE IF y < Begin(b, 3) THEN 1 ELSE 2

\* In the bytes of b after the first p, p > 0: no more texts than begin there.
ParserCut(b, p) == Long(blocks) + (IF recording THEN 1 ELSE 0) <= Starts(b, p + at)

\* The buffer has the bytes of b after the first p.  (p > 0 only where the bytes
\* of the other chain come to light in the middle of a block.)
Buffered(b, p) ==
  /\ \A x \in 1 .. Long(buffer) : buffer[x] = ToBytes(b)[p + x]
  /\ pc \in {"read", "done"} => ParserIdle /\ p + Long(buffer) < Length(b)
  /\ pc \in {"parse", "raise"} => p + Long(buffer) = Length(b)
  /\ pc = "parse" => IF p = 0 THEN ParserExact(b) ELSE ParserCut(b, p)
  /\ pc = "raise" => p > 0

\* A block of the chain is being read,
OnOwn ==
  /\ Long(out) < Long(chain)
  /\ out = Loaded(SubSeq(chain, 1, Long(out)))
  /\ place = End(ends, Long(out)) + Long(buffer)
  /\ Buffered(chain[Long(out) + 1], 0)

\* block j + 1 of the other one, of which m .. j are loaded,
OnOther(j, m) ==
  /\ out = Loaded(chain \o SubSeq(other, m, j))
  /\ Long(stream) <= End(otherEnds, j)
  /\ place = End(otherEnds, j) + Long(buffer)
  /\ Buffered(other[j + 1], 0)

\* the same block without its first p bytes, over which the chain is written,
OnCut(j, p) ==
  /\ out = Loaded(chain)
  /\ p < Length(other[j + 1])
  /\ Long(stream) = End(otherEnds, j) + p
  /\ place = Long(stream) + Long(buffer)
  /\ Buffered(other[j + 1], p)

\* one of the other chain has been refused,
Refused(j, m) ==
  /\ pc = "raise" /\ other # <<>>
  /\ out = Loaded(chain \o SubSeq(other, m, j))

\* or nothing is left.
AtEnd(m) ==
  /\ out = Loaded(chain \o SubSeq(other, m, Long(other)))
  /\ place = Long(file) /\ Long(stream) <= place /\ buffer = <<>>
  /\ pc \in {"read", "done"} /\ ParserIdle

Located ==
  \/ OnOwn /\ (pc = "done" => place = Long(file) /\ other = <<>>)
  \/ pc # "done" /\ \E j \in 0 .. Long(other) - 1 : \E m \in 1 .. j + 1 : OnOther(j, m)
  \/ pc # "done" /\ \E j \in 0 .. Long(other) - 1 : \E p \in 1 .. Long(stream) : OnCut(j, p)
  \/ \E m \in 1 .. Long(other) + 1 : \E j \in m - 1 .. Long(other) : Refused(j, m)
  \/ \E m \in 1 .. Long(other) + 1 : AtEnd(m)

LoadInv == Loading => Located

StreamInv == TypeOK /\ SavedInv /\ StartInv /\ FileInv /\ LoadInv

-----------------------------------------------------------------------------
(* Types *)

LEMMA LongIsLen ==
  ASSUME NEW S, NEW s \in Seq(S)
  PROVE  Long(s) = Len(s) /\ Long(s) \in Nat /\ DOMAIN s = 1 .. Long(s)
         /\ \A x \in 1 .. Long(s) : s[x] \in S
  BY LenProperties, ElementOfSeq DEF Long

\* A sequence over S is one over a larger set.
LEMMA MoreElements ==
  ASSUME NEW S, NEW T, S \subseteq T, NEW s \in Seq(S)
  PROVE  s \in Seq(T)
  OBVIOUS

\* A block has its three pairs of delimiters and the EOF at least.
LEMMA LengthPositive ==
  ASSUME NEW b \in Block
  PROVE  Length(b) \in Nat /\ Length(b) >= 7 /\ ToBytes(b) \in Seq(Byte)
         /\ Length(b) = Len(ToBytes(b))
<1>1. Length(b) = After(b, 3) + 1 /\ ToBytes(b) \in Seq(Byte)
  BY BytesOf
<1>2. Size(b, 1) \in Nat /\ Size(b, 2) \in Nat /\ Size(b, 3) \in Nat
  BY Places
<1>3. After(b, 3) = Size(b, 1) + Size(b, 2) + 5 + Size(b, 3) + 1
  BY DEF After, Begin
<1> QED
  BY <1>1, <1>2, <1>3 DEF Length, Long

\* Three texts make a block: Block.from_bytes takes them by position.
LEMMA ThreeTexts ==
  ASSUME NEW t \in Seq(Texts), Len(t) = 3
  PROVE  t \in Block
  BY LenProperties DEF Block

\* A chain that is being serialised keeps its types.
LEMMA ExtendedTypes ==
  ASSUME NEW c \in Seq(Block), NEW s \in Seq(Byte), NEW e \in Seq(1 .. Len(s)),
         Len(e) < Len(c),
         NEW s1, s1 = s \o ToBytes(c[Len(e) + 1]),
         NEW e1, e1 = Append(e, Len(s1))
  PROVE  s1 \in Seq(Byte) /\ e1 \in Seq(1 .. Len(s1))
<1> DEFINE b == c[Len(e) + 1]
<1>1. Len(e) \in Nat /\ Len(c) \in Nat /\ Len(s) = Long(s) /\ Long(s) \in Nat
  BY LenProperties DEF Long
<1>2. b \in Block
  BY <1>1, ElementOfSeq
<1> HIDE DEF b
<1>3. s1 = Join(s, ToBytes(b))
  BY DEF Join, b
<1>4. ToBytes(b) \in Seq(Byte) /\ Long(ToBytes(b)) \in Nat /\ Long(ToBytes(b)) >= 7
  BY <1>2, LengthPositive DEF Length
<1>5. s1 \in Seq(Byte) /\ Long(s1) = Long(s) + Long(ToBytes(b))
  BY <1>3, <1>4, Joined
<1>6. Len(s1) = Long(s1)
  BY DEF Long
<1>7. Len(s1) \in 1 .. Len(s1) /\ 1 .. Len(s) \subseteq 1 .. Len(s1)
  BY <1>1, <1>4, <1>5, <1>6
<1>8. e \in Seq(1 .. Len(s1))
  BY <1>7, MoreElements
<1> QED
  BY <1>5, <1>7, <1>8, AppendProperties

\* The types of the first states.
LEMMA InitTypes == Init => TypeOK /\ StartInv
<1> SUFFICES ASSUME Init
             PROVE  TypeOK /\ StartInv
  OBVIOUS
<1>1. TypeOK
  <2>1. \A S : <<>> \in Seq(S)
    OBVIOUS
  <2>2. Len(file) = 0 /\ Len(buffer) = 0
    BY DEF Init
  <2>3. chain \in Seq(Block) /\ pc = "serialise" /\ place \in 0 .. Len(file)
        /\ at \in 0 .. Len(buffer)
    BY <2>2, BlockStreamAssumption DEF BlockStreamAssumption, Init, ParserIdle
  <2>4. recording \in BOOLEAN
    BY Zenon DEF Init, ParserIdle
  <2> QED
    BY <2>1, <2>3, <2>4 DEF Init, ParserIdle, TypeOK, Texts
<1>2. StartInv
  BY DEF Init, ParserIdle, StartInv
<1> QED
  BY <1>1, <1>2

\* What is not yet loaded stays so until the file is written.
LEMMA StartMoves == StartInv /\ [Next]_vars => StartInv'
  BY DEF Next, Save, Load, Extend, Open, BeginOther, ExtendOther, WriteOther, Write, Tear,
     ReadByte, Finish, Parsing, ParseStart, ParseEnd, ParseLetter, AtEOF, AddBlock, Refuse,
     Malformed, StartInv, ParserIdle, ParserReset, vars, saved, mine, others, parser, Long

\* Every step keeps the types.
LEMMA NextTypes == TypeOK /\ StartInv /\ [Next]_vars => TypeOK'
<1> SUFFICES ASSUME TypeOK, StartInv, [Next]_vars
             PROVE  TypeOK'
  OBVIOUS
<1> USE DEF saved, mine, others, parser
<1>1. CASE Extend
  BY <1>1, ExtendedTypes DEF Extend, TypeOK
<1>2. CASE Open
  BY <1>2 DEF Open, TypeOK, StartInv
<1>3. CASE BeginOther
  BY <1>3, BlockStreamAssumption DEF BlockStreamAssumption, BeginOther, TypeOK
<1>4. CASE ExtendOther
  BY <1>4, ExtendedTypes DEF ExtendOther, TypeOK
<1>5. CASE WriteOther
  BY <1>5 DEF WriteOther, TypeOK, StartInv
<1>6. CASE Write
  <2>1. SubSeq(file, Len(stream) + 1, Len(file)) \in Seq(Byte)
    BY SubSeqProperties, LenProperties DEF TypeOK
  <2>2. file' \in Seq(Byte)
    BY <1>6, <2>1, ConcatProperties DEF Write, TypeOK
  <2>3. place' \in 0 .. Len(file')
    BY <1>6, <2>2, LenProperties DEF Write, StartInv
  <2> QED
    BY <1>6, <2>2, <2>3 DEF Write, TypeOK
<1>7. CASE Tear
  <2>1. file' \in Seq(Byte)
    BY <1>7, SubSeqProperties, LenProperties DEF Tear, TypeOK
  <2>2. place' \in 0 .. Len(file')
    BY <1>7, <2>1, LenProperties DEF Tear, StartInv
  <2> QED
    BY <1>7, <2>1, <2>2 DEF Tear, TypeOK
<1>8. CASE ReadByte
  <2>1. file[place + 1] \in Byte /\ place' \in 0 .. Len(file)
    BY <1>8, ElementOfSeq, LenProperties DEF ReadByte, TypeOK
  <2>2. buffer' \in Seq(Byte) /\ Len(buffer') = Len(buffer) + 1
    BY <1>8, <2>1, AppendProperties DEF ReadByte, TypeOK
  <2>3. at' \in 0 .. Len(buffer')
    BY <1>8, <2>2, LenProperties DEF ReadByte, TypeOK
  <2> QED
    BY <1>8, <2>1, <2>2, <2>3 DEF ReadByte, TypeOK
<1>9. CASE Finish
  BY <1>9 DEF Finish, TypeOK
<1>10. CASE ParseStart
  BY <1>10 DEF ParseStart, Parsing, TypeOK, Texts
<1>11. CASE ParseEnd
  <2>1. blocks' \in Seq(Texts)
    BY <1>11, AppendProperties DEF ParseEnd, Parsing, TypeOK
  <2>2. at' \in 0 .. Len(buffer')
    BY <1>11, LenProperties DEF ParseEnd, Parsing, TypeOK
  <2> QED
    BY <1>11, <2>1, <2>2 DEF ParseEnd, Parsing, TypeOK
<1>12. CASE ParseLetter
  <2>1. current' \in Texts
    BY <1>12, AppendProperties DEF ParseLetter, Parsing, TypeOK, Texts
  <2> QED
    BY <1>12, <2>1 DEF ParseLetter, Parsing, TypeOK
<1>13. CASE AddBlock
  <2>1. [block |-> blocks, bytes |-> buffer] \in [block : Block, bytes : Seq(Byte)]
    BY <1>13, ThreeTexts DEF AddBlock, TypeOK
  <2>2. out' \in Seq([block : Block, bytes : Seq(Byte)])
    BY <1>13, <2>1, AppendProperties DEF AddBlock, TypeOK
  <2>3. buffer' \in Seq(Byte) /\ at' \in 0 .. Len(buffer') /\ blocks' \in Seq(Texts)
        /\ current' \in Texts
    BY <1>13 DEF AddBlock, ParserReset, Texts
  <2>4. recording' \in BOOLEAN
    BY <1>13, Zenon DEF AddBlock, ParserReset
  <2> QED
    BY <1>13, <2>2, <2>3, <2>4 DEF AddBlock, TypeOK
<1>14. CASE Malformed
  BY <1>14 DEF Malformed, TypeOK
<1>15. CASE UNCHANGED vars
  BY <1>15 DEF vars, TypeOK
<1>16. CASE Refuse
  <2>1. [block |-> blocks, bytes |-> buffer] \in [block : Block, bytes : Seq(Byte)]
    BY <1>16, ThreeTexts DEF Refuse, TypeOK
  <2> DEFINE E == [block : Block, bytes : Seq(Byte)]
             e == [block |-> blocks, bytes |-> buffer]
  <2> HIDE DEF E, e
  <2>2. out \in Seq(E) /\ e \in E /\ out' \in {out, Append(out, e)}
    BY <1>16, <2>1 DEF Refuse, TypeOK, E, e
  <2>3. Append(out, e) \in Seq(E)
    BY <2>2, AppendProperties
  <2>4. out' \in Seq([block : Block, bytes : Seq(Byte)])
    BY <2>2, <2>3 DEF E
  <2> QED
    BY <1>16, <2>4 DEF Refuse, TypeOK
<1> QED
  BY <1>1, <1>2, <1>3, <1>4, <1>5, <1>6, <1>7, <1>8, <1>9, <1>10, <1>11, <1>12, <1>13,
     <1>14, <1>15, <1>16 DEF Next, Save, Load

-----------------------------------------------------------------------------
(* The bytes that are saved *)

\* The next block is collected.
LEMMA ExtendedSerial ==
  ASSUME NEW c \in Seq(Block), NEW s \in Seq(Byte), NEW e \in Seq(1 .. Len(s)),
         Serial(c, s, e), Len(e) < Len(c),
         NEW s1, s1 = s \o ToBytes(c[Len(e) + 1]),
         NEW e1, e1 = Append(e, Len(s1))
  PROVE  Serial(c, s1, e1)
<1> DEFINE n == Long(e)
           l == Long(s)
           b == c[n + 1]
           t == Length(b)
<1>1. n \in Nat /\ l \in Nat /\ Long(c) \in Nat /\ n = Len(e) /\ l = Len(s) /\ n < Long(c)
  BY LenProperties DEF Long
<1>2. b \in Block
  BY <1>1, ElementOfSeq DEF Long
<1>3. t \in Nat /\ ToBytes(b) \in Seq(Byte)
  BY <1>2, LengthPositive
<1>4. \A k \in 1 .. n : e[k] \in 1 .. l
  BY <1>1, ElementOfSeq
<1>5. /\ s1 \in Seq(Byte) /\ Long(s1) = l + t
      /\ \A x \in 1 .. l : s1[x] = s[x]
      /\ \A x \in 1 .. t : s1[l + x] = ToBytes(b)[x]
  <2>1. s1 = Join(s, ToBytes(b))
    BY <1>1 DEF Join
  <2> HIDE DEF b
  <2>2. ASSUME NEW z, z = Join(s, ToBytes(b))
        PROVE  /\ z \in Seq(Byte) /\ Long(z) = Long(s) + Long(ToBytes(b))
               /\ \A x \in 1 .. Long(s) : z[x] = s[x]
               /\ \A x \in 1 .. Long(ToBytes(b)) : z[Long(s) + x] = ToBytes(b)[x]
    BY <1>3, <2>2, Joined
  <2> QED
    BY <2>1, <2>2 DEF Length
<1>6. Long(e1) = n + 1 /\ e1[n + 1] = l + t /\ \A k \in 1 .. n : e1[k] = e[k]
  <2>1. e \in Seq(Nat) /\ Len(s1) \in Nat /\ Len(s1) = l + t
    BY <1>1, <1>3, <1>5, MoreElements DEF Long
  <2> QED
    BY <1>1, <2>1, AppendProperties DEF Long
<1>7. \A k \in 0 .. n : End(e1, k) = End(e, k) /\ End(e, k) \in Nat
  BY <1>1, <1>4, <1>6 DEF End
<1>8. /\ n <= Long(c) /\ l = End(e, n)
      /\ \A k \in 1 .. n :
           /\ e[k] = End(e, k - 1) + Length(c[k])
           /\ e[k] <= l
           /\ \A x \in 1 .. Length(c[k]) : s[End(e, k - 1) + x] = ToBytes(c[k])[x]
      /\ \A x \in 0 .. l - 1 :
           \E k \in 1 .. n : End(e, k - 1) <= x /\ x < e[k]
  BY DEF Serial
<1>n. End(e1, n + 1) = e1[n + 1]
  BY <1>1 DEF End
<1> HIDE DEF n, l, t
<1>9. ASSUME NEW k \in 1 .. n + 1
      PROVE  /\ e1[k] = End(e1, k - 1) + Length(c[k])
             /\ e1[k] <= Long(s1)
             /\ \A x \in 1 .. Length(c[k]) : s1[End(e1, k - 1) + x] = ToBytes(c[k])[x]
  <2>1. CASE k = n + 1
    <3>1. k - 1 = n /\ End(e1, k - 1) = l
      BY <1>1, <1>7, <1>8, <2>1
    <3>2. Length(c[k]) = t /\ ToBytes(c[k]) = ToBytes(b)
      BY <2>1 DEF t
    <3> QED
      BY <1>1, <1>3, <1>5, <1>6, <2>1, <3>1, <3>2
  <2>2. CASE k \in 1 .. n
    <3>1. k - 1 \in 0 .. n /\ End(e1, k - 1) = End(e, k - 1) /\ End(e, k - 1) \in Nat
      BY <1>1, <1>7, <2>2
    <3>2. c[k] \in Block
      BY <1>1, <2>2, ElementOfSeq DEF Long
    <3>3. Length(c[k]) \in Nat
      BY <3>2, LengthPositive
    <3>4. /\ e[k] = End(e, k - 1) + Length(c[k]) /\ e[k] <= l
          /\ \A x \in 1 .. Length(c[k]) : s[End(e, k - 1) + x] = ToBytes(c[k])[x]
      BY <1>8, <2>2
    <3>5. ASSUME NEW x \in 1 .. Length(c[k])
          PROVE  s1[End(e1, k - 1) + x] = ToBytes(c[k])[x]
      <4>1. End(e, k - 1) + x \in 1 .. l
        BY <1>1, <3>1, <3>3, <3>4
      <4> QED
        BY <1>5, <3>1, <3>4, <4>1
    <3>6. e1[k] = e[k] /\ e[k] <= Long(s1)
      <4>1. e[k] \in 1 .. l
        BY <1>4, <2>2
      <4> QED
        BY <1>1, <1>3, <1>5, <1>6, <2>2, <3>4, <4>1
    <3> QED
      BY <3>1, <3>4, <3>5, <3>6
  <2>3. k = n + 1 \/ k \in 1 .. n
    BY <1>1
  <2> QED
    BY <2>1, <2>2, <2>3
<1>10. ASSUME NEW x \in 0 .. Long(s1) - 1
       PROVE  \E k \in 1 .. n + 1 : End(e1, k - 1) <= x /\ x < e1[k]
  <2>1. CASE x < l
    <3>1. PICK k \in 1 .. n : End(e, k - 1) <= x /\ x < e[k]
      <4>1. x \in 0 .. l - 1
        BY <1>1, <1>3, <1>5, <2>1
      <4> QED
        BY <1>8, <4>1
    <3>2. End(e1, k - 1) = End(e, k - 1) /\ e1[k] = e[k]
      BY <1>1, <1>6, <1>7, <3>1
    <3> QED
      BY <1>1, <3>1, <3>2
  <2>2. CASE ~ x < l
    <3>1. End(e1, (n + 1) - 1) = l
      BY <1>1, <1>7, <1>8
    <3> QED
      BY <1>1, <1>3, <1>5, <1>6, <2>2, <3>1
  <2> QED
    BY <2>1, <2>2
<1>11. n + 1 <= Long(c) /\ Long(s1) = End(e1, n + 1)
  BY <1>1, <1>5, <1>6, <1>n
<1> QED
  BY <1>6, <1>9, <1>10, <1>11 DEF Serial

\* What has no bytes is nothing of any chain.
LEMMA NoBlockSerial ==
  ASSUME NEW s \in Seq(Byte), NEW e \in Seq(1 .. Len(s)), Serial(<<>>, s, e), NEW c \in Seq(Block)
  PROVE  Serial(c, s, e) /\ s = <<>> /\ e = <<>>
<1>1. Long(e) = 0 /\ Long(s) = 0 /\ Long(c) \in Nat
  <2>1. Long(e) \in Nat /\ Long(c) \in Nat /\ Long(<<>>) = 0
    BY LenProperties DEF Long
  <2>2. Long(e) <= Long(<<>>) /\ Long(s) = End(e, Long(e))
    BY DEF Serial
  <2>3. Long(e) = 0
    BY <2>1, <2>2
  <2> QED
    BY <2>1, <2>2, <2>3 DEF End
<1>2. s = <<>> /\ e = <<>>
  BY <1>1, EmptySeq DEF Long
<1>3. Long(s) = End(e, Long(e))
  BY <1>1 DEF End
<1>4. Long(e) <= Long(c)
  BY <1>1
<1>5. 1 .. Long(e) = {} /\ 0 .. Long(s) - 1 = {}
  BY <1>1
<1> QED
  BY <1>2, <1>3, <1>4, <1>5 DEF Serial

\* In the first states nothing is serialised and no file is read.
LEMMA InitSaved == Init => SavedInv /\ FileInv /\ LoadInv
<1> SUFFICES ASSUME Init
             PROVE  SavedInv /\ FileInv /\ LoadInv
  OBVIOUS
<1>1. ~ Loading
  BY DEF Init, Loading
<1>2. chain \in Seq(Block) /\ Long(chain) \in Nat /\ Long(<<>>) = 0
  BY BlockStreamAssumption, LenProperties DEF BlockStreamAssumption, Init, Long
<1>3. ASSUME NEW c, Long(c) \in Nat
      PROVE  Serial(c, <<>>, <<>>)
  <2>1. Long(<<>>) = End(<<>>, Long(<<>>)) /\ Long(<<>>) <= Long(c)
    BY <1>2, <1>3 DEF End
  <2>2. 1 .. Long(<<>>) = {} /\ 0 .. Long(<<>>) - 1 = {}
    BY <1>2
  <2> QED
    BY <2>1, <2>2 DEF Serial
<1>4. SavedInv
  <2>1. Long(<<>>) \in Nat
    BY <1>2
  <2> QED
    BY <1>2, <1>3, <2>1 DEF Init, SavedInv
<1> QED
  BY <1>1, <1>4 DEF FileInv, LoadInv

\* Every step keeps the bytes collected those of the blocks.
LEMMA SavedMoves == TypeOK /\ SavedInv /\ [Next]_vars => SavedInv'
<1> SUFFICES ASSUME TypeOK, SavedInv, [Next]_vars
             PROVE  SavedInv'
  OBVIOUS
<1>1. CASE Extend
  BY <1>1, ExtendedSerial DEF Extend, TypeOK, SavedInv, others
<1>2. CASE BeginOther
  <2>1. other' \in Seq(Block)
    BY <1>2, BlockStreamAssumption DEF BlockStreamAssumption, BeginOther
  <2>2. Serial(other', otherStream, otherEnds)
    BY <1>2, <2>1, NoBlockSerial DEF BeginOther, TypeOK, SavedInv
  <2> QED
    BY <1>2, <2>2 DEF BeginOther, SavedInv, mine
<1>3. CASE ExtendOther
  BY <1>3, ExtendedSerial DEF ExtendOther, TypeOK, SavedInv, mine
<1>4. CASE UNCHANGED <<mine, others>>
  BY <1>4 DEF mine, others, SavedInv
<1> QED
  BY <1>1, <1>2, <1>3, <1>4 DEF Next, Save, Load, Open, WriteOther, Write, Tear,
     ReadByte, Finish, Parsing, ParseStart, ParseEnd, ParseLetter, AddBlock, Refuse, Malformed,
     vars, saved

\* The bytes s written over the bytes t.
Over(s, t) == s \o SubSeq(t, Len(s) + 1, Len(t))

\* The bytes written over another file: theirs first, then what is left of it.
LEMMA Overwritten ==
  ASSUME NEW s \in Seq(Byte), NEW t \in Seq(Byte), NEW f, f = Over(s, t)
  PROVE  /\ Long(f) <= Long(s) \/ Long(f) = Long(t)
         /\ Long(s) <= Long(f) /\ Long(t) <= Long(f)
         /\ \A x \in 1 .. Long(f) : f[x] = IF x <= Long(s) THEN s[x] ELSE t[x]
<1> DEFINE l == Long(s)
           r == SubSeq(t, Len(s) + 1, Len(t))
<1>1. l \in Nat /\ Long(t) \in Nat /\ l = Len(s) /\ Long(t) = Len(t)
  BY LenProperties DEF Long
<1>2. \A x \in l + 1 .. Long(t) : t[x] \in Byte
  BY <1>1, ElementOfSeq
<1>3. /\ r \in Seq(Byte)
      /\ Long(r) = IF l + 1 <= Long(t) THEN Long(t) - l ELSE 0
      /\ \A x \in 1 .. Long(t) - l : r[x] = t[l + x]
  <2>1. l + 1 \in Int /\ Long(t) \in Int /\ r = SubSeq(t, l + 1, Long(t))
    BY <1>1
  <2> HIDE DEF l, r
  <2>2. /\ r \in Seq(Byte)
        /\ Len(r) = IF l + 1 <= Long(t) THEN Long(t) - (l + 1) + 1 ELSE 0
        /\ \A x \in 1 .. Long(t) - (l + 1) + 1 : r[x] = t[(l + 1) + x - 1]
    BY <1>2, <2>1, SubSeqProperties
  <2>3. Long(r) = Len(r) /\ \A x \in Int : (l + 1) + x - 1 = l + x
    BY <1>1 DEF Long
  <2> QED
    BY <1>1, <2>2, <2>3
<1>4. f = Join(s, r)
  BY DEF Join, Over
<1> HIDE DEF r
<1>5. ASSUME NEW z, z = Join(s, r)
      PROVE  /\ Long(z) = l + Long(r)
             /\ \A x \in 1 .. l : z[x] = s[x]
             /\ \A x \in 1 .. Long(r) : z[l + x] = r[x]
  BY <1>3, <1>5, Joined
<1>6. /\ Long(f) = l + Long(r)
      /\ \A x \in 1 .. l : f[x] = s[x]
      /\ \A x \in 1 .. Long(r) : f[l + x] = r[x]
  BY <1>4, <1>5
<1> HIDE DEF l
<1>7. ASSUME NEW x \in 1 .. Long(f), ~ x <= l
      PROVE  f[x] = t[x]
  <2>1. x - l \in 1 .. Long(r) /\ x - l \in 1 .. Long(t) - l /\ l + (x - l) = x
    BY <1>1, <1>3, <1>6, <1>7
  <2>2. f[l + (x - l)] = r[x - l] /\ r[x - l] = t[l + (x - l)]
    BY <1>3, <1>6, <2>1
  <2> QED
    BY <2>1, <2>2
<1>8. ASSUME NEW x \in 1 .. Long(f), x <= l
      PROVE  f[x] = s[x]
  BY <1>1, <1>6, <1>8
<1>9. /\ Long(f) <= l \/ Long(f) = Long(t)
      /\ l <= Long(f) /\ Long(t) <= Long(f)
  BY <1>1, <1>3, <1>6
<1> QED
  BY <1>7, <1>8, <1>9 DEF l

\* Every step keeps what is known of the file.
LEMMA FileMoves == TypeOK /\ StartInv /\ SavedInv /\ FileInv /\ [Next]_vars => FileInv'
<1> SUFFICES ASSUME TypeOK, StartInv, SavedInv, FileInv, [Next]_vars, Loading'
             PROVE  /\ Long(ends') = Long(chain') /\ Long(otherEnds') = Long(other')
                    /\ Long(file') <= Long(stream') \/ Long(file') = Long(otherStream')
                    /\ other' # <<>> =>
                         Long(stream') <= Long(file') /\ Long(otherStream') <= Long(file')
                    /\ \A x \in 1 .. Long(file') :
                         file'[x] = IF x <= Long(stream') THEN stream'[x] ELSE otherStream'[x]
  BY DEF FileInv, Long
<1>1. CASE Write
  <2>1. UNCHANGED <<mine, others>>
    BY <1>1 DEF Write
  <2>2. Len(otherEnds) = Len(other) /\ Long(ends) = Long(chain)
        /\ file' = Over(stream, otherStream)
    BY <1>1 DEF Write, StartInv, Over
  <2>3. /\ Long(file') <= Long(stream) \/ Long(file') = Long(otherStream)
        /\ Long(stream) <= Long(file') /\ Long(otherStream) <= Long(file')
        /\ \A x \in 1 .. Long(file') :
             file'[x] = IF x <= Long(stream) THEN stream[x] ELSE otherStream[x]
    <3>1. stream \in Seq(Byte) /\ otherStream \in Seq(Byte)
      BY DEF TypeOK
    <3> QED
      BY <2>2, <3>1, Overwritten
  <2> QED
    BY <2>1, <2>2, <2>3 DEF mine, others, Long
<1>2. CASE Tear
  <2>1. UNCHANGED <<mine, others>> /\ other = <<>>
    BY <1>2 DEF Tear
  <2>2. Long(ends) = Long(chain)
    BY <1>2 DEF Tear, StartInv
  <2>3. PICK k \in 0 .. Len(stream) : file' = SubSeq(stream, 1, k)
    BY <1>2 DEF Tear
  <2>4. Len(stream) \in Nat /\ k \in Int /\ k <= Len(stream)
        /\ \A x \in 1 .. Len(stream) : stream[x] \in Byte
    BY LenProperties, ElementOfSeq DEF TypeOK
  <2>5. Len(file') = k /\ \A x \in 1 .. k : file'[x] = stream[x]
    <3>1. \A x \in 1 .. k : stream[x] \in Byte
      BY <2>4
    <3>2. /\ Len(file') = IF 1 <= k THEN k - 1 + 1 ELSE 0
          /\ \A x \in 1 .. k - 1 + 1 : file'[x] = stream[1 + x - 1]
      BY <2>3, <2>4, <3>1, SubSeqProperties
    <3>3. k \in Nat /\ \A x \in Int : 1 + x - 1 = x
      BY <2>3
    <3> QED
      BY <3>2, <3>3
  <2>6. Len(otherEnds) = Len(other)
    BY <2>1, NoBlockSerial DEF TypeOK, SavedInv
  <2> QED
    BY <2>1, <2>2, <2>4, <2>5, <2>6 DEF mine, others, Long
<1>3. CASE Loading /\ UNCHANGED saved
  BY <1>3 DEF FileInv, saved, mine, others
<1> QED
  BY <1>1, <1>2, <1>3 DEF Loading, Next, Save, Load, Extend, Open, BeginOther, ExtendOther,
     WriteOther, ReadByte, Finish, Parsing, ParseStart, ParseEnd, ParseLetter, AtEOF, AddBlock,
     Refuse, Malformed, vars

-----------------------------------------------------------------------------
(* from_bytes *)

\* What is where: every place has a delimiter or a letter of a text.
LEMMA PlaceOf ==
  ASSUME NEW b \in Block, NEW x \in 1 .. Length(b)
  PROVE  \/ x = Length(b) /\ ToBytes(b)[x] = EOF
         \/ \E i \in 1 .. 3 :
              \/ x = Begin(b, i) /\ ToBytes(b)[x] = START
              \/ x = After(b, i) /\ ToBytes(b)[x] = END
              \/ /\ Begin(b, i) < x /\ x < After(b, i)
                 /\ ToBytes(b)[x] = b[i][x - Begin(b, i)] /\ ToBytes(b)[x] \in Letters
<1>1. ASSUME NEW i \in 1 .. 3, Begin(b, i) <= x, x <= After(b, i)
      PROVE  \/ x = Begin(b, i) /\ ToBytes(b)[x] = START
             \/ x = After(b, i) /\ ToBytes(b)[x] = END
             \/ /\ Begin(b, i) < x /\ x < After(b, i)
                /\ ToBytes(b)[x] = b[i][x - Begin(b, i)] /\ ToBytes(b)[x] \in Letters
  <2>1. /\ b[i] \in Seq(Letters) /\ Size(b, i) \in Nat /\ Begin(b, i) \in Nat
        /\ After(b, i) = Begin(b, i) + Size(b, i) + 1
    BY Places DEF Texts
  <2>2. /\ ToBytes(b)[Begin(b, i)] = START
        /\ ToBytes(b)[After(b, i)] = END
        /\ \A y \in 1 .. Size(b, i) : ToBytes(b)[Begin(b, i) + y] = b[i][y]
    BY BytesOf
  <2>3. ASSUME Begin(b, i) < x, x < After(b, i)
        PROVE  ToBytes(b)[x] = b[i][x - Begin(b, i)] /\ b[i][x - Begin(b, i)] \in Letters
    <3> DEFINE y == x - Begin(b, i)
    <3>1. y \in 1 .. Size(b, i) /\ x = Begin(b, i) + y
      BY <2>1, <2>3
    <3>2. b[i][y] \in Letters
      BY <2>1, <3>1, LongIsLen DEF Size
    <3> HIDE DEF y
    <3> QED
      BY <2>2, <3>1, <3>2 DEF y
  <2>4. x \in Int
    OBVIOUS
  <2> QED
    BY <1>1, <2>1, <2>2, <2>3, <2>4
<1>2. /\ Begin(b, 1) = 1 /\ Begin(b, 2) = After(b, 1) + 1 /\ Begin(b, 3) = After(b, 2) + 1
      /\ Length(b) = After(b, 3) + 1
      /\ After(b, 1) \in Nat /\ After(b, 2) \in Nat /\ After(b, 3) \in Nat
  BY Places, BytesOf
<1>3. ToBytes(b)[Length(b)] = EOF
  BY BytesOf
<1>4. \/ x = Length(b)
      \/ Begin(b, 1) <= x /\ x <= After(b, 1)
      \/ Begin(b, 2) <= x /\ x <= After(b, 2)
      \/ Begin(b, 3) <= x /\ x <= After(b, 3)
  BY <1>2
<1> QED
  BY <1>1, <1>3, <1>4

\* The one EOF of a block is its last byte.
LEMMA EofIsLast ==
  ASSUME NEW b \in Block, NEW x \in 1 .. Length(b)
  PROVE  ToBytes(b)[x] = EOF <=> x = Length(b)
  BY PlaceOf, BytesOf, Delimiters

\* In the bytes of a block from its first one: what from_bytes reads next.
LEMMA NextExact ==
  ASSUME TypeOK, NEW b \in Block, Buffered(b, 0), pc = "parse", at < Long(buffer)
  PROVE  LET i == Long(blocks)
         IN  /\ i \in 0 .. 3 /\ at \in Nat /\ Long(current) \in Nat
             /\ \A x \in 1 .. i : blocks[x] = b[x]
             /\ \/ /\ ~ recording /\ i < 3
                   /\ buffer[at + 1] = START /\ at + 1 = Begin(b, i + 1)
                \/ /\ recording /\ i < 3 /\ Long(current) < Size(b, i + 1)
                   /\ at = Begin(b, i + 1) + Long(current)
                   /\ buffer[at + 1] = b[i + 1][Long(current) + 1]
                   /\ buffer[at + 1] \in Letters
                \/ /\ recording /\ i < 3 /\ Long(current) = Size(b, i + 1)
                   /\ buffer[at + 1] = END /\ at + 1 = After(b, i + 1)
                \/ /\ ~ recording /\ i = 3
                   /\ buffer[at + 1] = EOF
<1> DEFINE i == Long(blocks)
           l == Long(current)
           y == at + 1
<1>1. i \in Nat /\ l \in Nat /\ Long(buffer) \in Nat /\ at \in Nat
  BY LongIsLen DEF TypeOK, Texts
<1>2. Length(b) \in Nat /\ Long(buffer) = Length(b) /\ y \in 1 .. Length(b)
  BY <1>1, LengthPositive DEF Buffered
<1>3. buffer[y] = ToBytes(b)[y]
  <2>1. buffer[y] = ToBytes(b)[0 + y]
    BY <1>2 DEF Buffered
  <2> QED
    BY <1>1, <2>1
<1>4. /\ i <= 3
      /\ \A x \in 1 .. i : blocks[x] = b[x]
      /\ recording =>
           /\ i < 3
           /\ at = Begin(b, i + 1) + l
           /\ l <= Size(b, i + 1)
      /\ ~ recording => at = IF i = 0 THEN 0 ELSE After(b, i)
  BY DEF Buffered, ParserExact
<1> HIDE DEF i, l
<1>5. CASE recording
  <2>1. i + 1 \in 1 .. 3
    BY <1>1, <1>4, <1>5
  <2>2. /\ b[i + 1] \in Seq(Letters) /\ Size(b, i + 1) \in Nat /\ Begin(b, i + 1) \in Nat
        /\ After(b, i + 1) = Begin(b, i + 1) + Size(b, i + 1) + 1
    BY <2>1, Places DEF Texts
  <2>3. /\ ToBytes(b)[After(b, i + 1)] = END
        /\ \A x \in 1 .. Size(b, i + 1) : ToBytes(b)[Begin(b, i + 1) + x] = b[i + 1][x]
    BY <2>1, BytesOf
  <2>4. CASE l = Size(b, i + 1)
    <3>1. y = After(b, i + 1)
      BY <1>1, <1>4, <1>5, <2>2, <2>4
    <3> QED
      BY <1>1, <1>3, <1>4, <1>5, <2>3, <2>4, <3>1 DEF i, l
  <2>5. CASE l < Size(b, i + 1)
    <3>1. l + 1 \in 1 .. Size(b, i + 1) /\ y = Begin(b, i + 1) + (l + 1)
      BY <1>1, <1>4, <1>5, <2>2, <2>5
    <3>2. buffer[y] = b[i + 1][l + 1]
      BY <1>3, <2>3, <3>1
    <3>3. b[i + 1][l + 1] \in Letters
      BY <2>2, <3>1, LongIsLen DEF Size
    <3> QED
      BY <1>1, <1>4, <1>5, <2>5, <3>2, <3>3 DEF i, l
  <2> QED
    BY <1>1, <1>4, <1>5, <2>2, <2>4, <2>5
<1>6. CASE ~ recording
  <2>1. /\ Begin(b, 1) = 1 /\ Begin(b, 2) = After(b, 1) + 1 /\ Begin(b, 3) = After(b, 2) + 1
        /\ Length(b) = After(b, 3) + 1
    BY Places, BytesOf
  <2>2. i = 0 \/ i = 1 \/ i = 2 \/ i = 3
    BY <1>1, <1>4
  <2>3. CASE i = 3
    <3>1. y = Length(b)
      BY <1>4, <1>6, <2>1, <2>3
    <3> QED
      BY <1>1, <1>3, <1>4, <1>6, <2>3, <3>1, BytesOf DEF i, l
  <2>4. CASE i # 3
    <3>1. i + 1 \in 1 .. 3 /\ i < 3
      BY <2>2, <2>4
    <3>2. y = Begin(b, i + 1)
      BY <1>4, <1>6, <2>1, <2>2, <2>4
    <3>3. ToBytes(b)[Begin(b, i + 1)] = START
      BY <3>1, BytesOf
    <3> QED
      BY <1>1, <1>3, <1>4, <1>6, <3>1, <3>2, <3>3 DEF i, l
  <2> QED
    BY <2>3, <2>4
<1> QED
  BY <1>5, <1>6

Added(s, a) == Append(s, a)

\* An element appended comes last and leaves the others where they are.
LEMMA Appended ==
  ASSUME NEW S, NEW s \in Seq(S), NEW a \in S, NEW s1, s1 = Added(s, a)
  PROVE  Long(s1) = Long(s) + 1 /\ s1[Long(s) + 1] = a
         /\ \A x \in 1 .. Long(s) : s1[x] = s[x]
<1>1. Len(s1) = Len(s) + 1 /\ s1[Len(s) + 1] = a /\ \A x \in 1 .. Len(s) : s1[x] = s[x]
  BY AppendProperties DEF Added
<1> QED
  BY <1>1 DEF Long

\* Sequences of one length with the same elements are one sequence.
LEMMA SameTexts ==
  ASSUME NEW S, NEW s \in Seq(S), NEW t \in Seq(S), Long(s) = Long(t),
         \A x \in 1 .. Long(s) : s[x] = t[x]
  PROVE  s = t
  BY SeqEqual, LenProperties DEF Long

\* A byte of a whole block takes the parser from the first texts to the next.
LEMMA ExactMoves ==
  ASSUME TypeOK, NEW b \in Block, Buffered(b, 0), ParseStart \/ ParseEnd \/ ParseLetter
  PROVE  ParserExact(b)'
<1> DEFINE i == Long(blocks)
           l == Long(current)
<1>1. pc = "parse" /\ at < Long(buffer) /\ at' = at + 1
  BY DEF ParseStart, ParseEnd, ParseLetter, Parsing, Long
<1>2. /\ i \in 0 .. 3 /\ at \in Nat /\ l \in Nat
      /\ \A x \in 1 .. i : blocks[x] = b[x]
      /\ \/ /\ ~ recording /\ i < 3
            /\ buffer[at + 1] = START /\ at + 1 = Begin(b, i + 1)
         \/ /\ recording /\ i < 3 /\ l < Size(b, i + 1)
            /\ at = Begin(b, i + 1) + l
            /\ buffer[at + 1] = b[i + 1][l + 1]
            /\ buffer[at + 1] \in Letters
         \/ /\ recording /\ i < 3 /\ l = Size(b, i + 1)
            /\ buffer[at + 1] = END /\ at + 1 = After(b, i + 1)
         \/ /\ ~ recording /\ i = 3
            /\ buffer[at + 1] = EOF
  BY <1>1, NextExact
<1>3. recording => \A x \in 1 .. l : current[x] = b[i + 1][x]
  BY <1>1 DEF Buffered, ParserExact
<1>4. \A k \in 1 .. 3 : b[k] \in Seq(Letters) /\ Size(b, k) \in Nat
  BY Places DEF Texts
<1> SUFFICES /\ Long(blocks') <= 3
             /\ \A x \in 1 .. Long(blocks') : blocks'[x] = b[x]
             /\ recording' =>
                  /\ Long(blocks') < 3
                  /\ at' = Begin(b, Long(blocks') + 1) + Long(current')
                  /\ Long(current') <= Size(b, Long(blocks') + 1)
                  /\ \A x \in 1 .. Long(current') : current'[x] = b[Long(blocks') + 1][x]
             /\ ~ recording' => at' = IF Long(blocks') = 0 THEN 0 ELSE After(b, Long(blocks'))
  BY DEF ParserExact, Long, Begin, After, Size
<1> HIDE DEF i, l
<1>5. CASE ParseStart
  <2>1. buffer[at + 1] = START /\ blocks' = blocks /\ current' = <<>> /\ recording' = TRUE
    BY <1>5 DEF ParseStart, Parsing
  <2>2. i < 3 /\ at + 1 = Begin(b, i + 1)
    BY <1>2, <2>1, Delimiters
  <2>3. Long(current') = 0
    BY <2>1 DEF Long
  <2>4. i + 1 \in 1 .. 3
    BY <1>2, <2>2
  <2>5. Size(b, i + 1) \in Nat /\ Begin(b, i + 1) \in Nat
    BY <2>4, Places
  <2> QED
    BY <1>1, <1>2, <2>1, <2>2, <2>3, <2>5 DEF i
<1>6. CASE ParseEnd
  <2>1. buffer[at + 1] = END /\ recording' = FALSE
    BY <1>6 DEF ParseEnd, Parsing
  <2>2. recording /\ i < 3 /\ l = Size(b, i + 1) /\ at + 1 = After(b, i + 1)
    BY <1>2, <2>1, Delimiters
  <2>3. blocks' = Added(blocks, current)
    BY <1>6, <2>2 DEF ParseEnd, Added
  <2>4. i + 1 \in 1 .. 3
    BY <1>2, <2>2
  <2>5. current = b[i + 1]
    <3>1. current \in Seq(Letters) /\ b[i + 1] \in Seq(Letters)
      BY <1>4, <2>4 DEF TypeOK, Texts
    <3> QED
      BY <1>3, <2>2, <3>1, SameTexts DEF Size, l
  <2>6. /\ Long(blocks') = i + 1 /\ blocks'[i + 1] = b[i + 1]
        /\ \A x \in 1 .. i : blocks'[x] = blocks[x]
    <3>1. blocks \in Seq(Texts) /\ current \in Texts
      BY DEF TypeOK
    <3>2. Long(blocks') = Long(blocks) + 1 /\ blocks'[Long(blocks) + 1] = current
          /\ \A x \in 1 .. Long(blocks) : blocks'[x] = blocks[x]
      BY <2>3, <3>1, Appended
    <3> QED
      BY <2>5, <3>2 DEF i
  <2>7. \A x \in 1 .. i + 1 : blocks'[x] = b[x]
    BY <1>2, <2>6
  <2> QED
    BY <1>1, <1>2, <2>1, <2>2, <2>6, <2>7
<1>7. CASE ParseLetter
  <2>1. PICK a \in Letters : Parsing(a) /\ current' = IF recording THEN Append(current, a) ELSE current
    BY <1>7 DEF ParseLetter
  <2>2. buffer[at + 1] = a /\ blocks' = blocks /\ recording' = recording
    BY <1>7, <2>1 DEF ParseLetter, Parsing
  <2>3. /\ recording /\ i < 3 /\ l < Size(b, i + 1)
        /\ at = Begin(b, i + 1) + l /\ a = b[i + 1][l + 1]
    BY <1>2, <2>2, Delimiters
  <2>4. Long(current') = l + 1 /\ current'[l + 1] = a /\ \A x \in 1 .. l : current'[x] = current[x]
    <3>1. current \in Seq(Letters) /\ current' = Added(current, a)
      BY <2>1, <2>3 DEF TypeOK, Texts, Added
    <3> QED
      BY <3>1, Appended DEF l
  <2>5. \A x \in 1 .. l + 1 : current'[x] = b[i + 1][x]
    BY <1>2, <1>3, <2>3, <2>4
  <2>6. Size(b, i + 1) \in Nat /\ Begin(b, i + 1) \in Nat
    BY <1>2, <2>3, Places
  <2> QED
    BY <1>1, <1>2, <2>2, <2>3, <2>4, <2>5, <2>6 DEF i
<1> QED
  BY <1>5, <1>6, <1>7

\* The texts that begin in a beginning of a block are at most two, and grow with it.
LEMMA StartsCounts ==
  ASSUME NEW b \in Block, NEW y \in Nat
  PROVE  /\ Starts(b, y) \in 0 .. 2
         /\ Starts(b, y) <= Starts(b, y + 1)
         /\ y + 1 = Begin(b, 2) \/ y + 1 = Begin(b, 3) => Starts(b, y + 1) = Starts(b, y) + 1
<1>1. Size(b, 1) \in Nat /\ Size(b, 2) \in Nat
  BY Places
<1>2. Begin(b, 2) = Size(b, 1) + 3 /\ Begin(b, 3) = Size(b, 1) + Size(b, 2) + 5
  BY DEF Begin
<1> QED
  BY <1>1, <1>2 DEF Starts

\* In the bytes of a block from a later one: the texts that are found are fewer
\* than three.
LEMMA CutMoves ==
  ASSUME TypeOK, NEW b \in Block, NEW p \in Nat, p > 0, Buffered(b, p),
         ParseStart \/ ParseEnd \/ ParseLetter
  PROVE  ParserCut(b, p)'
<1> DEFINE i == Long(blocks)
           y == p + at
<1>1. pc = "parse" /\ at < Long(buffer) /\ at' = at + 1
  BY DEF ParseStart, ParseEnd, ParseLetter, Parsing, Long
<1>2. i \in Nat /\ at \in Nat /\ Long(buffer) \in Nat
  BY LongIsLen DEF TypeOK
<1>3. p + Long(buffer) = Length(b) /\ i + (IF recording THEN 1 ELSE 0) <= Starts(b, y)
  BY <1>1 DEF Buffered, ParserCut
<1>4. y \in Nat /\ y + 1 \in 1 .. Length(b) /\ y + 1 > 1 /\ p + at' = y + 1
  BY <1>1, <1>2, <1>3
<1>5. buffer[at + 1] = ToBytes(b)[y + 1]
  <2>1. buffer[at + 1] = ToBytes(b)[p + (at + 1)]
    BY <1>1, <1>2 DEF Buffered
  <2> QED
    BY <1>2, <2>1
<1>6. Starts(b, y) \in Nat /\ Starts(b, y + 1) \in Nat /\ Starts(b, y) <= Starts(b, y + 1)
      /\ (y + 1 = Begin(b, 2) \/ y + 1 = Begin(b, 3) => Starts(b, y + 1) = Starts(b, y) + 1)
  BY <1>4, StartsCounts
<1> SUFFICES Long(blocks') + (IF recording' THEN 1 ELSE 0) <= Starts(b, y + 1)
  BY <1>4 DEF ParserCut, Starts, Begin, Size, Long
<1> HIDE DEF i, y
<1>7. CASE ParseStart
  <2>1. buffer[at + 1] = START /\ blocks' = blocks /\ recording' = TRUE
    BY <1>7 DEF ParseStart, Parsing
  <2>2. y + 1 = Begin(b, 2) \/ y + 1 = Begin(b, 3)
    <3>1. PICK k \in 1 .. 3 : y + 1 = Begin(b, k)
      BY <1>4, <1>5, <2>1, PlaceOf, Delimiters
    <3>2. k # 1
      BY <1>4, <3>1 DEF Begin
    <3>3. k = 2 \/ k = 3
      BY <3>2
    <3> QED
      BY <3>1, <3>3
  <2>3. i <= Starts(b, y)
    BY <1>2, <1>3, <1>6
  <2> QED
    BY <1>2, <1>6, <2>1, <2>2, <2>3 DEF i
<1>8. CASE ParseEnd
  <2>1. recording' = FALSE /\ blocks' = IF recording THEN Append(blocks, current) ELSE blocks
    BY <1>8 DEF ParseEnd
  <2>2. CASE recording
    <3>1. blocks' = Added(blocks, current)
      BY <2>1, <2>2 DEF Added
    <3>2. Long(blocks') = i + 1
      BY <3>1, Appended DEF TypeOK, i
    <3> QED
      BY <1>2, <1>3, <1>6, <2>1, <2>2, <3>2
  <2>3. CASE ~ recording
    BY <1>2, <1>3, <1>6, <2>1, <2>3 DEF i
  <2> QED
    BY <2>2, <2>3
<1>9. CASE ParseLetter
  <2>1. recording' = recording /\ blocks' = blocks
    BY <1>9 DEF ParseLetter
  <2> QED
    BY <1>2, <1>3, <1>6, <2>1 DEF i
<1> QED
  BY <1>7, <1>8, <1>9

\* The bytes of a block from the first one make the block; the bytes from a
\* later one do not make any.
LEMMA BlockMade ==
  ASSUME TypeOK, NEW b \in Block, NEW p \in Nat, p < Length(b), Buffered(b, p), AtEOF
  PROVE  IF p = 0 THEN blocks = b /\ buffer = ToBytes(b) /\ Len(blocks) = 3 ELSE Len(blocks) # 3
<1>1. pc = "parse" /\ at < Long(buffer) /\ buffer[at + 1] = EOF
  BY DEF AtEOF, Long
<1>2. Long(blocks) \in Nat /\ at \in Nat /\ Long(buffer) \in Nat /\ Long(blocks) = Len(blocks)
  BY LongIsLen DEF TypeOK
<1>3. p + Long(buffer) = Length(b) /\ \A x \in 1 .. Long(buffer) : buffer[x] = ToBytes(b)[p + x]
  BY <1>1 DEF Buffered
<1>4. CASE p = 0
  <2>1. Long(blocks) = 3 /\ \A x \in 1 .. 3 : blocks[x] = b[x]
    BY <1>1, <1>4, NextExact, Delimiters
  <2>2. blocks = b
    <3>1. blocks \in [1 .. 3 -> Texts]
      BY <1>2, <2>1, LenProperties DEF TypeOK
    <3> QED
      BY <2>1, <3>1 DEF Block
  <2>3. buffer = ToBytes(b)
    <3>1. buffer \in Seq(Byte) /\ ToBytes(b) \in Seq(Byte) /\ Long(buffer) = Long(ToBytes(b))
      BY <1>2, <1>3, <1>4, LengthPositive DEF TypeOK, Length
    <3>2. \A x \in 1 .. Long(buffer) : buffer[x] = ToBytes(b)[x]
      BY <1>3, <1>4
    <3> QED
      BY <3>1, <3>2, SameTexts
  <2> QED
    BY <1>4, <2>1, <2>2, <2>3 DEF Long
<1>5. CASE p # 0
  <2>1. Long(blocks) + (IF recording THEN 1 ELSE 0) <= Starts(b, p + at) /\ p + at \in Nat
    BY <1>1, <1>2, <1>5 DEF Buffered, ParserCut
  <2>2. Starts(b, p + at) \in 0 .. 2
    BY <2>1, StartsCounts
  <2>3. Long(blocks) <= Starts(b, p + at)
    <3>1. CASE recording
      BY <1>2, <2>1, <2>2, <3>1
    <3>2. CASE ~ recording
      BY <1>2, <2>1, <2>2, <3>2
    <3> QED
      BY <3>1, <3>2
  <2>4. Long(blocks) # 3
    <3>1. Long(blocks) \in Nat
      BY <1>2
    <3> QED
      BY <2>2, <2>3, <3>1
  <2> QED
    BY <1>5, <2>4 DEF Long
<1> QED
  BY <1>4, <1>5

-----------------------------------------------------------------------------
(* What is loaded *)

Entry(b) == [block |-> b, bytes |-> ToBytes(b)]

\* Adding a block adds its entry to what is loaded.
LEMMA LoadedMore ==
  ASSUME NEW c \in Seq(Block), NEW b \in Block, NEW o, o = Loaded(c)
  PROVE  Append(o, Entry(b)) = Loaded(Append(c, b))
<1> DEFINE E == [block : Block, bytes : Seq(Byte)]
           n == Len(c)
           d == Append(c, b)
<1>1. n \in Nat /\ DOMAIN c = 1 .. n /\ \A k \in 1 .. n : c[k] \in Block
  BY LenProperties, ElementOfSeq
<1>2. \A x \in Block : Entry(x) \in E
  BY LengthPositive DEF Entry
<1>3. o = [k \in 1 .. n |-> Entry(c[k])]
  BY <1>1 DEF Loaded, Entry
<1>4. o \in Seq(E) /\ Len(o) = n
  <2> HIDE DEF E, n
  <2> QED
    BY <1>1, <1>2, <1>3, IsASeq
<1>5. d \in Seq(Block) /\ Len(d) = n + 1 /\ DOMAIN d = 1 .. n + 1
      /\ (\A k \in 1 .. n : d[k] = c[k]) /\ d[n + 1] = b
  BY <1>1, AppendProperties, LenProperties
<1>6. Loaded(d) = [k \in 1 .. n + 1 |-> Entry(d[k])]
  BY <1>5 DEF Loaded, Entry
<1> HIDE DEF E, n, d
<1>7. Append(o, Entry(b)) = [k \in 1 .. n + 1 |-> IF k = n + 1 THEN Entry(b) ELSE o[k]]
  <2>1. /\ Append(o, Entry(b)) \in Seq(E) /\ Len(Append(o, Entry(b))) = n + 1
        /\ \A k \in 1 .. n : Append(o, Entry(b))[k] = o[k]
        /\ Append(o, Entry(b))[n + 1] = Entry(b)
    BY <1>2, <1>4, AppendProperties
  <2> DEFINE z == Append(o, Entry(b))
  <2> HIDE DEF z
  <2>2. /\ z \in Seq(E) /\ Len(z) = n + 1
        /\ \A k \in 1 .. n : z[k] = o[k]
        /\ z[n + 1] = Entry(b)
    BY <2>1 DEF z
  <2>3. DOMAIN z = 1 .. n + 1 /\ z = [k \in DOMAIN z |-> z[k]]
    BY <2>2, LenProperties
  <2>4. z = [k \in 1 .. n + 1 |-> IF k = n + 1 THEN Entry(b) ELSE o[k]]
    BY <1>1, <2>2, <2>3
  <2> QED
    BY <2>4 DEF z
<1> QED
  BY <1>1, <1>3, <1>5, <1>6, <1>7 DEF d

\* A part of a chain made longer by the block that follows it.
LEMMA SubSeqMore ==
  ASSUME NEW c \in Seq(Block), NEW m \in Nat, NEW j \in Nat, 1 <= m, m <= j + 1, j < Len(c)
  PROVE  /\ SubSeq(c, m, j) \in Seq(Block)
         /\ Append(SubSeq(c, m, j), c[j + 1]) = SubSeq(c, m, j + 1)
<1>1. Len(c) \in Nat /\ m \in 1 .. Len(c) /\ j + 1 \in m .. Len(c)
  BY LenProperties
<1>2. SubSeq(c, m, j + 1) = SubSeq(c, m, (j + 1) - 1) \o <<c[j + 1]>>
  BY <1>1, SubSeqRecursiveSecond
<1>3. (j + 1) - 1 = j
  OBVIOUS
<1>4. SubSeq(c, m, j) \in Seq(Block)
  <2>1. \A i \in m .. j : c[i] \in Block
    BY <1>1, ElementOfSeq
  <2> QED
    BY <2>1, SubSeqProperties
<1>5. c[j + 1] \in Block
  BY <1>1, ElementOfSeq
<1>6. Append(SubSeq(c, m, j), c[j + 1]) = SubSeq(c, m, j) \o <<c[j + 1]>>
  BY <1>4, <1>5, AppendIsConcat
<1> QED
  BY <1>2, <1>3, <1>4, <1>6

\* Appending to the second of two sequences appends to both.
LEMMA ConcatMore ==
  ASSUME NEW c \in Seq(Block), NEW d \in Seq(Block), NEW b \in Block
  PROVE  Append(c \o d, b) = c \o Append(d, b) /\ c \o d \in Seq(Block)
<1>1. c \o d \in Seq(Block) /\ <<b>> \in Seq(Block)
  BY ConcatProperties
<1>2. Append(c \o d, b) = (c \o d) \o <<b>> /\ Append(d, b) = d \o <<b>>
  BY <1>1, AppendIsConcat
<1>3. (c \o d) \o <<b>> = c \o (d \o <<b>>)
  BY <1>1, ConcatAssociative
<1> QED
  BY <1>1, <1>2, <1>3

\* The next block of the chain, added to those loaded before it.
LEMMA OwnLoaded ==
  ASSUME NEW c \in Seq(Block), NEW j \in Nat, j < Len(c)
  PROVE  Append(Loaded(SubSeq(c, 1, j)), Entry(c[j + 1])) = Loaded(SubSeq(c, 1, j + 1))
<1>1. c[j + 1] \in Block
  BY ElementOfSeq
<1>2. SubSeq(c, 1, j) \in Seq(Block) /\ Append(SubSeq(c, 1, j), c[j + 1]) = SubSeq(c, 1, j + 1)
  BY SubSeqMore
<1> QED
  BY <1>1, <1>2, LoadedMore

\* The next block of the other chain, added to those loaded before it.
LEMMA OtherLoaded ==
  ASSUME NEW c \in Seq(Block), NEW d \in Seq(Block), NEW m \in Nat, NEW j \in Nat,
         1 <= m, m <= j + 1, j < Len(d)
  PROVE  Append(Loaded(c \o SubSeq(d, m, j)), Entry(d[j + 1])) = Loaded(c \o SubSeq(d, m, j + 1))
<1>1. d[j + 1] \in Block
  BY ElementOfSeq
<1>2. SubSeq(d, m, j) \in Seq(Block) /\ Append(SubSeq(d, m, j), d[j + 1]) = SubSeq(d, m, j + 1)
  BY SubSeqMore
<1> DEFINE r == SubSeq(d, m, j)
           b == d[j + 1]
<1> HIDE DEF r, b
<1>3. c \o r \in Seq(Block) /\ Append(c \o r, b) = c \o Append(r, b)
  BY <1>1, <1>2, ConcatMore DEF r, b
<1>4. Append(Loaded(c \o r), Entry(b)) = Loaded(Append(c \o r, b))
  BY <1>1, <1>3, LoadedMore DEF b
<1> QED
  BY <1>2, <1>3, <1>4 DEF r, b

\* Block k + 1 of a serialised chain lies between two of the ends.
LEMMA SerialBlock ==
  ASSUME NEW c \in Seq(Block), NEW s \in Seq(Byte), NEW e \in Seq(1 .. Len(s)), Serial(c, s, e),
         NEW k \in Nat, k < Long(e)
  PROVE  /\ c[k + 1] \in Block /\ k < Long(c)
         /\ End(e, k) \in Nat /\ Long(s) \in Nat
         /\ End(e, k + 1) = e[k + 1] /\ e[k + 1] = End(e, k) + Length(c[k + 1])
         /\ e[k + 1] <= Long(s)
         /\ \A y \in 1 .. Length(c[k + 1]) : s[End(e, k) + y] = ToBytes(c[k + 1])[y]
<1>1. Long(e) \in Nat /\ Long(s) \in Nat /\ Long(c) \in Nat /\ Long(s) = Len(s)
      /\ \A x \in 1 .. Long(e) : e[x] \in 1 .. Long(s)
  BY LongIsLen
<1>2. Long(e) <= Long(c) /\ k + 1 \in 1 .. Long(e) /\ (k + 1) - 1 = k
  BY <1>1 DEF Serial
<1>3. /\ e[k + 1] = End(e, (k + 1) - 1) + Length(c[k + 1])
      /\ e[k + 1] <= Long(s)
      /\ \A x \in 1 .. Length(c[k + 1]) : s[End(e, (k + 1) - 1) + x] = ToBytes(c[k + 1])[x]
  BY <1>2 DEF Serial
<1>4. c[k + 1] \in Block /\ k < Long(c)
  <2>1. k + 1 \in 1 .. Long(c)
    BY <1>1, <1>2
  <2> QED
    BY <1>1, <2>1, LongIsLen
<1>5. End(e, k) \in Nat
  BY <1>1, <1>2 DEF End
<1>6. End(e, k + 1) = e[k + 1]
  BY DEF End
<1> QED
  BY <1>1, <1>2, <1>3, <1>4, <1>5, <1>6

\* Every byte of a serialised chain belongs to one of its blocks.
LEMMA AllEnds ==
  ASSUME NEW c \in Seq(Block), NEW s \in Seq(Byte), NEW e \in Seq(1 .. Len(s)), Serial(c, s, e)
  PROVE  /\ Long(s) \in Nat /\ Long(e) \in Nat /\ Long(c) \in Nat
         /\ Long(s) = End(e, Long(e))
         /\ \A x \in 0 .. Long(s) - 1 : \E k \in 1 .. Long(e) : End(e, k - 1) <= x /\ x < e[k]
  BY LongIsLen DEF Serial

\* The types the steps of the loading need, with the lengths as numbers.
LEMMA Lengths ==
  ASSUME TypeOK
  PROVE  /\ chain \in Seq(Block) /\ stream \in Seq(Byte) /\ ends \in Seq(1 .. Len(stream))
         /\ other \in Seq(Block) /\ otherStream \in Seq(Byte)
         /\ otherEnds \in Seq(1 .. Len(otherStream))
         /\ Long(chain) \in Nat /\ Long(other) \in Nat /\ Long(stream) \in Nat
         /\ Long(otherStream) \in Nat /\ Long(file) \in Nat /\ Long(buffer) \in Nat
         /\ Long(out) \in Nat /\ place \in Nat /\ place <= Long(file)
  BY LongIsLen DEF TypeOK

\* The byte that is read next is one of the block that is being read.
LEMMA OwnByte ==
  ASSUME TypeOK, SavedInv, FileInv, Loading, OnOwn, place < Long(file),
         Long(buffer) < Length(chain[Long(out) + 1])
  PROVE  file[place + 1] = ToBytes(chain[Long(out) + 1])[Long(buffer) + 1]
<1> DEFINE k == Long(out)
           b == chain[k + 1]
           y == Long(buffer) + 1
<1>1. k \in Nat /\ k < Long(ends) /\ Long(ends) = Long(chain)
      /\ place = End(ends, k) + Long(buffer)
  BY Lengths DEF FileInv, OnOwn
<1>l. Long(buffer) \in Nat /\ place \in Nat /\ Long(file) \in Nat /\ Long(stream) \in Nat
  BY Lengths
<1> HIDE DEF k
<1>2. /\ End(ends, k) \in Nat /\ ends[k + 1] = End(ends, k) + Length(b) /\ b \in Block
      /\ ends[k + 1] <= Long(stream)
      /\ \A x \in 1 .. Length(b) : stream[End(ends, k) + x] = ToBytes(b)[x]
  BY <1>1, SerialBlock, Lengths DEF SavedInv
<1>3. Length(b) \in Nat
  BY <1>2, LengthPositive
<1>4. y \in 1 .. Length(b)
  BY <1>3, <1>l DEF k
<1> HIDE DEF b
<1>5. place + 1 = End(ends, k) + y /\ place + 1 <= Long(stream) /\ place + 1 \in 1 .. Long(file)
  <2>1. place + 1 = End(ends, k) + y /\ place + 1 \in 1 .. Long(file)
    BY <1>1, <1>2, <1>l
  <2>2. End(ends, k) + y <= ends[k + 1]
    BY <1>2, <1>3, <1>4
  <2> QED
    BY <1>2, <1>3, <1>l, <2>1, <2>2
<1>6. file[place + 1] = stream[place + 1]
  BY <1>5 DEF FileInv
<1>7. stream[End(ends, k) + y] = ToBytes(b)[y]
  BY <1>2, <1>4
<1> QED
  BY <1>5, <1>6, <1>7 DEF b, k

\* Beyond the bytes of the chain the next byte is one of a block of the other.
LEMMA OtherByte ==
  ASSUME TypeOK, SavedInv, FileInv, Loading, place < Long(file),
         NEW j \in Nat, j < Long(other), NEW p \in Nat,
         Long(stream) <= End(otherEnds, j) + p,
         place = End(otherEnds, j) + p + Long(buffer),
         p + Long(buffer) < Length(other[j + 1])
  PROVE  file[place + 1] = ToBytes(other[j + 1])[p + (Long(buffer) + 1)]
<1> DEFINE b == other[j + 1]
           y == p + (Long(buffer) + 1)
<1>1. j < Long(otherEnds)
  BY DEF FileInv
<1>2. /\ End(otherEnds, j) \in Nat /\ b \in Block
      /\ otherEnds[j + 1] = End(otherEnds, j) + Length(b)
      /\ \A x \in 1 .. Length(b) : otherStream[End(otherEnds, j) + x] = ToBytes(b)[x]
  BY <1>1, SerialBlock, Lengths DEF SavedInv
<1>3. Length(b) \in Nat
  BY <1>2, LengthPositive
<1> HIDE DEF b
<1>4. Long(buffer) \in Nat /\ Long(file) \in Nat /\ Long(stream) \in Nat
  BY Lengths
<1>5. y \in 1 .. Length(b) /\ place + 1 = End(otherEnds, j) + y /\ ~ place + 1 <= Long(stream)
      /\ place + 1 \in 1 .. Long(file)
  BY <1>2, <1>3, <1>4 DEF b
<1>6. file[place + 1] = otherStream[place + 1]
  BY <1>5 DEF FileInv
<1>7. otherStream[End(otherEnds, j) + y] = ToBytes(b)[y]
  BY <1>2, <1>5
<1> QED
  BY <1>5, <1>6, <1>7 DEF b

\* What the steps of the load do to the bytes of a block, until it is added.
LEMMA BufferedMoves ==
  ASSUME TypeOK, NEW b \in Block, NEW p \in Nat, p < Length(b), Buffered(b, p),
         \/ ReadByte /\ file[place + 1] = ToBytes(b)[p + (Long(buffer) + 1)]
         \/ Finish \/ ParseStart \/ ParseEnd \/ ParseLetter \/ Malformed
  PROVE  /\ Buffered(b, p)' /\ UNCHANGED <<saved, out>>
         /\ \A d \in Nat : place = d + Long(buffer) => place' = d + Long(buffer')
         /\ Loading' /\ (pc' = "done" => pc = "read" /\ place = Long(file) /\ place' = place)
<1>1. Long(buffer) \in Nat /\ place \in Nat /\ Length(b) \in Nat
  BY Lengths, LengthPositive
<1>2. \A x \in 1 .. Long(buffer) : buffer[x] = ToBytes(b)[p + x]
  BY DEF Buffered
<1>3. CASE ReadByte /\ file[place + 1] = ToBytes(b)[p + (Long(buffer) + 1)]
  <2>1. pc = "read" /\ place' = place + 1 /\ buffer' = Added(buffer, file[place + 1])
        /\ UNCHANGED <<saved, out, parser>>
        /\ pc' = IF file[place + 1] = EOF THEN "parse" ELSE "read"
    BY <1>3 DEF ReadByte, Added
  <2>2. file[place + 1] \in Byte /\ buffer \in Seq(Byte)
    BY <1>3, ElementOfSeq DEF ReadByte, TypeOK
  <2>3. Long(buffer') = Long(buffer) + 1 /\ buffer'[Long(buffer) + 1] = file[place + 1]
        /\ \A x \in 1 .. Long(buffer) : buffer'[x] = buffer[x]
    BY <2>1, <2>2, Appended
  <2>4. \A x \in 1 .. Long(buffer') : buffer'[x] = ToBytes(b)[p + x]
    BY <1>1, <1>2, <1>3, <2>3
  <2>5. p + Long(buffer) < Length(b) /\ ParserIdle
    BY <2>1 DEF Buffered
  <2>6. p + (Long(buffer) + 1) \in 1 .. Length(b)
    BY <1>1, <2>5
  <2>7. file[place + 1] = EOF <=> p + (Long(buffer) + 1) = Length(b)
    BY <1>3, <2>6, EofIsLast
  <2>8. CASE file[place + 1] = EOF
    <3>1. pc' = "parse" /\ p + Long(buffer') = Length(b)
      BY <1>1, <2>1, <2>3, <2>7, <2>8
    <3>2. at' = 0 /\ blocks' = <<>> /\ current' = <<>> /\ recording' = FALSE
      BY <2>1, <2>5 DEF parser, ParserIdle
    <3>3. Long(blocks') = 0
      BY <3>2 DEF Long
    <3>4. ParserExact(b)'
      BY <3>2, <3>3 DEF ParserExact, Long
    <3>5. ParserCut(b, p)'
      <4>1. Starts(b, p) \in 0 .. 2 /\ p + at' = p
        BY <3>2, StartsCounts
      <4> QED
        BY <3>2, <3>3, <4>1 DEF ParserCut, Starts, Begin, Size, Long
    <3>6. Buffered(b, p)'
      BY <2>4, <3>1, <3>4, <3>5 DEF Buffered, Length, ToBytes, Long
    <3> QED
      BY <1>1, <2>1, <2>3, <3>1, <3>6 DEF Loading
  <2>9. CASE file[place + 1] # EOF
    <3>1. pc' = "read" /\ p + Long(buffer') < Length(b)
      BY <1>1, <2>1, <2>3, <2>6, <2>7, <2>9
    <3>2. ParserIdle'
      BY <2>1, <2>5 DEF parser, ParserIdle
    <3>3. Buffered(b, p)'
      BY <2>4, <3>1, <3>2 DEF Buffered, Length, ToBytes, Long
    <3> QED
      BY <1>1, <2>1, <2>3, <3>1, <3>3 DEF Loading
  <2> QED
    BY <2>8, <2>9
<1>4. CASE Finish
  <2>1. pc = "read" /\ pc' = "done" /\ UNCHANGED <<saved, place, buffer, out, parser>>
        /\ place = Long(file)
    BY <1>4 DEF Finish, Long
  <2>2. ParserIdle' /\ ParserIdle /\ p + Long(buffer) < Length(b) /\ Long(buffer') = Long(buffer)
    BY <2>1 DEF Buffered, ParserIdle, parser, Long
  <2> QED
    BY <1>2, <2>1, <2>2 DEF Buffered, Loading, Length, ToBytes, Long
<1>5. CASE ParseStart \/ ParseEnd \/ ParseLetter
  <2>1. pc = "parse" /\ pc' = "parse" /\ UNCHANGED <<saved, place, buffer, out>>
    BY <1>5 DEF ParseStart, ParseEnd, ParseLetter, Parsing
  <2>2. p + Long(buffer) = Length(b)
    BY <2>1 DEF Buffered
  <2>3. IF p = 0 THEN ParserExact(b)' ELSE ParserCut(b, p)'
    BY <1>5, ExactMoves, CutMoves
  <2> QED
    BY <1>2, <2>1, <2>2, <2>3 DEF Buffered, Loading, Length, ToBytes, Long
<1>6. CASE Malformed
  <2>1. pc = "parse" /\ pc' = "raise" /\ UNCHANGED <<saved, place, buffer, out, parser>>
    BY <1>6 DEF Malformed, AtEOF
  <2>2. p + Long(buffer) = Length(b)
    BY <2>1 DEF Buffered
  <2>3. p > 0
    BY <1>6, BlockMade DEF Malformed
  <2> QED
    BY <1>2, <2>1, <2>2, <2>3 DEF Buffered, Loading, Length, ToBytes, Long
<1> QED
  BY <1>3, <1>4, <1>5, <1>6

Entered ==
  /\ TypeOK /\ SavedInv /\ FileInv
  /\ pc = "read" /\ buffer = <<>> /\ ParserIdle
  /\ place = Long(stream) /\ out = Loaded(chain)

\* When the chain is loaded: the load is at the end of the file, or within the
\* bytes of the other worker.
LEMMA EnterOther == Entered => Located
<1> SUFFICES ASSUME Entered
             PROVE  Located
  OBVIOUS
<1>1. /\ TypeOK /\ SavedInv /\ FileInv /\ Loading
      /\ pc = "read" /\ buffer = <<>> /\ ParserIdle
      /\ place = Long(stream) /\ out = Loaded(chain)
  BY DEF Entered, Loading
<1> DEFINE l == Long(stream)
           n == Long(other)
<1>2. /\ l \in Nat /\ n \in Nat /\ Long(otherStream) \in Nat /\ Long(file) \in Nat /\ l <= Long(file)
      /\ chain \in Seq(Block) /\ other \in Seq(Block) /\ Long(buffer) = 0
  BY <1>1, Lengths DEF Long
<1>3. /\ Long(file) <= l \/ Long(file) = Long(otherStream)
      /\ Long(otherEnds) = n
  BY <1>1 DEF FileInv
<1>4. \A m \in Nat \ {0} :
        SubSeq(other, m, m - 1) = <<>> /\ chain \o SubSeq(other, m, m - 1) = chain
  <2>1. ASSUME NEW m \in Nat \ {0}
        PROVE  SubSeq(other, m, m - 1) = <<>>
    BY SubSeqEmpty
  <2> QED
    BY <1>2, <2>1, ConcatEmptySeq
<1>5. CASE Long(file) = l
  <2>1. n + 1 \in 1 .. n + 1 /\ n + 1 \in Nat \ {0} /\ (n + 1) - 1 = n
    BY <1>2
  <2>2. chain \o SubSeq(other, n + 1, n) = chain
    BY <1>4, <2>1
  <2>3. AtEnd(n + 1)
    BY <1>1, <1>2, <1>5, <2>2 DEF AtEnd
  <2> QED
    BY <2>1, <2>3 DEF Located
<1>6. CASE Long(file) # l
  <2>1. Long(otherStream) > l
    BY <1>2, <1>3, <1>6
  <2>2. PICK k \in 1 .. n : End(otherEnds, k - 1) <= l /\ l < otherEnds[k]
    <3>1. \A x \in 0 .. Long(otherStream) - 1 :
            \E k \in 1 .. Long(otherEnds) : End(otherEnds, k - 1) <= x /\ x < otherEnds[k]
      BY <1>1, AllEnds, Lengths DEF SavedInv
    <3>2. l \in 0 .. Long(otherStream) - 1
      BY <1>2, <2>1
    <3> HIDE DEF l, n
    <3> QED
      BY <1>3, <3>1, <3>2
  <2> DEFINE j == k - 1
             p == l - End(otherEnds, j)
  <2>3. j \in Nat /\ j < n /\ j + 1 = k
    BY <1>2, <2>2
  <2>4. /\ End(otherEnds, j) \in Nat /\ other[j + 1] \in Block
        /\ otherEnds[j + 1] = End(otherEnds, j) + Length(other[j + 1])
    BY <1>1, <1>3, <2>3, SerialBlock, Lengths DEF SavedInv
  <2>5. Length(other[j + 1]) \in Nat
    BY <2>4, LengthPositive
  <2>6. p \in Nat /\ p < Length(other[j + 1]) /\ l = End(otherEnds, j) + p /\ p <= l
    BY <1>2, <2>2, <2>3, <2>4, <2>5
  <2> HIDE DEF p, j
  <2>7. Buffered(other[j + 1], p)
    <3>1. 1 .. Long(buffer) = {} /\ p + Long(buffer) < Length(other[j + 1])
      BY <1>2, <2>6
    <3> QED
      BY <1>1, <3>1 DEF Buffered
  <2>8. CASE p = 0
    <3>1. j + 1 \in 1 .. j + 1 /\ j + 1 \in Nat \ {0} /\ (j + 1) - 1 = j
      BY <2>3
    <3>2. chain \o SubSeq(other, j + 1, j) = chain
      BY <1>4, <3>1
    <3>3. l <= End(otherEnds, j) /\ place = End(otherEnds, j) + Long(buffer)
      BY <1>1, <1>2, <2>4, <2>6, <2>8
    <3>4. OnOther(j, j + 1)
      BY <1>1, <2>7, <2>8, <3>2, <3>3 DEF OnOther
    <3>5. j \in 0 .. Long(other) - 1
      BY <1>2, <2>3
    <3> QED
      BY <1>1, <3>1, <3>4, <3>5 DEF Located
  <2>9. CASE p # 0
    <3>1. OnCut(j, p)
      BY <1>1, <1>2, <2>6, <2>7 DEF OnCut
    <3>2. j \in 0 .. Long(other) - 1 /\ p \in 1 .. Long(stream)
      BY <1>2, <2>3, <2>6, <2>9
    <3> QED
      BY <1>1, <3>1, <3>2 DEF Located
  <2> QED
    BY <2>8, <2>9
<1> QED
  BY <1>5, <1>6

Begun ==
  /\ TypeOK /\ SavedInv /\ FileInv
  /\ pc = "read" /\ buffer = <<>> /\ ParserIdle
  /\ place = 0 /\ out = <<>>

\* When a file is opened to be read.
LEMMA BeginLoad == Begun => Located
<1> SUFFICES ASSUME Begun
             PROVE  Located
  OBVIOUS
<1>1. /\ TypeOK /\ SavedInv /\ FileInv /\ Loading
      /\ pc = "read" /\ buffer = <<>> /\ ParserIdle
      /\ place = 0 /\ out = <<>>
  BY DEF Begun, Loading
<1>2. /\ Long(chain) \in Nat /\ chain \in Seq(Block) /\ Long(buffer) = 0 /\ Long(out) = 0
      /\ Long(ends) = Long(chain)
  BY <1>1, Lengths DEF Long, FileInv
<1>3. Loaded(<<>>) = <<>>
  BY DEF Loaded
<1>4. CASE chain = <<>>
  <2>1. Long(chain) = 0
    BY <1>4 DEF Long
  <2>2. Long(stream) = 0
    <3>1. Long(stream) = End(ends, Long(ends))
      BY <1>1 DEF SavedInv, Serial
    <3> QED
      BY <1>2, <2>1, <3>1 DEF End
  <2> QED
    BY <1>1, <1>3, <1>4, <2>2, EnterOther DEF Entered
<1>5. CASE chain # <<>>
  <2>1. Long(chain) > 0
    BY <1>2, <1>5, EmptySeq DEF Long
  <2>2. SubSeq(chain, 1, 0) = <<>>
    BY SubSeqEmpty
  <2>3. chain[1] \in Block
    BY <1>2, <2>1, LongIsLen
  <2>4. Buffered(chain[1], 0)
    <3>1. 1 .. Long(buffer) = {} /\ 0 + Long(buffer) < Length(chain[1])
      BY <1>2, <2>3, LengthPositive
    <3> QED
      BY <1>1, <3>1 DEF Buffered
  <2>5. End(ends, 0) = 0 /\ 0 + 1 = 1
    BY DEF End
  <2>6. OnOwn
    <3>1. Long(out) < Long(chain)
      BY <1>2, <2>1
    <3>2. out = Loaded(SubSeq(chain, 1, Long(out)))
      BY <1>1, <1>2, <1>3, <2>2
    <3>3. place = End(ends, Long(out)) + Long(buffer)
      BY <1>1, <1>2, <2>5
    <3>4. Buffered(chain[Long(out) + 1], 0)
      BY <1>2, <2>4, <2>5
    <3> QED
      BY <3>1, <3>2, <3>3, <3>4 DEF OnOwn
  <2> QED
    BY <1>1, <2>6 DEF Located
<1> QED
  BY <1>4, <1>5

\* The same of the state after a step that ends the own blocks.
LEMMA EnterOtherNext == Entered' => Located'
  BY EnterOther, PTL

\* The same of the state after the step that begins the loading.
LEMMA BeginLoadNext == Begun' => Located'
  BY BeginLoad, PTL

\* The buffer and the parser stay what they are if nothing of them changes.
LEMMA BufferedStays ==
  ASSUME NEW b, NEW p, Buffered(b, p), UNCHANGED <<pc, buffer, parser>>
  PROVE  Buffered(b, p)'
  BY DEF Buffered, ParserIdle, ParserExact, ParserCut, Length, ToBytes, Long, After, Begin,
     Size, Starts, parser

\* A stutter keeps the place.
LEMMA LocatedStays ==
  ASSUME TypeOK, Located, UNCHANGED vars
  PROVE  Located'
<1>1. /\ UNCHANGED <<pc, buffer, parser>> /\ UNCHANGED <<pc, chain, stream, file, other, otherEnds>>
      /\ UNCHANGED <<ends, out, place, buffer>>
  BY DEF vars, saved, mine, others
<1>2. /\ Long(chain') = Long(chain) /\ Long(stream') = Long(stream) /\ Long(file') = Long(file)
      /\ Long(other') = Long(other) /\ Long(buffer') = Long(buffer) /\ Long(out') = Long(out)
  BY <1>1
<1>3. CASE OnOwn /\ (pc = "done" => place = Long(file) /\ other = <<>>)
  <2>1. PICK b : b = chain[Long(out) + 1]
    OBVIOUS
  <2>2. Buffered(b, 0)'
    BY <1>1, <1>3, <2>1, BufferedStays DEF OnOwn
  <2>3. b = chain'[Long(out') + 1]
    BY <1>1, <2>1
  <2>4. Buffered(chain[Long(out) + 1], 0)'
    BY <2>2, <2>3
  <2>5. OnOwn'
    BY <1>1, <1>2, <1>3, <2>4 DEF OnOwn, Loaded, ToBytes, End
  <2> QED
    BY <1>1, <1>2, <1>3, <2>5 DEF Located
<1>4. ASSUME NEW j \in 0 .. Long(other) - 1, NEW m \in 1 .. j + 1, OnOther(j, m), pc # "done"
      PROVE  Located'
  <2>1. PICK b : b = other[j + 1]
    OBVIOUS
  <2>2. Buffered(b, 0)'
    BY <1>1, <1>4, <2>1, BufferedStays DEF OnOther
  <2>3. OnOther(j, m)'
    BY <1>1, <1>2, <1>4, <2>1, <2>2 DEF OnOther, Loaded, ToBytes, End
  <2> QED
    BY <1>1, <1>2, <1>4, <2>3 DEF Located
<1>5. ASSUME NEW j \in 0 .. Long(other) - 1, NEW p \in 1 .. Long(stream), OnCut(j, p), pc # "done"
      PROVE  Located'
  <2>1. PICK b : b = other[j + 1]
    OBVIOUS
  <2>2. Buffered(b, p)'
    BY <1>1, <1>5, <2>1, BufferedStays DEF OnCut
  <2>3. OnCut(j, p)'
    BY <1>1, <1>2, <1>5, <2>1, <2>2 DEF OnCut, Loaded, ToBytes, End, Length
  <2> QED
    BY <1>1, <1>2, <1>5, <2>3 DEF Located
<1>6. ASSUME NEW m \in 1 .. Long(other) + 1, AtEnd(m)
      PROVE  Located'
  <2>1. AtEnd(m)'
    BY <1>1, <1>2, <1>6 DEF AtEnd, Loaded, ToBytes, ParserIdle, parser
  <2> QED
    BY <1>2, <2>1 DEF Located
<1>7. ASSUME NEW m \in 1 .. Long(other) + 1, NEW j \in m - 1 .. Long(other), Refused(j, m)
      PROVE  Located'
  <2>1. Refused(j, m)'
    BY <1>1, <1>7 DEF Refused, Loaded, ToBytes
  <2> QED
    BY <1>2, <2>1 DEF Located
<1> QED
  BY <1>3, <1>4, <1>5, <1>6, <1>7 DEF Located

Read == ReadByte \/ Finish \/ ParseStart \/ ParseEnd \/ ParseLetter \/ Malformed

\* A block of the own chain is being read.
LEMMA OwnMoves ==
  ASSUME TypeOK, TypeOK', SavedInv, SavedInv', FileInv, FileInv', Loading,
         OnOwn, pc = "done" => place = Long(file) /\ other = <<>>, Load
  PROVE  Located'
<1> DEFINE k == Long(out)
<1>1. PICK b : b = chain[k + 1]
  OBVIOUS
<1>2. /\ k \in Nat /\ k < Long(chain) /\ k < Long(ends) /\ k < Len(chain)
      /\ Long(ends) = Long(chain) /\ Long(chain) \in Nat
      /\ out = Loaded(SubSeq(chain, 1, k))
      /\ place = End(ends, k) + Long(buffer)
      /\ Buffered(b, 0)
  BY <1>1, Lengths DEF FileInv, OnOwn, Long
<1>3. /\ b \in Block /\ End(ends, k) \in Nat /\ End(ends, k + 1) = End(ends, k) + Length(b)
      /\ End(ends, k + 1) <= Long(stream)
  <2>1. Serial(chain, stream, ends) /\ chain \in Seq(Block) /\ stream \in Seq(Byte)
        /\ ends \in Seq(1 .. Len(stream))
    BY Lengths DEF SavedInv
  <2>2. k \in Nat /\ k < Long(ends)
    BY <1>2
  <2> HIDE DEF k
  <2>3. /\ chain[k + 1] \in Block /\ End(ends, k) \in Nat
        /\ End(ends, k + 1) = ends[k + 1] /\ ends[k + 1] = End(ends, k) + Length(chain[k + 1])
        /\ ends[k + 1] <= Long(stream)
    BY <2>1, <2>2, SerialBlock
  <2> QED
    BY <1>1, <2>3
<1>4. Length(b) \in Nat /\ 0 < Length(b)
  BY <1>3, LengthPositive
<1>5. UNCHANGED saved
  BY DEF Load, ReadByte, Finish, Parsing, ParseStart, ParseEnd, ParseLetter, AddBlock, Refuse,
     Malformed
<1>6. chain' = chain /\ ends' = ends /\ other' = other /\ file' = file /\ stream' = stream
      /\ otherStream' = otherStream /\ Long(file') = Long(file) /\ Long(stream') = Long(stream)
  BY <1>5 DEF saved, mine, others
<1>7. CASE Read
  <2>1. ReadByte => file[place + 1] = ToBytes(b)[0 + (Long(buffer) + 1)]
    <3>1. SUFFICES ASSUME ReadByte
                   PROVE  file[place + 1] = ToBytes(b)[0 + (Long(buffer) + 1)]
      OBVIOUS
    <3>2. place < Long(file) /\ pc = "read"
      BY <3>1 DEF ReadByte, Long
    <3>3. 0 + Long(buffer) < Length(b) /\ Long(buffer) \in Nat
      BY <1>2, <3>2, Lengths DEF Buffered
    <3>4. Long(buffer) < Length(chain[Long(out) + 1])
      BY <1>1, <3>3
    <3>5. file[place + 1] = ToBytes(b)[Long(buffer) + 1]
      BY <1>1, <3>2, <3>4, OwnByte
    <3> QED
      BY <3>3, <3>5
  <2>2. /\ Buffered(b, 0)' /\ out' = out
        /\ \A d \in Nat : place = d + Long(buffer) => place' = d + Long(buffer')
        /\ (pc' = "done" => pc = "read" /\ place = Long(file) /\ place' = place)
    BY <1>2, <1>3, <1>4, <1>7, <2>1, BufferedMoves DEF Read
  <2>3. Long(out') = k /\ place' = End(ends, k) + Long(buffer')
    BY <1>2, <1>3, <2>2
  <2>4. Buffered(chain[Long(out) + 1], 0)'
    <3>1. b = chain'[Long(out') + 1]
      BY <1>1, <1>6, <2>3
    <3> QED
      BY <2>2, <3>1
  <2>5. OnOwn'
    BY <1>2, <1>6, <2>2, <2>3, <2>4 DEF OnOwn, Loaded, ToBytes, End, Long
  <2>6. pc' = "done" => place' = Long(file') /\ other' = <<>>
    <3>1. SUFFICES ASSUME pc' = "done", other # <<>>
                   PROVE  FALSE
      BY <1>6, <2>2
    <3>2. Long(stream) <= place
      BY <2>2, <3>1 DEF FileInv
    <3>3. 0 + Long(buffer) < Length(b) /\ Long(buffer) \in Nat /\ Long(stream) \in Nat
      BY <1>2, <2>2, <3>1, Lengths DEF Buffered
    <3> QED
      BY <1>2, <1>3, <1>4, <3>2, <3>3
  <2> QED
    BY <2>5, <2>6 DEF Located
<1>8. CASE AddBlock
  <2>1. AtEOF /\ pc' = "read" /\ buffer' = <<>> /\ place' = place /\ ParserIdle'
        /\ out' = Append(out, [block |-> blocks, bytes |-> buffer])
    BY <1>8 DEF AddBlock, ParserReset, ParserIdle
  <2>2. blocks = b /\ buffer = ToBytes(b)
    BY <1>2, <1>3, <1>4, <2>1, BlockMade
  <2>3. out' = Loaded(SubSeq(chain, 1, k + 1))
    <3>1. out' = Append(out, Entry(b))
      BY <2>1, <2>2 DEF Entry
    <3> QED
      BY <1>1, <1>2, <3>1, OwnLoaded, Lengths
  <2>4. place' = End(ends, k + 1) /\ Long(buffer') = 0
    BY <1>2, <1>3, <2>1, <2>2 DEF Length, Long
  <2>5. CASE k + 1 = Long(chain)
    <3>1. SubSeq(chain, 1, k + 1) = chain
      BY <2>5, SubSeqFull, Lengths DEF Long
    <3>2. place' = Long(stream)
      BY <1>2, <2>4, <2>5, AllEnds, Lengths DEF SavedInv
    <3>3. Loaded(chain') = Loaded(chain) /\ out' = Loaded(chain)
      BY <1>6, <2>3, <3>1
    <3>4. Entered'
      BY <1>6, <2>1, <3>2, <3>3 DEF Entered, Loaded, ToBytes
    <3> QED
      BY <3>4, EnterOtherNext
  <2>6. CASE k + 1 < Long(chain)
    <3>1. Long(out') = k + 1
      <4>1. Long(out') = Long(out) + 1
        <5>1. out \in Seq([block : Block, bytes : Seq(Byte)]) /\ buffer \in Seq(Byte)
          BY DEF TypeOK
        <5>2. [block |-> blocks, bytes |-> buffer] \in [block : Block, bytes : Seq(Byte)]
          BY <1>3, <2>2, <5>1
        <5>3. out' = Added(out, [block |-> blocks, bytes |-> buffer])
          BY <2>1 DEF Added
        <5> QED
          BY <5>1, <5>2, <5>3, Appended
      <4> QED
        BY <4>1
    <3>2. PICK c : c = chain[k + 1 + 1]
      OBVIOUS
    <3>3. c \in Block
      <4>1. k + 1 + 1 \in 1 .. Long(chain)
        BY <1>2, <2>6
      <4> QED
        BY <3>2, <4>1, Lengths, LongIsLen
    <3>4. 0 + Long(buffer') < Length(c) /\ 1 .. Long(buffer') = {}
      BY <2>4, <3>3, LengthPositive
    <3>5. Buffered(c, 0)'
      BY <2>1, <3>4 DEF Buffered, Length, ToBytes, Long
    <3>6. Buffered(chain[Long(out) + 1], 0)'
      <4>1. c = chain'[Long(out') + 1]
        BY <1>6, <3>1, <3>2
      <4> QED
        BY <3>5, <4>1
    <3>7. place' = End(ends, Long(out')) + Long(buffer')
      BY <1>3, <1>4, <2>4, <3>1
    <3>8. OnOwn'
      BY <1>2, <1>6, <2>3, <2>6, <3>1, <3>6, <3>7 DEF OnOwn, Loaded, ToBytes, End, Long
    <3> QED
      BY <2>1, <3>8 DEF Located
  <2> QED
    BY <1>2, <2>5, <2>6
<1>9. ~ Refuse
  <2> SUFFICES ASSUME Refuse
               PROVE  FALSE
    OBVIOUS
  <2>1. AtEOF /\ Len(blocks) = 3
    BY DEF Refuse
  <2>2. blocks = b
    BY <1>2, <1>3, <1>4, <2>1, BlockMade
  <2>3. Len(out) < Len(chain) /\ blocks = chain[Len(out) + 1]
    BY <1>1, <1>2, <2>2 DEF Long
  <2> QED
    BY <2>3 DEF Refuse
<1> QED
  BY <1>7, <1>8, <1>9 DEF Load, Read

\* A block of the other chain is being read, from its first byte if p = 0.
LEMMA OtherBlock ==
  ASSUME TypeOK, SavedInv, FileInv, Loading, NEW j \in 0 .. Long(other) - 1
  PROVE  /\ other[j + 1] \in Block /\ End(otherEnds, j) \in Nat
         /\ End(otherEnds, j + 1) = End(otherEnds, j) + Length(other[j + 1])
         /\ End(otherEnds, j + 1) <= Long(otherStream)
         /\ Length(other[j + 1]) \in Nat /\ 0 < Length(other[j + 1])
         /\ Long(stream) <= Long(file) /\ Long(otherStream) <= Long(file)
         /\ End(otherEnds, Long(other)) = Long(otherStream)
<1>1. Serial(other, otherStream, otherEnds) /\ other \in Seq(Block) /\ otherStream \in Seq(Byte)
      /\ otherEnds \in Seq(1 .. Len(otherStream)) /\ Long(other) \in Nat
  BY Lengths DEF SavedInv
<1>2. Long(otherEnds) = Long(other)
  BY DEF FileInv
<1>3. j \in Nat /\ j < Long(otherEnds)
  BY <1>1, <1>2
<1>4. /\ other[j + 1] \in Block /\ End(otherEnds, j) \in Nat
      /\ End(otherEnds, j + 1) = otherEnds[j + 1]
      /\ otherEnds[j + 1] = End(otherEnds, j) + Length(other[j + 1])
      /\ otherEnds[j + 1] <= Long(otherStream)
  BY <1>1, <1>3, SerialBlock
<1>5. Length(other[j + 1]) \in Nat /\ 0 < Length(other[j + 1])
  BY <1>4, LengthPositive
<1>6. other # <<>>
  BY <1>2, <1>3 DEF Long
<1>7. Long(stream) <= Long(file) /\ Long(otherStream) <= Long(file)
  BY <1>6 DEF FileInv
<1>8. End(otherEnds, Long(other)) = Long(otherStream)
  BY <1>1, <1>2, AllEnds
<1> QED
  BY <1>4, <1>5, <1>7, <1>8

\* Reading a byte of a block of the other chain keeps the buffer a beginning of it.
LEMMA OtherRead ==
  ASSUME TypeOK, SavedInv, FileInv, Loading, NEW j \in 0 .. Long(other) - 1, NEW p \in Nat,
         NEW b, b = other[j + 1], p < Length(b), Buffered(b, p),
         Long(stream) <= End(otherEnds, j) + p,
         place = End(otherEnds, j) + p + Long(buffer), Read
  PROVE  /\ Buffered(b, p)' /\ UNCHANGED <<saved, out>>
         /\ place' = End(otherEnds, j) + p + Long(buffer')
         /\ pc' # "done"
<1>1. /\ b \in Block /\ End(otherEnds, j) \in Nat /\ j \in Nat /\ j < Long(other)
      /\ End(otherEnds, j + 1) = End(otherEnds, j) + Length(b)
      /\ End(otherEnds, j + 1) <= Long(otherStream) /\ Length(b) \in Nat
      /\ Long(otherStream) <= Long(file)
  BY OtherBlock, Lengths
<1>2. Long(buffer) \in Nat /\ Long(file) \in Nat /\ Long(otherStream) \in Nat
  BY Lengths
<1>3. ReadByte => file[place + 1] = ToBytes(b)[p + (Long(buffer) + 1)]
  <2>1. SUFFICES ASSUME ReadByte
                 PROVE  file[place + 1] = ToBytes(b)[p + (Long(buffer) + 1)]
    OBVIOUS
  <2>2. place < Long(file) /\ pc = "read"
    BY <2>1 DEF ReadByte, Long
  <2>3. p + Long(buffer) < Length(b)
    BY <2>2 DEF Buffered
  <2> QED
    BY <1>1, <2>2, <2>3, OtherByte
<1>4. /\ Buffered(b, p)' /\ UNCHANGED <<saved, out>>
      /\ \A d \in Nat : place = d + Long(buffer) => place' = d + Long(buffer')
      /\ (pc' = "done" => pc = "read" /\ place = Long(file) /\ place' = place)
  BY <1>1, <1>3, BufferedMoves DEF Read
<1>5. place' = End(otherEnds, j) + p + Long(buffer')
  BY <1>1, <1>4
<1>6. pc' # "done"
  <2>1. SUFFICES ASSUME pc' = "done"
                 PROVE  FALSE
    OBVIOUS
  <2>2. p + Long(buffer) < Length(b) /\ place = Long(file)
    BY <1>4, <2>1 DEF Buffered
  <2> QED
    BY <1>1, <1>2, <2>2
<1> QED
  BY <1>4, <1>5, <1>6

\* A step of the loading in a whole block of the other chain.
LEMMA OtherMoves ==
  ASSUME TypeOK, TypeOK', SavedInv, SavedInv', FileInv, FileInv', Loading,
         NEW j \in 0 .. Long(other) - 1, NEW m \in 1 .. j + 1, OnOther(j, m), Load
  PROVE  Located'
<1>1. PICK b : b = other[j + 1]
  OBVIOUS
<1>2. /\ out = Loaded(chain \o SubSeq(other, m, j))
      /\ Long(stream) <= End(otherEnds, j)
      /\ place = End(otherEnds, j) + Long(buffer)
      /\ Buffered(b, 0)
      /\ j \in Nat /\ j < Long(other) /\ Long(other) \in Nat /\ m \in Nat /\ 1 <= m /\ m <= j + 1
      /\ Long(buffer) \in Nat /\ Long(stream) \in Nat /\ Long(file) \in Nat
      /\ Long(otherStream) \in Nat /\ j < Len(other)
  BY <1>1, Lengths DEF OnOther, Long
<1>3. /\ b \in Block /\ End(otherEnds, j) \in Nat
      /\ End(otherEnds, j + 1) = End(otherEnds, j) + Length(b)
      /\ Length(b) \in Nat /\ 0 < Length(b)
      /\ Long(otherStream) <= Long(file) /\ Long(stream) <= Long(file)
      /\ End(otherEnds, Long(other)) = Long(otherStream)
  BY <1>1, OtherBlock
<1>4. UNCHANGED saved
  BY DEF Load, ReadByte, Finish, Parsing, ParseStart, ParseEnd, ParseLetter, AddBlock, Refuse,
     Malformed
<1>5. chain' = chain /\ otherEnds' = otherEnds /\ other' = other /\ Long(other') = Long(other)
      /\ Long(file') = Long(file) /\ Long(stream') = Long(stream)
  BY <1>4 DEF saved, mine, others
<1>6. CASE Read
  <2>1. Long(stream) <= End(otherEnds, j) + 0 /\ place = End(otherEnds, j) + 0 + Long(buffer)
    BY <1>2, <1>3
  <2>2. /\ Buffered(b, 0)' /\ out' = out
        /\ place' = End(otherEnds, j) + 0 + Long(buffer')
        /\ pc' # "done"
    BY <1>1, <1>2, <1>3, <1>6, <2>1, OtherRead
  <2>3. place' = End(otherEnds, j) + Long(buffer')
    BY <1>3, <2>2
  <2>4. OnOther(j, m)'
    BY <1>1, <1>2, <1>5, <2>2, <2>3 DEF OnOther, Loaded, ToBytes, End
  <2> QED
    BY <1>5, <2>2, <2>4 DEF Located
<1>7. CASE AddBlock
  <2>1. AtEOF /\ pc' = "read" /\ buffer' = <<>> /\ place' = place /\ ParserIdle'
        /\ out' = Append(out, [block |-> blocks, bytes |-> buffer])
    BY <1>7 DEF AddBlock, ParserReset, ParserIdle
  <2>2. blocks = b /\ buffer = ToBytes(b)
    BY <1>2, <1>3, <2>1, BlockMade
  <2>3. out' = Loaded(chain \o SubSeq(other, m, j + 1))
    <3>1. out' = Append(out, Entry(b))
      BY <2>1, <2>2 DEF Entry
    <3>2. chain \in Seq(Block) /\ other \in Seq(Block)
      BY Lengths
    <3>3. Append(Loaded(chain \o SubSeq(other, m, j)), Entry(other[j + 1]))
            = Loaded(chain \o SubSeq(other, m, j + 1))
      BY <1>2, <3>2, OtherLoaded
    <3> QED
      BY <1>1, <1>2, <3>1, <3>3
  <2>4. place' = End(otherEnds, j + 1) /\ Long(buffer') = 0
    BY <1>2, <1>3, <2>1, <2>2 DEF Length, Long
  <2>5. CASE j + 1 = Long(other)
    <3>1. place' = Long(file')
      <4>1. place = Long(otherStream) /\ Long(stream) <= Long(otherStream)
        BY <1>2, <1>3, <2>1, <2>4, <2>5
      <4>2. Long(file) <= Long(stream) \/ Long(file) = Long(otherStream)
        BY DEF FileInv
      <4> QED
        BY <1>2, <1>3, <1>5, <2>1, <4>1, <4>2
    <3>2. AtEnd(m)'
      BY <1>2, <1>3, <1>5, <2>1, <2>3, <2>4, <2>5, <3>1 DEF AtEnd, Loaded, ToBytes, ParserIdle, Long
    <3>3. m \in 1 .. Long(other') + 1
      BY <1>2, <1>5
    <3> QED
      BY <3>2, <3>3 DEF Located
  <2>6. CASE j + 1 < Long(other)
    <3>1. PICK c : c = other[j + 1 + 1]
      OBVIOUS
    <3>2. c \in Block
      <4>1. j + 1 + 1 \in 1 .. Long(other)
        BY <1>2, <2>6
      <4> QED
        BY <3>1, <4>1, Lengths, LongIsLen
    <3>3. 0 + Long(buffer') < Length(c) /\ 1 .. Long(buffer') = {}
      BY <2>4, <3>2, LengthPositive
    <3>4. Buffered(c, 0)'
      BY <2>1, <3>3 DEF Buffered, Length, ToBytes, Long
    <3>5. Long(stream') <= End(otherEnds', j + 1)
          /\ place' = End(otherEnds', j + 1) + Long(buffer')
      BY <1>2, <1>3, <1>5, <2>4
    <3>6. OnOther(j + 1, m)'
      BY <1>5, <2>3, <3>1, <3>4, <3>5 DEF OnOther, Loaded, ToBytes, End, Long
    <3>7. j + 1 \in 0 .. Long(other') - 1 /\ m \in 1 .. (j + 1) + 1
      BY <1>2, <1>5, <2>6
    <3> QED
      BY <2>1, <3>6, <3>7 DEF Located
  <2> QED
    BY <1>2, <2>5, <2>6
<1>8. CASE Refuse
  <2>1. AtEOF /\ Len(blocks) = 3 /\ pc' = "raise" /\ other # <<>>
        /\ out' \in {out, Append(out, [block |-> blocks, bytes |-> buffer])}
    BY <1>2, <1>8 DEF Refuse, Long
  <2>2. CASE out' = out
    <3>1. Refused(j, m)'
      BY <1>2, <1>5, <2>1, <2>2 DEF Refused, Loaded, ToBytes
    <3>2. m \in 1 .. Long(other') + 1 /\ j \in m - 1 .. Long(other')
      BY <1>2, <1>5
    <3> QED
      BY <3>1, <3>2 DEF Located
  <2>3. CASE out' = Append(out, [block |-> blocks, bytes |-> buffer])
    <3>1. blocks = b /\ buffer = ToBytes(b)
      BY <1>2, <1>3, <2>1, BlockMade
    <3>2. out' = Append(out, Entry(b))
      BY <2>3, <3>1 DEF Entry
    <3>3. chain \in Seq(Block) /\ other \in Seq(Block)
      BY Lengths
    <3>4. Append(Loaded(chain \o SubSeq(other, m, j)), Entry(other[j + 1]))
            = Loaded(chain \o SubSeq(other, m, j + 1))
      BY <1>2, <3>3, OtherLoaded
    <3>5. Refused(j + 1, m)'
      BY <1>1, <1>2, <1>5, <2>1, <3>2, <3>4 DEF Refused, Loaded, ToBytes
    <3>6. m \in 1 .. Long(other') + 1 /\ j + 1 \in m - 1 .. Long(other')
      BY <1>2, <1>5
    <3> QED
      BY <3>5, <3>6 DEF Located
  <2> QED
    BY <2>1, <2>2, <2>3
<1> QED
  BY <1>6, <1>7, <1>8 DEF Load, Read

\* A block of the other chain is being read from where the own bytes end: none
\* is added.
LEMMA CutStays ==
  ASSUME TypeOK, SavedInv, FileInv, Loading,
         NEW j \in 0 .. Long(other) - 1, NEW p \in 1 .. Long(stream), OnCut(j, p), Load
  PROVE  Located'
<1>1. PICK b : b = other[j + 1]
  OBVIOUS
<1>2. /\ out = Loaded(chain)
      /\ p < Length(b) /\ p \in Nat /\ p # 0
      /\ Long(stream) = End(otherEnds, j) + p
      /\ place = Long(stream) + Long(buffer)
      /\ Buffered(b, p)
      /\ Long(buffer) \in Nat /\ Long(stream) \in Nat
  BY <1>1, Lengths DEF OnCut
<1>3. b \in Block /\ End(otherEnds, j) \in Nat
  BY <1>1, OtherBlock
<1>4. ~ AddBlock /\ ~ Refuse
  BY <1>2, <1>3, BlockMade DEF AddBlock, Refuse
<1>5. Long(stream) <= End(otherEnds, j) + p /\ place = End(otherEnds, j) + p + Long(buffer)
  BY <1>2, <1>3
<1>6. /\ Buffered(b, p)' /\ UNCHANGED <<saved, out>>
      /\ place' = End(otherEnds, j) + p + Long(buffer')
      /\ pc' # "done"
  BY <1>1, <1>2, <1>4, <1>5, OtherRead DEF Load, Read
<1>7. chain' = chain /\ otherEnds' = otherEnds /\ other' = other /\ Long(other') = Long(other)
      /\ Long(stream') = Long(stream)
  BY <1>6 DEF saved, mine, others
<1>8. OnCut(j, p)'
  BY <1>1, <1>2, <1>6, <1>7 DEF OnCut, Loaded, ToBytes, End, Length
<1> QED
  BY <1>6, <1>7, <1>8 DEF Located

\* At the end of the file the loading stops.
LEMMA EndStays ==
  ASSUME TypeOK, NEW m \in 1 .. Long(other) + 1, AtEnd(m), Load
  PROVE  Located'
<1>1. pc \in {"read", "done"} /\ place = Len(file) /\ Len(file) = Long(file)
  BY DEF AtEnd, Long
<1>2. ~ ReadByte
  BY <1>1, Lengths DEF ReadByte
<1>3. Finish
  BY <1>1, <1>2
     DEF Load, Parsing, ParseStart, ParseEnd, ParseLetter, AtEOF, AddBlock, Refuse, Malformed
<1>4. /\ pc' = "done" /\ UNCHANGED <<chain, stream, other, file, place, buffer, out>>
      /\ UNCHANGED <<at, blocks, current, recording>>
      /\ Long(other') = Long(other) /\ Long(file') = Long(file) /\ Long(stream') = Long(stream)
  BY <1>3 DEF Finish, saved, mine, others, parser
<1>5. AtEnd(m)'
  BY <1>4 DEF AtEnd, Loaded, ToBytes, ParserIdle
<1> QED
  BY <1>4, <1>5 DEF Located

\* Every step keeps the place in the file and what is loaded.
LEMMA LoadMoves ==
  ASSUME TypeOK, TypeOK', SavedInv, SavedInv', FileInv, FileInv', StartInv, LoadInv, [Next]_vars
  PROVE  LoadInv'
<1>1. CASE UNCHANGED vars
  <2>1. Loading' => Loading
    BY <1>1 DEF vars, Loading
  <2> QED
    BY <1>1, <2>1, LocatedStays DEF LoadInv
<1>2. CASE Save
  <2>1. CASE Write \/ Tear
    <3>1. pc' = "read" /\ UNCHANGED <<place, buffer, out, parser>> /\ pc = "write"
      BY <2>1 DEF Write, Tear
    <3>2. Begun'
      BY <3>1 DEF Begun, StartInv, ParserIdle, parser
    <3> QED
      BY <3>2, BeginLoadNext DEF LoadInv
  <2>2. CASE ~ (Write \/ Tear)
    BY <1>2, <2>2 DEF Save, Extend, Open, BeginOther, ExtendOther, WriteOther, LoadInv, Loading
  <2> QED
    BY <2>1, <2>2
<1>3. CASE Load
  <2>1. Loading
    BY <1>3 DEF Loading, Load, ReadByte, Finish, Parsing, ParseStart, ParseEnd, ParseLetter,
       AtEOF, AddBlock, Refuse, Malformed
  <2>2. Located'
    <3>1. \A j, m : ~ Refused(j, m)
      BY <1>3 DEF Refused, Load, ReadByte, Finish, Parsing, ParseStart, ParseEnd, ParseLetter,
         AtEOF, AddBlock, Refuse, Malformed
    <3> QED
      BY <1>3, <2>1, <3>1, OwnMoves, OtherMoves, CutStays, EndStays DEF LoadInv, Located
  <2> QED
    BY <2>2 DEF LoadInv
<1> QED
  BY <1>1, <1>2, <1>3 DEF Next

\* Every step keeps the invariant.
LEMMA InvMoves == StreamInv /\ [Next]_vars => StreamInv'
<1> SUFFICES ASSUME StreamInv, [Next]_vars
             PROVE  StreamInv'
  OBVIOUS
<1>1. TypeOK /\ SavedInv /\ StartInv /\ FileInv /\ LoadInv
  BY DEF StreamInv
<1>2. TypeOK' /\ StartInv'
  BY <1>1, NextTypes, StartMoves
<1>3. SavedInv' /\ FileInv'
  BY <1>1, SavedMoves, FileMoves
<1>4. LoadInv'
  BY <1>1, <1>2, <1>3, LoadMoves
<1> QED
  BY <1>2, <1>3, <1>4 DEF StreamInv

\* The invariant holds in every state.
LEMMA AlwaysLocated == Spec => []StreamInv
<1>1. Init => StreamInv
  BY InitTypes, InitSaved DEF StreamInv
<1> QED
  BY <1>1, InvMoves, PTL DEF Spec

-----------------------------------------------------------------------------
(* The results *)

\* A load raises only after the chain is loaded, at a block of the other worker
\* that is cut or refused.
LEMMA RaisesAtOther ==
  ASSUME StreamInv, pc = "raise"
  PROVE  /\ other # <<>>
         /\ \E m \in 1 .. Long(other) + 1 : \E j \in m - 1 .. Long(other) :
              out = Loaded(chain \o SubSeq(other, m, j))
<1>1. Located /\ TypeOK
  BY DEF StreamInv, LoadInv, Loading
<1>2. ~ OnOwn
  BY DEF OnOwn, Buffered
<1>3. \A j, m : ~ OnOther(j, m)
  BY DEF OnOther, Buffered
<1>4. \A m : ~ AtEnd(m)
  BY DEF AtEnd
<1>5. chain \in Seq(Block) /\ other \in Seq(Block) /\ Long(other) \in Nat
  BY <1>1, Lengths
<1>6. CASE \E j \in 0 .. Long(other) - 1 : \E p \in 1 .. Long(stream) : OnCut(j, p)
  <2>1. out = Loaded(chain) /\ 0 < Long(other)
    BY <1>5, <1>6 DEF OnCut
  <2>2. SubSeq(other, 1, 0) = <<>> /\ chain \o <<>> = chain
    BY <1>5, SubSeqEmpty, ConcatEmptySeq
  <2>3. chain \o SubSeq(other, 1, 0) = chain
    BY <2>2
  <2>4. 1 \in 1 .. Long(other) + 1 /\ 0 \in 1 - 1 .. Long(other)
        /\ out = Loaded(chain \o SubSeq(other, 1, 0))
    <3>1. out = Loaded(chain \o SubSeq(other, 1, 0))
      BY <2>1, <2>3
    <3> QED
      BY <1>5, <2>1, <3>1
  <2> QED
    BY <2>1, <2>4 DEF Long
<1>7. CASE \E m \in 1 .. Long(other) + 1 : \E j \in m - 1 .. Long(other) : Refused(j, m)
  BY <1>7 DEF Refused
<1> QED
  BY <1>1, <1>2, <1>3, <1>4, <1>6, <1>7 DEF Located

\* load_blocks_data reads back the whole blocks that a torn file has, in order,
\* and does not raise; for chains of any length and texts of any length.
THEOREM WholeBlocksLoad == Spec => []LoadsWholeBlocks
<1>1. StreamInv => LoadsWholeBlocks
  <2> SUFFICES ASSUME StreamInv, other = <<>>
               PROVE  /\ pc # "raise"
                      /\ pc = "done" =>
                           \E k \in 0 .. Len(chain) : HasWhole(k) /\ out = Loaded(SubSeq(chain, 1, k))
    BY DEF LoadsWholeBlocks
  <2>1. pc # "raise"
    BY RaisesAtOther
  <2>2. ASSUME pc = "done"
        PROVE  \E k \in 0 .. Len(chain) : HasWhole(k) /\ out = Loaded(SubSeq(chain, 1, k))
    <3>1. TypeOK /\ SavedInv /\ FileInv /\ Located /\ Loading
      BY <2>2 DEF StreamInv, LoadInv, Loading
    <3>2. /\ Long(chain) \in Nat /\ Long(chain) = Len(chain) /\ Long(file) = Len(file)
          /\ Long(ends) = Long(chain) /\ Long(other) = 0 /\ Long(file) \in Nat
          /\ Long(stream) \in Nat /\ chain \in Seq(Block)
          /\ Serial(chain, stream, ends) /\ stream \in Seq(Byte)
          /\ ends \in Seq(1 .. Len(stream))
      BY <3>1, Lengths DEF FileInv, SavedInv, Long
    <3>3. CASE OnOwn /\ place = Long(file)
      <4> DEFINE k == Long(out)
      <4>1. PICK b : b = chain[k + 1]
        OBVIOUS
      <4>2. /\ k \in Nat /\ k < Long(chain) /\ k < Long(ends)
            /\ out = Loaded(SubSeq(chain, 1, k))
            /\ Long(file) = End(ends, k) + Long(buffer)
            /\ 0 + Long(buffer) < Length(b) /\ Long(buffer) \in Nat
        BY <2>2, <3>1, <3>2, <3>3, <4>1, Lengths DEF OnOwn, Buffered
      <4> HIDE DEF k
      <4>3. /\ b \in Block /\ End(ends, k) \in Nat
            /\ ends[k + 1] = End(ends, k) + Length(chain[k + 1])
        BY <3>2, <4>1, <4>2, SerialBlock
      <4>4. Length(b) \in Nat
        BY <4>3, LengthPositive
      <4>5. Long(file) < ends[k + 1]
        BY <4>1, <4>2, <4>3, <4>4
      <4>6. k = 0 \/ ends[k] <= Long(file)
        BY <4>2, <4>3 DEF End
      <4>7. HasWhole(k)
        BY <3>2, <4>5, <4>6 DEF HasWhole
      <4> QED
        BY <3>2, <4>2, <4>7
    <3>4. ASSUME NEW m \in 1 .. Long(other) + 1, AtEnd(m)
          PROVE  \E k \in 0 .. Len(chain) : HasWhole(k) /\ out = Loaded(SubSeq(chain, 1, k))
      <4>1. out = Loaded(chain \o SubSeq(other, m, Long(other))) /\ Long(stream) <= Long(file)
        BY <3>4 DEF AtEnd
      <4>2. m = 1 /\ SubSeq(other, 1, 0) = <<>>
        BY <3>2, SubSeqEmpty
      <4>3. chain \o SubSeq(other, m, Long(other)) = chain
        BY <3>2, <4>2, ConcatEmptySeq
      <4>4. SubSeq(chain, 1, Len(chain)) = chain
        BY <3>2, SubSeqFull
      <4> DEFINE n == Len(chain)
      <4>5. n \in Nat /\ n = Long(ends)
        BY <3>2
      <4>6. n = 0 \/ ends[n] <= Len(file)
        <5>1. Long(stream) = End(ends, Long(ends))
          BY <3>2, AllEnds
        <5> HIDE DEF n
        <5> QED
          BY <3>2, <4>1, <4>5, <5>1 DEF End
      <4>7. HasWhole(n)
        BY <4>6 DEF HasWhole
      <4>8. out = Loaded(SubSeq(chain, 1, n))
        BY <4>1, <4>3, <4>4
      <4> HIDE DEF n
      <4>9. n \in 0 .. n
        BY <4>5
      <4> QED
        BY <4>7, <4>8, <4>9 DEF n
    <3>5. \A j, m : ~ Refused(j, m)
      BY <2>2 DEF Refused
    <3> QED
      BY <2>2, <3>1, <3>3, <3>4, <3>5 DEF Located
  <2> QED
    BY <2>1, <2>2
<1> QED
  BY <1>1, AlwaysLocated, PTL

\* Whatever another request worker has left in the file behind the bytes of
\* save: the load adds the chain and after it whole blocks of the other one, up to
\* the end or to one that is cut or refused, where it raises.
THEOREM NothingIsInvented == Spec => []NothingInvented
<1>1. StreamInv => NothingInvented
  <2> SUFFICES ASSUME StreamInv, other # <<>>
               PROVE  /\ pc = "raise" =>
                           \E m \in 1 .. Len(other) + 1 : \E j \in m - 1 .. Len(other) :
                             out = Loaded(chain \o SubSeq(other, m, j))
                      /\ pc = "done" =>
                           \E m \in 1 .. Len(other) + 1 :
                             out = Loaded(chain \o SubSeq(other, m, Len(other)))
    BY DEF NothingInvented
  <2>1. pc = "done" => Located
    BY DEF StreamInv, LoadInv, Loading
  <2>2. pc = "done" => \A j, m : ~ Refused(j, m)
    BY DEF Refused
  <2>3. pc = "done" => \E m \in 1 .. Long(other) + 1 : AtEnd(m)
    BY <2>1, <2>2 DEF Located
  <2> QED
    BY <2>3, RaisesAtOther DEF AtEnd, Long
<1> QED
  BY <1>1, AlwaysLocated, PTL

\* Every variable of the save and of the load has its type.
THEOREM StreamTyped == Spec => []TypeOK
<1>1. StreamInv => TypeOK
  BY DEF StreamInv
<1> QED
  BY <1>1, AlwaysLocated, PTL
=============================================================================
