---------------------------- MODULE Base64Proofs ----------------------------
(***************************************************************************)
(* Utils::Base64 for bytes of any number: what encode writes is what       *)
(* base64 means by the bytes, and decode takes it back.                    *)
(*                                                                         *)
(* Of n bytes encode makes m = Blocks(n) blocks, which are m + n symbols,  *)
(* 3 m - n marks of padding and, behind them, from one to four blanks.     *)
(***************************************************************************)
EXTENDS Base64, SequenceTheorems, FiniteSetTheorems, TLAPS

Byte == 0 .. 255
Char == 0 .. 65

(* Sequences of the same length with the same elements are equal. *)
LEMMA SameSequence ==
    ASSUME NEW S, NEW s \in Seq(S), NEW T, NEW t \in Seq(T), Len(s) = Len(t),
           \A i \in 1 .. Len(s) : s[i] = t[i]
    PROVE  s = t
<1> QED
  OBVIOUS

(* The elements of a part of a sequence. *)
LEMMA PartFacts ==
    ASSUME NEW S, NEW s \in Seq(S), NEW a \in Nat \ {0}, NEW b \in Nat, a <= b, b <= Len(s)
    PROVE  /\ SubSeq(s, a, b) \in Seq(S) /\ Len(SubSeq(s, a, b)) = b - a + 1
           /\ \A i \in 1 .. b - a + 1 : SubSeq(s, a, b)[i] = s[a + i - 1]
<1>1. \A i \in a .. b : s[i] \in S
  OBVIOUS
<1> QED
  BY <1>1, SubSeqProperties

LEMMA PartOfOne ==
    ASSUME NEW S, NEW s \in Seq(S), NEW a \in Nat \ {0}, a <= Len(s)
    PROVE  SubSeq(s, a, a) = <<s[a]>>
<1> DEFINE q == SubSeq(s, a, a)
           t == <<s[a]>>
<1>1. a <= a /\ a - a + 1 = 1 /\ a \in Nat
  OBVIOUS
<1>2. q \in Seq(S) /\ Len(q) = 1 /\ \A i \in 1 .. 1 : q[i] = s[a + i - 1]
  BY <1>1, PartFacts
<1>3. t \in Seq(S) /\ Len(t) = 1
  OBVIOUS
<1>4. q[1] = t[1]
  <2>1. a + 1 - 1 = a
    OBVIOUS
  <2> HIDE DEF q
  <2> QED
    BY <1>2, <2>1
<1>5. \A i \in 1 .. 1 : i = 1
  OBVIOUS
<1> HIDE DEF q, t
<1>6. q = t
  BY <1>2, <1>3, <1>4, <1>5, SameSequence
<1> QED
  BY <1>6 DEF q, t

LEMMA PartOfTwo ==
    ASSUME NEW S, NEW s \in Seq(S), NEW a \in Nat \ {0}, a + 1 <= Len(s)
    PROVE  SubSeq(s, a, a + 1) = <<s[a], s[a + 1]>>
<1> DEFINE q == SubSeq(s, a, a + 1)
           t == <<s[a], s[a + 1]>>
<1>1. a <= a + 1 /\ (a + 1) - a + 1 = 2 /\ a + 1 \in Nat
  OBVIOUS
<1>2. q \in Seq(S) /\ Len(q) = 2 /\ \A i \in 1 .. 2 : q[i] = s[a + i - 1]
  BY <1>1, PartFacts
<1>3. t \in Seq(S) /\ Len(t) = 2
  OBVIOUS
<1>4. q[1] = t[1] /\ q[2] = t[2]
  <2>1. a + 1 - 1 = a /\ a + 2 - 1 = a + 1
    OBVIOUS
  <2> HIDE DEF q
  <2> QED
    BY <1>2, <2>1
<1>5. \A i \in 1 .. 2 : i = 1 \/ i = 2
  OBVIOUS
<1> HIDE DEF q, t
<1>6. q = t
  BY <1>2, <1>3, <1>4, <1>5, SameSequence
<1> QED
  BY <1>6 DEF q, t

LEMMA PartOfThree ==
    ASSUME NEW S, NEW s \in Seq(S), NEW a \in Nat \ {0}, a + 2 <= Len(s)
    PROVE  SubSeq(s, a, a + 2) = <<s[a], s[a + 1], s[a + 2]>>
<1> DEFINE q == SubSeq(s, a, a + 2)
           t == <<s[a], s[a + 1], s[a + 2]>>
<1>1. a <= a + 2 /\ (a + 2) - a + 1 = 3 /\ a + 2 \in Nat
  OBVIOUS
<1>2. q \in Seq(S) /\ Len(q) = 3 /\ \A i \in 1 .. 3 : q[i] = s[a + i - 1]
  BY <1>1, PartFacts
<1>3. t \in Seq(S) /\ Len(t) = 3
  OBVIOUS
<1>4. q[1] = t[1] /\ q[2] = t[2] /\ q[3] = t[3]
  <2>1. a + 1 - 1 = a /\ a + 2 - 1 = a + 1 /\ a + 3 - 1 = a + 2
    OBVIOUS
  <2> HIDE DEF q
  <2> QED
    BY <1>2, <2>1
<1>5. \A i \in 1 .. 3 : i = 1 \/ i = 2 \/ i = 3
  OBVIOUS
<1> HIDE DEF q, t
<1>6. q = t
  BY <1>2, <1>3, <1>4, <1>5, SameSequence
<1> QED
  BY <1>6 DEF q, t

LEMMA PartOfFour ==
    ASSUME NEW S, NEW s \in Seq(S), NEW a \in Nat \ {0}, a + 3 <= Len(s)
    PROVE  SubSeq(s, a, a + 3) = <<s[a], s[a + 1], s[a + 2], s[a + 3]>>
<1> DEFINE q == SubSeq(s, a, a + 3)
           t == <<s[a], s[a + 1], s[a + 2], s[a + 3]>>
<1>1. a <= a + 3 /\ (a + 3) - a + 1 = 4 /\ a + 3 \in Nat
  OBVIOUS
<1>2. q \in Seq(S) /\ Len(q) = 4 /\ \A i \in 1 .. 4 : q[i] = s[a + i - 1]
  BY <1>1, PartFacts
<1>3. t \in Seq(S) /\ Len(t) = 4
  OBVIOUS
<1>4. q[1] = t[1] /\ q[2] = t[2] /\ q[3] = t[3] /\ q[4] = t[4]
  <2>1. a + 1 - 1 = a /\ a + 2 - 1 = a + 1 /\ a + 3 - 1 = a + 2 /\ a + 4 - 1 = a + 3
    OBVIOUS
  <2> HIDE DEF q
  <2> QED
    BY <1>2, <2>1
<1>5. \A i \in 1 .. 4 : i = 1 \/ i = 2 \/ i = 3 \/ i = 4
  OBVIOUS
<1> HIDE DEF q, t
<1>6. q = t
  BY <1>2, <1>3, <1>4, <1>5, SameSequence
<1> QED
  BY <1>6 DEF q, t

LEMMA IntervalOf ==
    ASSUME NEW r \in Nat, NEW low \in Nat \ {0}, NEW high \in Nat, high <= r,
           NEW Q \in SUBSET (1 .. r),
           \A i \in low .. high : i \in Q,
           \A i \in 1 .. r : i < low \/ i > high => i \notin Q
    PROVE  Q = low .. high
<1>1. \A i \in low .. high : i \in 1 .. r
  OBVIOUS
<1>2. \A i \in 1 .. r : i \in low .. high \/ i < low \/ i > high
  OBVIOUS
<1> QED
  BY <1>1, <1>2, Zenon

(* The first positions are counted by themselves. *)
LEMMA NthOfFirst ==
    ASSUME NEW m \in Nat, NEW k \in 1 .. m
    PROVE  Nth(1 .. m, k) = k
<1>1. ASSUME NEW i \in 1 .. m PROVE Cardinality((1 .. m) \cap (1 .. i)) = i
  <2>1. (1 .. m) \cap (1 .. i) = 1 .. i
    OBVIOUS
  <2>2. Cardinality(1 .. i) = i
    BY FS_Interval
  <2> QED
    BY <2>1, <2>2
<1> QED
  BY <1>1 DEF Nth

LEMMA AtFirst ==
    ASSUME NEW s, NEW m \in Nat
    PROVE  /\ At(s, 1 .. m) = [k \in 1 .. m |-> s[k]]
           /\ Cardinality(1 .. m) = m
<1>1. Cardinality(1 .. m) = m
  BY FS_Interval
<1> QED
  BY <1>1, NthOfFirst DEF At

LEMMA MinOfTwo == ASSUME NEW a \in Nat, NEW b \in Nat
                  PROVE  Min({a, b}) = IF a <= b THEN a ELSE b
<1> DEFINE least == IF a <= b THEN a ELSE b
<1>1. least \in {a, b} /\ \A y \in {a, b} : least <= y
  OBVIOUS
<1>2. \A x \in {a, b} : (\A y \in {a, b} : x <= y) => x = least
  OBVIOUS
<1> QED
  BY <1>1, <1>2, Zenon DEF Min

-----------------------------------------------------------------------------
(* How many blocks of three some bytes make. *)
Blocks(n) == (n + 2) \div 3

LEMMA BlockCount ==
    \A n \in Nat :
        /\ Blocks(n) \in Nat
        /\ n = 3 * Blocks(n) \/ n = 3 * Blocks(n) - 1 \/ n = 3 * Blocks(n) - 2
<1> QED
  BY DEF Blocks

LEMMA RoomLeft ==
    ASSUME NEW n \in Nat, NEW m \in Nat, n = 3 * m \/ n = 3 * m - 1 \/ n = 3 * m - 2
    PROVE  Room(n) \in Nat /\ Room(n) - 4 * m \in 1 .. 4 
<1> QED
  BY DEF Room

LEMMA ByteCount ==
    ASSUME NEW n \in Nat, NEW m \in Nat, n = 3 * m \/ n = 3 * m - 1 \/ n = 3 * m - 2
    PROVE  (6 * (m + n)) \div 8 = n
<1> QED
  OBVIOUS

(* The pieces of three that bytes are cut into. *)
LEMMA PiecesOfThree ==
    ASSUME NEW S, NEW s \in Seq(S), NEW m, m = Blocks(Len(s))
    PROVE  /\ DOMAIN Pieces(s, 3) = 1 .. m /\ Len(Pieces(s, 3)) = m
           /\ \A j \in 1 .. m :
                /\ 3 * j <= Len(s) => Pieces(s, 3)[j] = <<s[3 * j - 2], s[3 * j - 1], s[3 * j]>>
                /\ 3 * j = Len(s) + 1 => Pieces(s, 3)[j] = <<s[3 * j - 2], s[3 * j - 1]>>
                /\ 3 * j = Len(s) + 2 => Pieces(s, 3)[j] = <<s[3 * j - 2]>>
<1> DEFINE n == Len(s)
           last(j) == IF 3 * j < n THEN 3 * j ELSE n
           p == Pieces(s, 3)
<1>1. n \in Nat /\ n + 3 - 1 = n + 2 /\ m \in Nat
  BY BlockCount
<1>2. p = [j \in 1 .. m |-> SubSeq(s, 3 * (j - 1) + 1, last(j))]
  BY <1>1 DEF Pieces, Blocks
<1> HIDE DEF p
<1>3. DOMAIN p = 1 .. m /\ Len(p) = m
  BY <1>1, <1>2
<1>4. \A j \in 1 .. m : p[j] = SubSeq(s, 3 * (j - 1) + 1, last(j))
  BY <1>2
<1>5. ASSUME NEW j \in 1 .. m, 3 * j <= n
      PROVE  p[j] = <<s[3 * j - 2], s[3 * j - 1], s[3 * j]>>
  <2>1. /\ 3 * j - 2 \in Nat \ {0} /\ 3 * (j - 1) + 1 = 3 * j - 2
        /\ last(j) = (3 * j - 2) + 2 /\ (3 * j - 2) + 2 <= n
        /\ (3 * j - 2) + 1 = 3 * j - 1 /\ (3 * j - 2) + 2 = 3 * j
    BY <1>1, <1>5
  <2>2. p[j] = SubSeq(s, 3 * j - 2, (3 * j - 2) + 2)
    BY <1>4, <2>1
  <2> QED
    BY <2>1, <2>2, PartOfThree
<1>6. ASSUME NEW j \in 1 .. m, 3 * j = n + 1
      PROVE  p[j] = <<s[3 * j - 2], s[3 * j - 1]>>
  <2>1. /\ 3 * j - 2 \in Nat \ {0} /\ 3 * (j - 1) + 1 = 3 * j - 2
        /\ last(j) = (3 * j - 2) + 1 /\ (3 * j - 2) + 1 <= n
        /\ (3 * j - 2) + 1 = 3 * j - 1
    BY <1>1, <1>6
  <2>2. p[j] = SubSeq(s, 3 * j - 2, (3 * j - 2) + 1)
    BY <1>4, <2>1
  <2> QED
    BY <2>1, <2>2, PartOfTwo
<1>7. ASSUME NEW j \in 1 .. m, 3 * j = n + 2
      PROVE  p[j] = <<s[3 * j - 2]>>
  <2>1. /\ 3 * j - 2 \in Nat \ {0} /\ 3 * (j - 1) + 1 = 3 * j - 2
        /\ last(j) = 3 * j - 2 /\ 3 * j - 2 <= n
    BY <1>1, <1>7
  <2>2. p[j] = SubSeq(s, 3 * j - 2, 3 * j - 2)
    BY <1>4, <2>1
  <2> QED
    BY <2>1, <2>2, PartOfOne
<1> QED
  BY <1>3, <1>5, <1>6, <1>7 DEF p

(* The pieces of four that symbols are cut into, if nothing is left over. *)
LEMMA PiecesOfFour ==
    ASSUME NEW S, NEW s \in Seq(S), NEW m \in Nat, Len(s) = 4 * m
    PROVE  /\ Pieces(s, 4) \in Seq(Seq(S)) /\ Len(Pieces(s, 4)) = m
           /\ \A j \in 1 .. m :
                Pieces(s, 4)[j] = <<s[4 * j - 3], s[4 * j - 2], s[4 * j - 1], s[4 * j]>>
<1> DEFINE last(j) == IF 4 * j < Len(s) THEN 4 * j ELSE Len(s)
           p == Pieces(s, 4)
<1>1. (4 * m + 4 - 1) \div 4 = m
  OBVIOUS
<1>2. p = [j \in 1 .. m |-> SubSeq(s, 4 * (j - 1) + 1, last(j))]
  BY <1>1 DEF Pieces
<1> HIDE DEF p
<1>3. ASSUME NEW j \in 1 .. m
      PROVE  /\ p[j] = <<s[4 * j - 3], s[4 * j - 2], s[4 * j - 1], s[4 * j]>>
             /\ p[j] \in Seq(S)
  <2>1. /\ 4 * j - 3 \in Nat \ {0} /\ 4 * (j - 1) + 1 = 4 * j - 3
        /\ last(j) = (4 * j - 3) + 3 /\ (4 * j - 3) + 3 <= 4 * m
        /\ (4 * j - 3) + 1 = 4 * j - 2 /\ (4 * j - 3) + 2 = 4 * j - 1
        /\ (4 * j - 3) + 3 = 4 * j
    OBVIOUS
  <2>2. p[j] = SubSeq(s, 4 * j - 3, (4 * j - 3) + 3)
    BY <1>2, <2>1
  <2>3. SubSeq(s, 4 * j - 3, (4 * j - 3) + 3) \in Seq(S)
    BY <2>1, PartFacts
  <2> QED
    BY <2>1, <2>2, <2>3, PartOfFour
<1>4. p \in Seq(Seq(S)) /\ Len(p) = m
  BY <1>2, <1>3
<1> QED
  BY <1>3, <1>4 DEF p

-----------------------------------------------------------------------------
(* A sequence with zeros behind it. *)
Padded(s, i) == IF i <= Len(s) THEN s[i] ELSE 0

LEMMA PaddedIsByte ==
    ASSUME NEW s \in Seq(Byte), NEW k \in Nat \ {0}
    PROVE  Padded(s, k) \in Byte
<1>1. k <= Len(s) => s[k] \in Byte
  OBVIOUS
<1>2. 0 \in Byte
  BY DEF Byte
<1> QED
  BY <1>1, <1>2 DEF Padded

LEMMA SymbolRange ==
    ASSUME NEW a \in Byte, NEW b \in Byte, NEW c \in Byte
    PROVE  /\ a \div 4 \in 0 .. 63 /\ 16 * (a % 4) + b \div 16 \in 0 .. 63
           /\ 4 * (b % 16) + c \div 64 \in 0 .. 63 /\ c % 64 \in 0 .. 63
<1> QED
  BY DEF Byte

LEMMA FourthParts ==
    ASSUME NEW j \in Nat \ {0}
    PROVE  /\ (4 * j - 3 - 1) \div 4 + 1 = j /\ ((4 * j - 3 - 1) % 4) + 1 = 1
           /\ (4 * j - 2 - 1) \div 4 + 1 = j /\ ((4 * j - 2 - 1) % 4) + 1 = 2
           /\ (4 * j - 1 - 1) \div 4 + 1 = j /\ ((4 * j - 1 - 1) % 4) + 1 = 3
           /\ (4 * j - 1) \div 4 + 1 = j /\ ((4 * j - 1) % 4) + 1 = 4
<1> QED
  OBVIOUS

(* A block by its bytes, with zeros for those that are missing. *)
Symbols(a, b, c, len) ==
    <<a \div 4, 16 * (a % 4) + b \div 16,
      IF len >= 2 THEN 4 * (b % 16) + c \div 64 ELSE Pad, IF len = 3 THEN c % 64 ELSE Pad>>

LEMMA BlockSymbols ==
    ASSUME NEW a \in Nat, NEW b \in Nat, NEW c \in Nat
    PROVE  /\ Block(<<a, b, c>>) = Symbols(a, b, c, 3)
           /\ Block(<<a, b>>) = Symbols(a, b, 0, 2)
           /\ Block(<<a>>) = Symbols(a, 0, 0, 1)
<1> QED
  BY DEF Block, Symbols

(* The symbols of the j-th block are those of its bytes. *)
LEMMA Encoded ==
    ASSUME NEW s \in Seq(Byte), NEW m \in Nat, m = Blocks(Len(s))
    PROVE  /\ Encode(s) \in Seq(0 .. 65) /\ Len(Encode(s)) = Room(Len(s))
           /\ \A j \in 1 .. m :
                /\ Encode(s)[4 * j - 3] = Padded(s, 3 * j - 2) \div 4
                /\ Encode(s)[4 * j - 2] = 16 * (Padded(s, 3 * j - 2) % 4) + Padded(s, 3 * j - 1) \div 16
                /\ Encode(s)[4 * j - 1] = (IF 3 * j - 1 <= Len(s)
                     THEN 4 * (Padded(s, 3 * j - 1) % 16) + Padded(s, 3 * j) \div 64 ELSE Pad)
                /\ Encode(s)[4 * j] = (IF 3 * j <= Len(s) THEN Padded(s, 3 * j) % 64 ELSE Pad)
           /\ \A i \in 4 * m + 1 .. Room(Len(s)) : Encode(s)[i] = Blank
<1> DEFINE n == Len(s)
           e == Encode(s)
           p == Pieces(s, 3)
           r == Room(n)
           a(j) == Padded(s, 3 * j - 2)
           b(j) == Padded(s, 3 * j - 1)
           c(j) == Padded(s, 3 * j)
           len(j) == IF 3 * j <= n THEN 3 ELSE n - 3 * j + 3
<1>1. n \in Nat /\ (n = 3 * m \/ n = 3 * m - 1 \/ n = 3 * m - 2)
  <2>1. n \in Nat
    OBVIOUS
  <2> QED
    BY <2>1, BlockCount, Zenon
<1>2. r \in Nat /\ r - 4 * m \in 1 .. 4
  BY <1>1, RoomLeft
<1>3. Len(p) = m
  BY PiecesOfThree
<1>4. e = [i \in 1 .. r |-> IF i <= 4 * m THEN Block(p[(i - 1) \div 4 + 1])[((i - 1) % 4) + 1]
                                          ELSE Blank]
  BY <1>3 DEF Encode
<1>5. ASSUME NEW j \in 1 .. m PROVE a(j) \in Byte /\ b(j) \in Byte /\ c(j) \in Byte
  <2>1. /\ 3 * j - 2 \in Nat \ {0} /\ 3 * j - 1 \in Nat \ {0} /\ 3 * j \in Nat \ {0}
    OBVIOUS
  <2> QED
    BY <2>1, PaddedIsByte
<1> HIDE DEF a, b, c, len, p
<1>5a. ASSUME NEW j \in 1 .. m PROVE a(j) \in Nat /\ b(j) \in Nat /\ c(j) \in Nat
  <2>1. \A x \in Byte : x \in Nat
    BY DEF Byte
  <2> QED
    BY <1>5, <2>1
<1>6. ASSUME NEW j \in 1 .. m PROVE Block(p[j]) = Symbols(a(j), b(j), c(j), len(j))
  <2>1. CASE 3 * j <= n
    <3>1. p[j] = <<s[3 * j - 2], s[3 * j - 1], s[3 * j]>>
      BY <2>1, PiecesOfThree DEF p
    <3>2. len(j) = 3 /\ a(j) = s[3 * j - 2] /\ b(j) = s[3 * j - 1] /\ c(j) = s[3 * j]
      BY <1>1, <2>1 DEF Padded, a, b, c, len
    <3>3. a(j) \in Nat /\ b(j) \in Nat /\ c(j) \in Nat
      BY <1>5a
    <3>4. p[j] = <<a(j), b(j), c(j)>>
      BY <3>1, <3>2
    <3>5. Block(<<a(j), b(j), c(j)>>) = Symbols(a(j), b(j), c(j), 3)
      BY <3>3, BlockSymbols
    <3> QED
      BY <3>2, <3>4, <3>5
  <2>2. CASE 3 * j = n + 1
    <3>1. p[j] = <<s[3 * j - 2], s[3 * j - 1]>>
      BY <2>2, PiecesOfThree DEF p
    <3>2. len(j) = 2 /\ a(j) = s[3 * j - 2] /\ b(j) = s[3 * j - 1] /\ c(j) = 0
      BY <1>1, <2>2, SMTT(20) DEF Padded, a, b, c, len
    <3>3. a(j) \in Nat /\ b(j) \in Nat /\ c(j) \in Nat
      BY <1>5a
    <3>4. p[j] = <<a(j), b(j)>>
      BY <3>1, <3>2
    <3>5. Block(p[j]) = Symbols(a(j), b(j), 0, 2)
      BY <3>3, <3>4, BlockSymbols
    <3> QED
      BY <3>2, <3>5
  <2>3. CASE 3 * j = n + 2
    <3>1. p[j] = <<s[3 * j - 2]>>
      BY <2>3, PiecesOfThree DEF p
    <3>2. len(j) = 1 /\ a(j) = s[3 * j - 2] /\ b(j) = 0 /\ c(j) = 0
      BY <1>1, <2>3 DEF Padded, a, b, c, len
    <3>3. a(j) \in Nat /\ b(j) \in Nat /\ c(j) \in Nat
      BY <1>5a
    <3>4. p[j] = <<a(j)>>
      BY <3>1, <3>2
    <3>5. Block(p[j]) = Symbols(a(j), 0, 0, 1)
      BY <3>3, <3>4, BlockSymbols
    <3> QED
      BY <3>2, <3>5
  <2> QED
    BY <1>1, <2>1, <2>2, <2>3
<1> HIDE DEF e, r
<1>7. ASSUME NEW j \in 1 .. m
      PROVE  /\ e[4 * j - 3] = a(j) \div 4
             /\ e[4 * j - 2] = 16 * (a(j) % 4) + b(j) \div 16
             /\ e[4 * j - 1] = (IF 3 * j - 1 <= n THEN 4 * (b(j) % 16) + c(j) \div 64 ELSE Pad)
             /\ e[4 * j] = (IF 3 * j <= n THEN c(j) % 64 ELSE Pad)
  <2> DEFINE x == Symbols(a(j), b(j), c(j), len(j))
  <2>1. /\ 4 * j - 3 \in 1 .. r /\ 4 * j - 2 \in 1 .. r /\ 4 * j - 1 \in 1 .. r /\ 4 * j \in 1 .. r
        /\ 4 * j - 3 <= 4 * m /\ 4 * j - 2 <= 4 * m /\ 4 * j - 1 <= 4 * m /\ 4 * j <= 4 * m
    BY <1>2
  <2> HIDE DEF x
  <2>2. /\ e[4 * j - 3] = Block(p[j])[1] /\ e[4 * j - 2] = Block(p[j])[2]
        /\ e[4 * j - 1] = Block(p[j])[3] /\ e[4 * j] = Block(p[j])[4]
    <3> DEFINE at(k) == (k - 1) \div 4 + 1
               place(k) == ((k - 1) % 4) + 1
    <3>1. ASSUME NEW k \in 1 .. r, k <= 4 * m
          PROVE  e[k] = Block(p[at(k)])[place(k)]
      BY <1>4, <3>1
    <3>6. /\ at(4 * j - 3) = j /\ at(4 * j - 2) = j /\ at(4 * j - 1) = j /\ at(4 * j) = j
          /\ place(4 * j - 3) = 1 /\ place(4 * j - 2) = 2 /\ place(4 * j - 1) = 3 /\ place(4 * j) = 4
      BY FourthParts
    <3> HIDE DEF at, place
    <3>2. e[4 * j - 3] = Block(p[j])[1]
      BY <2>1, <3>1, <3>6
    <3>3. e[4 * j - 2] = Block(p[j])[2]
      BY <2>1, <3>1, <3>6
    <3>4. e[4 * j - 1] = Block(p[j])[3]
      BY <2>1, <3>1, <3>6
    <3>5. e[4 * j] = Block(p[j])[4]
      BY <2>1, <3>1, <3>6
    <3> QED
      BY <3>2, <3>3, <3>4, <3>5
  <2>3. Block(p[j]) = x
    BY <1>6 DEF x
  <2>4. (len(j) >= 2 <=> 3 * j - 1 <= n) /\ (len(j) = 3 <=> 3 * j <= n)
    BY <1>1 DEF len
  <2>5. /\ x[1] = a(j) \div 4 /\ x[2] = 16 * (a(j) % 4) + b(j) \div 16
        /\ x[3] = (IF len(j) >= 2 THEN 4 * (b(j) % 16) + c(j) \div 64 ELSE Pad)
        /\ x[4] = (IF len(j) = 3 THEN c(j) % 64 ELSE Pad)
    BY DEF x, Symbols
  <2> QED
    BY <2>2, <2>3, <2>4, <2>5
<1>8. \A i \in 4 * m + 1 .. r : e[i] = Blank
  BY <1>2, <1>4
<1>9. e \in Seq(0 .. 65) /\ Len(e) = r
  <2>1. ASSUME NEW i \in 1 .. r PROVE e[i] \in 0 .. 65
    <3>1. CASE i > 4 * m
      <4>1. e[i] = Blank
        BY <1>2, <1>8, <3>1
      <4> QED
        BY <4>1 DEF Blank
    <3>2. CASE i <= 4 * m
      <4>1. PICK j \in 1 .. m : i = 4 * j - 3 \/ i = 4 * j - 2 \/ i = 4 * j - 1 \/ i = 4 * j
        <5>1. (i + 3) \div 4 \in 1 .. m
          BY <3>2
        <5>2. \/ i = 4 * ((i + 3) \div 4) - 3 \/ i = 4 * ((i + 3) \div 4) - 2
              \/ i = 4 * ((i + 3) \div 4) - 1 \/ i = 4 * ((i + 3) \div 4)
          OBVIOUS
        <5> QED
          BY <5>1, <5>2
      <4>2. /\ a(j) \div 4 \in 0 .. 63 /\ 16 * (a(j) % 4) + b(j) \div 16 \in 0 .. 63
            /\ 4 * (b(j) % 16) + c(j) \div 64 \in 0 .. 63 /\ c(j) % 64 \in 0 .. 63
        BY <1>5, SymbolRange
      <4> QED
        <5>1. e[4 * j - 3] \in 0 .. 63 /\ e[4 * j - 2] \in 0 .. 63
          BY <1>7, <4>2
        <5>2. e[4 * j - 1] \in 0 .. 64 /\ e[4 * j] \in 0 .. 64
          BY <1>7, <4>2 DEF Pad
        <5>3. \A x \in 0 .. 64 : x \in 0 .. 65
          OBVIOUS
        <5>4. \A x \in 0 .. 63 : x \in 0 .. 65
          OBVIOUS
        <5> QED
          BY <4>1, <5>1, <5>2, <5>3, <5>4
    <3> QED
      BY <1>2, <3>1, <3>2
  <2> QED
    BY <1>2, <1>4, <2>1
<1> QED
  BY <1>7, <1>8, <1>9 DEF e, r, a, b, c

(* How many of the symbols of a block are marks. *)
LEMMA Filled ==
    ASSUME NEW n \in Nat, NEW m \in Nat, NEW j \in 1 .. m,
           n = 3 * m \/ n = 3 * m - 1 \/ n = 3 * m - 2
    PROVE  /\ 4 * j - 2 <= m + n
           /\ 4 * j - 1 <= m + n <=> 3 * j - 1 <= n
           /\ 4 * j <= m + n <=> 3 * j <= n
<1>1. CASE n = 3 * m
  BY <1>1
<1>2. CASE n = 3 * m - 1
  BY <1>2
<1>3. CASE n = 3 * m - 2
  BY <1>3
<1> QED
  BY <1>1, <1>2, <1>3

(* Of what encode writes, symbols come first, then marks, then blanks. *)
LEMMA Zones ==
    ASSUME NEW s \in Seq(Byte), NEW n \in Nat, n = Len(s), NEW m \in Nat, m = Blocks(n)
    PROVE  /\ m + n \in 0 .. 4 * m
           /\ \A i \in 1 .. m + n : Encode(s)[i] \in 0 .. 63
           /\ \A i \in m + n + 1 .. 4 * m : Encode(s)[i] = Pad
<1> DEFINE e == Encode(s)
           a(j) == Padded(s, 3 * j - 2)
           b(j) == Padded(s, 3 * j - 1)
           c(j) == Padded(s, 3 * j)
<1>1. n = 3 * m \/ n = 3 * m - 1 \/ n = 3 * m - 2
  BY BlockCount, Zenon
<1>2. m + n \in 0 .. 4 * m
  BY <1>1
<1>3. ASSUME NEW j \in 1 .. m
      PROVE  /\ e[4 * j - 3] \in 0 .. 63 /\ e[4 * j - 2] \in 0 .. 63
             /\ 4 * j - 1 <= m + n => e[4 * j - 1] \in 0 .. 63
             /\ 4 * j <= m + n => e[4 * j] \in 0 .. 63
             /\ 4 * j - 2 <= m + n
             /\ 4 * j - 1 > m + n => e[4 * j - 1] = Pad
             /\ 4 * j > m + n => e[4 * j] = Pad
  <2>1. a(j) \in Byte /\ b(j) \in Byte /\ c(j) \in Byte
    <3>1. /\ 3 * j - 2 \in Nat \ {0} /\ 3 * j - 1 \in Nat \ {0} /\ 3 * j \in Nat \ {0}
      OBVIOUS
    <3> QED
      BY <3>1, PaddedIsByte
  <2>2. /\ e[4 * j - 3] = a(j) \div 4
        /\ e[4 * j - 2] = 16 * (a(j) % 4) + b(j) \div 16
        /\ e[4 * j - 1] = (IF 3 * j - 1 <= n THEN 4 * (b(j) % 16) + c(j) \div 64 ELSE Pad)
        /\ e[4 * j] = (IF 3 * j <= n THEN c(j) % 64 ELSE Pad)
    <3>1. m = Blocks(Len(s))
      OBVIOUS
    <3>2. /\ Encode(s)[4 * j - 3] = Padded(s, 3 * j - 2) \div 4
          /\ Encode(s)[4 * j - 2] = 16 * (Padded(s, 3 * j - 2) % 4) + Padded(s, 3 * j - 1) \div 16
          /\ Encode(s)[4 * j - 1] = (IF 3 * j - 1 <= Len(s)
               THEN 4 * (Padded(s, 3 * j - 1) % 16) + Padded(s, 3 * j) \div 64 ELSE Pad)
          /\ Encode(s)[4 * j] = (IF 3 * j <= Len(s) THEN Padded(s, 3 * j) % 64 ELSE Pad)
      BY <3>1, Encoded, Zenon
    <3> QED
      BY <3>2
  <2>3. /\ 4 * j - 2 <= m + n
        /\ 4 * j - 1 <= m + n <=> 3 * j - 1 <= n
        /\ 4 * j <= m + n <=> 3 * j <= n
    BY <1>1, Filled
  <2> HIDE DEF a, b, c, e
  <2>4. /\ a(j) \div 4 \in 0 .. 63 /\ 16 * (a(j) % 4) + b(j) \div 16 \in 0 .. 63
        /\ 4 * (b(j) % 16) + c(j) \div 64 \in 0 .. 63 /\ c(j) % 64 \in 0 .. 63
    BY <2>1, SymbolRange
  <2> QED
    BY <2>2, <2>3, <2>4
<1> HIDE DEF e
<1>4. ASSUME NEW i \in 1 .. 4 * m
      PROVE  /\ i <= m + n => e[i] \in 0 .. 63
             /\ i > m + n => e[i] = Pad
  <2>1. PICK j \in 1 .. m : i = 4 * j - 3 \/ i = 4 * j - 2 \/ i = 4 * j - 1 \/ i = 4 * j
    <3>1. (i + 3) \div 4 \in 1 .. m
      OBVIOUS
    <3>2. \/ i = 4 * ((i + 3) \div 4) - 3 \/ i = 4 * ((i + 3) \div 4) - 2
          \/ i = 4 * ((i + 3) \div 4) - 1 \/ i = 4 * ((i + 3) \div 4)
      OBVIOUS
    <3> QED
      BY <3>1, <3>2
  <2>2. CASE i = 4 * j - 3
    BY <1>2, <1>3, <2>2
  <2>3. CASE i = 4 * j - 2
    BY <1>2, <1>3, <2>3
  <2>4. CASE i = 4 * j - 1
    BY <1>3, <2>4
  <2>5. CASE i = 4 * j
    BY <1>3, <2>5
  <2> QED
    BY <2>1, <2>2, <2>3, <2>4, <2>5
<1> QED
  BY <1>2, <1>4 DEF e

LEMMA Counted ==
    ASSUME NEW s \in Seq(Byte), NEW n \in Nat, n = Len(s), NEW m \in Nat, m = Blocks(n)
    PROVE  /\ {i \in DOMAIN Encode(s) : Encode(s)[i] # Blank} = 1 .. 4 * m
           /\ {i \in DOMAIN Encode(s) : Encode(s)[i] = Blank} = 4 * m + 1 .. Room(n)
           /\ {i \in DOMAIN Encode(s) : Encode(s)[i] < Pad} = 1 .. m + n
           /\ Marks(Encode(s)) = m + n + 1 .. 4 * m
           /\ Room(n) \in Nat /\ Room(n) - 4 * m \in 1 .. 4 
<1> DEFINE e == Encode(s)
           r == Room(n)
<1>1. e \in Seq(0 .. 65) /\ Len(e) = r /\ \A i \in 4 * m + 1 .. r : e[i] = Blank
  BY Encoded
<1>2. /\ m + n \in 0 .. 4 * m
      /\ \A i \in 1 .. m + n : e[i] \in 0 .. 63
      /\ \A i \in m + n + 1 .. 4 * m : e[i] = Pad
  BY Zones
<1>3. r \in Nat /\ r - 4 * m \in 1 .. 4
  <2>1. n = 3 * m \/ n = 3 * m - 1 \/ n = 3 * m - 2
    BY BlockCount, Zenon
  <2> QED
    BY <2>1, RoomLeft
<1>4. DOMAIN e = 1 .. r
  BY <1>1
<1> DEFINE q == m + n
           f == 4 * m
<1>4a. q \in Nat /\ f \in Nat /\ q <= f /\ f <= r /\ r \in Nat
  BY <1>2, <1>3
<1>4b. /\ \A i \in 1 .. q : e[i] \in 0 .. 63
       /\ \A i \in q + 1 .. f : e[i] = Pad
       /\ \A i \in f + 1 .. r : e[i] = Blank
  BY <1>1, <1>2
<1> HIDE DEF e, r, q, f
<1>5. \A i \in 1 .. q : e[i] < Pad /\ e[i] # Pad /\ e[i] # Blank
  <2>1. \A x \in 0 .. 63 : x < Pad /\ x # Pad /\ x # Blank
    BY DEF Pad, Blank
  <2> QED
    BY <1>4b, <2>1
<1>6. \A i \in q + 1 .. f : ~(e[i] < Pad) /\ e[i] # Blank
  BY <1>4b DEF Pad, Blank
<1>7. \A i \in f + 1 .. r : ~(e[i] < Pad) /\ e[i] # Pad
  BY <1>4b DEF Pad, Blank
<1>8. {i \in 1 .. r : e[i] # Blank} = 1 .. f
  <2>1. \A i \in 1 .. f : i \in 1 .. q \/ i \in q + 1 .. f
    BY <1>4a
  <2>2. \A i \in 1 .. r : i < 1 \/ i > f => i \in f + 1 .. r
    BY <1>4a
  <2>3. \A i \in 1 .. f : i \in 1 .. r
    BY <1>4a
  <2>4. f \in Nat /\ f <= r
    BY <1>4a
  <2> QED
    BY <1>4a, <1>4b, <1>5, <1>6, <2>1, <2>2, <2>3, <2>4, IntervalOf
<1>9. {i \in 1 .. r : e[i] = Blank} = f + 1 .. r
  <2>1. \A i \in 1 .. r : i < f + 1 \/ i > r => i \in 1 .. q \/ i \in q + 1 .. f
    BY <1>4a
  <2>2. \A i \in f + 1 .. r : i \in 1 .. r
    BY <1>4a
  <2>3. f + 1 \in Nat \ {0} /\ r <= r
    BY <1>4a
  <2> QED
    BY <1>4a, <1>4b, <1>5, <1>6, <2>1, <2>2, <2>3, IntervalOf
<1>10. {i \in 1 .. r : e[i] < Pad} = 1 .. q
  <2>1. \A i \in 1 .. r : i < 1 \/ i > q => i \in q + 1 .. f \/ i \in f + 1 .. r
    BY <1>4a
  <2>2. \A i \in 1 .. q : i \in 1 .. r
    BY <1>4a
  <2>3. q \in Nat /\ q <= r
    BY <1>4a
  <2> QED
    BY <1>4a, <1>4b, <1>5, <1>6, <1>7, <2>1, <2>2, <2>3, IntervalOf
<1>11. {i \in 1 .. r : e[i] = Pad} = q + 1 .. f
  <2>1. \A i \in 1 .. r : i < q + 1 \/ i > f => i \in 1 .. q \/ i \in f + 1 .. r
    BY <1>4a
  <2>2. \A i \in q + 1 .. f : i \in 1 .. r
    BY <1>4a
  <2>3. q + 1 \in Nat \ {0} /\ f \in Nat /\ f <= r
    BY <1>4a
  <2> QED
    BY <1>4a, <1>4b, <1>5, <1>7, <2>1, <2>2, <2>3, IntervalOf
<1> QED
  BY <1>3, <1>4, <1>8, <1>9, <1>10, <1>11 DEF e, r, q, f, Marks

-----------------------------------------------------------------------------
LEMMA BytesBack ==
    ASSUME NEW a \in Byte, NEW b \in Byte, NEW c \in Byte,
           NEW v, v = a \div 4, NEW w, w = 16 * (a % 4) + b \div 16,
           NEW x, x = 4 * (b % 16) + c \div 64, NEW y, y = c % 64
    PROVE  /\ (4 * v + w \div 16) % 256 = a
           /\ (16 * w + x \div 4) % 256 = b
           /\ (64 * x + y) % 256 = c
<1>1. v \in 0 .. 63 /\ w \in 0 .. 63 /\ x \in 0 .. 63 /\ y \in 0 .. 63
  BY SymbolRange
<1>2. (4 * v + w \div 16) % 256 = a
  BY DEF Byte
<1>3. (16 * w + x \div 4) % 256 = b
  BY DEF Byte
<1>4. (64 * x + y) % 256 = c
  BY DEF Byte
<1> QED
  BY <1>2, <1>3, <1>4

LEMMA ThirdParts ==
    ASSUME NEW j \in Nat \ {0}
    PROVE  /\ (3 * j - 2 - 1) \div 3 + 1 = j /\ ((3 * j - 2 - 1) % 3) + 1 = 1
           /\ (3 * j - 1 - 1) \div 3 + 1 = j /\ ((3 * j - 1 - 1) % 3) + 1 = 2
           /\ (3 * j - 1) \div 3 + 1 = j /\ ((3 * j - 1) % 3) + 1 = 3
<1> QED
  OBVIOUS

LEMMA PaddedAfter ==
    ASSUME NEW s \in Seq(Byte), NEW k \in Nat, Len(s) <= k
    PROVE  /\ s \o Zeros(k - Len(s)) = [i \in 1 .. k |-> Padded(s, i)]
<1> DEFINE z == Zeros(k - Len(s))
           t == [i \in 1 .. k |-> Padded(s, i)]
<1>1. 0 \in Byte /\ Len(s) \in Nat
  BY DEF Byte
<1>2. k - Len(s) \in Nat
  BY <1>1
<1>3. z \in Seq(Byte) /\ Len(z) = k - Len(s) /\ \A i \in 1 .. k - Len(s) : z[i] = 0
  BY <1>1, <1>2 DEF Zeros
<1>4. t \in Seq(Byte) /\ Len(t) = k /\ \A i \in 1 .. k : t[i] = Padded(s, i)
  BY PaddedIsByte
<1> HIDE DEF z, t
<1>5. /\ s \o z \in Seq(Byte) /\ Len(s \o z) = k
      /\ \A i \in 1 .. Len(s) : (s \o z)[i] = s[i]
      /\ \A i \in Len(s) + 1 .. k : (s \o z)[i] = z[i - Len(s)]
  BY <1>1, <1>3, ConcatProperties
<1>6. ASSUME NEW i \in 1 .. k PROVE (s \o z)[i] = Padded(s, i)
  <2>1. CASE i <= Len(s)
    <3>1. i \in 1 .. Len(s)
      BY <1>1, <2>1
    <3>2. (s \o z)[i] = s[i]
      BY <1>5, <3>1
    <3> QED
      BY <2>1, <3>2 DEF Padded
  <2>2. CASE i > Len(s)
    <3>1. i - Len(s) \in 1 .. k - Len(s) /\ i \in Len(s) + 1 .. k /\ ~(i <= Len(s))
      BY <1>1, <2>2
    <3>2. (s \o z)[i] = z[i - Len(s)] /\ z[i - Len(s)] = 0
      BY <1>3, <1>5, <3>1
    <3> QED
      BY <3>1, <3>2, Zenon DEF Padded
  <2>3. i <= Len(s) \/ i > Len(s)
    BY <1>1
  <2> QED
    BY <2>1, <2>2, <2>3
<1>7. s \o z = t
  BY <1>4, <1>5, <1>6, SameSequence
<1> QED
  BY <1>7 DEF z, t

(* What decode does not pass over. *)
Known(e) == At(e, {i \in DOMAIN e : e[i] # Blank})

(* The blocks that decode finds are those that encode wrote. *)
LEMMA BlocksFound ==
    ASSUME NEW s \in Seq(Byte), NEW n \in Nat, n = Len(s), NEW m \in Nat, m = Blocks(n)
    PROVE  /\ Len(Known(Encode(s))) = 4 * m /\ Len(Pieces(Known(Encode(s)), 4)) = m
           /\ \A j \in 1 .. m :
                Pieces(Known(Encode(s)), 4)[j] = <<Encode(s)[4 * j - 3], Encode(s)[4 * j - 2],
                                        Encode(s)[4 * j - 1], Encode(s)[4 * j]>>
<1> DEFINE e == Encode(s)
           known == Known(e)
<1>1. {i \in DOMAIN e : e[i] # Blank} = 1 .. 4 * m /\ Room(n) - 4 * m \in 1 .. 4 /\ Room(n) \in Nat
  BY Counted
<1>2. e \in Seq(Char) /\ Len(e) = Room(n)
  BY Encoded DEF Char
<1> HIDE DEF e
<1>3. known = At(e, 1 .. 4 * m)
  BY <1>1 DEF e, Known
<1> HIDE DEF known
<1>4. 4 * m \in Nat
  OBVIOUS
<1>5. known = [k \in 1 .. 4 * m |-> e[k]]
  BY <1>3, <1>4, AtFirst
<1>6. ASSUME NEW k \in 1 .. 4 * m PROVE e[k] \in Char
  BY <1>1, <1>2
<1>7. known \in Seq(Char) /\ Len(known) = 4 * m
  BY <1>4, <1>5, <1>6
<1>8. /\ Len(Pieces(known, 4)) = m
      /\ \A j \in 1 .. m :
           Pieces(known, 4)[j] = <<known[4 * j - 3], known[4 * j - 2], known[4 * j - 1], known[4 * j]>>
  BY <1>7, PiecesOfFour
<1>9. ASSUME NEW j \in 1 .. m
      PROVE  /\ known[4 * j - 3] = e[4 * j - 3] /\ known[4 * j - 2] = e[4 * j - 2]
             /\ known[4 * j - 1] = e[4 * j - 1] /\ known[4 * j] = e[4 * j]
  <2>1. /\ 4 * j - 3 \in 1 .. 4 * m /\ 4 * j - 2 \in 1 .. 4 * m
        /\ 4 * j - 1 \in 1 .. 4 * m /\ 4 * j \in 1 .. 4 * m
    OBVIOUS
  <2> QED
    BY <1>5, <2>1
<1> QED
  BY <1>7, <1>8, <1>9 DEF e, known

(* Only the last block has marks, two at most. *)
LEMMA MarksLast ==
    ASSUME NEW s \in Seq(Byte), NEW n \in Nat, n = Len(s), NEW m \in Nat, m = Blocks(n),
           NEW j \in 1 .. m, NEW b,
           b = <<Encode(s)[4 * j - 3], Encode(s)[4 * j - 2], Encode(s)[4 * j - 1], Encode(s)[4 * j]>>
    PROVE  /\ j < m => Marks(b) = {}
           /\ Cardinality(Marks(b)) \in 0 .. 2
<1> DEFINE e == Encode(s)
<1>1. /\ m + n \in 0 .. 4 * m
      /\ \A i \in 1 .. m + n : e[i] # Pad
  <2>1. \A x \in 0 .. 63 : x # Pad
    BY DEF Pad
  <2> QED
    BY <2>1, Zones
<1>2. n = 3 * m \/ n = 3 * m - 1 \/ n = 3 * m - 2
  BY BlockCount, Zenon
<1> HIDE DEF e
<1>3. b[1] # Pad /\ b[2] # Pad
  <2>1. 4 * j - 3 \in 1 .. m + n /\ 4 * j - 2 \in 1 .. m + n
    BY <1>2, SMTT(20)
  <2>2. b[1] = e[4 * j - 3] /\ b[2] = e[4 * j - 2]
    BY DEF e
  <2> QED
    BY <1>1, <2>1, <2>2
<1>4. j < m => b[3] # Pad /\ b[4] # Pad
  <2>1. j < m => 4 * j - 1 \in 1 .. m + n /\ 4 * j \in 1 .. m + n
    BY <1>2
  <2>2. b[3] = e[4 * j - 1] /\ b[4] = e[4 * j]
    BY DEF e
  <2> QED
    BY <1>1, <2>1, <2>2
<1>5. DOMAIN b = {1, 2, 3, 4}
  OBVIOUS
<1>6. Marks(b) \in SUBSET (3 .. 4)
  BY <1>3, <1>5 DEF Marks
<1>7. j < m => Marks(b) = {}
  BY <1>3, <1>4, <1>5 DEF Marks
<1>8. Cardinality(Marks(b)) \in 0 .. 2
  <2>1. IsFiniteSet(3 .. 4) /\ Cardinality(3 .. 4) = 2
    <3>1. 3 \in Int /\ 4 \in Int /\ ~(3 > 4) /\ 4 - 3 + 1 = 2
      OBVIOUS
    <3> QED
      BY <3>1, FS_Interval
  <2>2. IsFiniteSet(Marks(b)) /\ Cardinality(Marks(b)) <= 2
    BY <1>6, <2>1, FS_Subset, SMTT(20)
  <2>3. Cardinality(Marks(b)) \in Nat
    BY <2>2, FS_CardinalityType
  <2> QED
    BY <2>2, <2>3
<1> QED
  BY <1>7, <1>8

(* Base64::decode takes back what Base64::encode makes of any bytes, with a
   zero for each mark of padding (base64.cpp:37-74, 76-117).               *)
THEOREM DecodesBack ==
    ASSUME NEW s \in Seq(Byte)
    PROVE  Decode(Encode(s)) = s \o Zeros(Cardinality(Marks(Encode(s))))
<1> DEFINE n == Len(s)
           m == Blocks(n)
           e == Encode(s)
           known == Known(e)
           blocks == Pieces(known, 4)
           marked == {i \in 1 .. Len(blocks) : Marks(blocks[i]) # {}}
           last == IF marked # {} THEN Min(marked) ELSE 0
           done == IF last = 0 THEN Len(blocks) ELSE last
<1>1. n \in Nat
  OBVIOUS
<1> HIDE DEF n
<1>2. m \in Nat /\ (n = 3 * m \/ n = 3 * m - 1 \/ n = 3 * m - 2)
  BY <1>1, BlockCount
<1> HIDE DEF m
<1>3. /\ Len(known) = 4 * m /\ Len(blocks) = m
      /\ \A j \in 1 .. m : blocks[j] = <<e[4 * j - 3], e[4 * j - 2], e[4 * j - 1], e[4 * j]>>
  <2>1. n = Len(s) /\ m = Blocks(n)
    BY DEF n, m
  <2> QED
    BY <1>1, <1>2, <2>1, BlocksFound
<1>4. ASSUME NEW j \in 1 .. m
      PROVE  /\ j < m => Marks(blocks[j]) = {}
             /\ Cardinality(Marks(blocks[j])) \in 0 .. 2
  BY <1>1, <1>2, <1>3, MarksLast DEF n, m
<1>5. Decode(e) =
        IF Len(known) % 4 # 0 \/ (last # 0 /\ Cardinality(Marks(blocks[last])) > 2) THEN <<>>
        ELSE [i \in 1 .. 3 * Len(blocks) |->
                IF i <= 3 * done THEN Bytes(blocks[(i - 1) \div 3 + 1])[((i - 1) % 3) + 1] ELSE 0]
  BY DEF Decode, SelectInSeq, Known
<1> HIDE DEF e, known, blocks
<1>6. marked \subseteq {m}
  <2>1. ASSUME NEW j \in 1 .. m, Marks(blocks[j]) # {} PROVE j = m
    <3>1. ~(j < m)
      BY <1>4, <2>1
    <3> QED
      BY <1>2, <3>1
  <2> QED
    BY <1>3, <2>1
<1>7. (last = 0 \/ (last = m /\ m \in 1 .. m)) /\ done = m
  <2>1. CASE marked = {}
    BY <1>3, <2>1
  <2>2. CASE marked # {}
    <3>1. marked = {m, m} /\ m \in 1 .. m
      BY <1>3, <1>6, <2>2
    <3>2. Min({m, m}) = m
      BY <1>2, MinOfTwo
    <3>3. last = m
      BY <2>2, <3>1, <3>2
    <3> HIDE DEF last
    <3> QED
      BY <3>1, <3>3
  <2> QED
    BY <2>1, <2>2
<1> HIDE DEF last, done, marked
<1>8. ~(Len(known) % 4 # 0 \/ (last # 0 /\ Cardinality(Marks(blocks[last])) > 2))
  <2>1. (4 * m) % 4 = 0
    BY <1>2
  <2>2. last # 0 => Cardinality(Marks(blocks[last])) \in 0 .. 2
    BY <1>4, <1>7
  <2>3. \A x \in 0 .. 2 : ~(x > 2)
    OBVIOUS
  <2> QED
    BY <1>3, <2>1, <2>2, <2>3
<1>9. Decode(e) = [i \in 1 .. 3 * m |->
                     IF i <= 3 * m THEN Bytes(blocks[(i - 1) \div 3 + 1])[((i - 1) % 3) + 1] ELSE 0]
  BY <1>3, <1>5, <1>7, <1>8
<1>10. ASSUME NEW j \in 1 .. m
       PROVE  Bytes(blocks[j]) = <<Padded(s, 3 * j - 2), Padded(s, 3 * j - 1), Padded(s, 3 * j)>>
  <2> DEFINE a == Padded(s, 3 * j - 2)
             b == Padded(s, 3 * j - 1)
             c == Padded(s, 3 * j)
             v == a \div 4
             w == 16 * (a % 4) + b \div 16
             x == 4 * (b % 16) + c \div 64
             y == c % 64
  <2>1. a \in Byte /\ b \in Byte /\ c \in Byte
    <3>1. /\ 3 * j - 2 \in Nat \ {0} /\ 3 * j - 1 \in Nat \ {0} /\ 3 * j \in Nat \ {0}
      OBVIOUS
    <3> QED
      BY <3>1, PaddedIsByte
  <2>2. /\ e[4 * j - 3] = v /\ e[4 * j - 2] = w
        /\ e[4 * j - 1] = (IF 3 * j - 1 <= n THEN x ELSE Pad)
        /\ e[4 * j] = (IF 3 * j <= n THEN y ELSE Pad)
    BY <1>1, <1>2, Encoded DEF e, n, m
  <2>3. (~(3 * j - 1 <= n) => b = 0 /\ c = 0) /\ (~(3 * j <= n) => c = 0)
    <3>1. ~(3 * j - 1 <= n) => ~(3 * j <= n)
      BY <1>1
    <3> QED
      BY <3>1 DEF Padded, n
  <2> HIDE DEF a, b, c
  <2>4. /\ v \in 0 .. 63 /\ w \in 0 .. 63 /\ x \in 0 .. 63 /\ y \in 0 .. 63
        /\ (4 * v + w \div 16) % 256 = a
        /\ (16 * w + x \div 4) % 256 = b
        /\ (64 * x + y) % 256 = c
    BY <2>1, SymbolRange, BytesBack
  <2>5. (b = 0 /\ c = 0 => x = 0) /\ (c = 0 => y = 0)
    OBVIOUS
  <2> HIDE DEF v, w, x, y
  <2>6. /\ Value(e[4 * j - 3]) = v /\ Value(e[4 * j - 2]) = w
        /\ Value(e[4 * j - 1]) = x /\ Value(e[4 * j]) = y
    <3>1. /\ \A z \in 0 .. 63 : Value(z) = z
          /\ Value(Pad) = 0
      BY DEF Value, Pad
    <3> QED
      BY <2>2, <2>3, <2>4, <2>5, <3>1, ZenonT(30)
  <2>7. Bytes(blocks[j]) = <<(4 * v + w \div 16) % 256, (16 * w + x \div 4) % 256, (64 * x + y) % 256>>
    BY <1>3, <2>6, SMTT(20) DEF Bytes
  <2> QED
    BY <2>4, <2>7 DEF a, b, c
<1>11. ASSUME NEW i \in 1 .. 3 * m
       PROVE  Bytes(blocks[(i - 1) \div 3 + 1])[((i - 1) % 3) + 1] = Padded(s, i)
  <2>1. PICK j \in 1 .. m : i = 3 * j - 2 \/ i = 3 * j - 1 \/ i = 3 * j
    <3>1. (i + 2) \div 3 \in 1 .. m
      BY <1>2
    <3>2. \/ i = 3 * ((i + 2) \div 3) - 2 \/ i = 3 * ((i + 2) \div 3) - 1
          \/ i = 3 * ((i + 2) \div 3)
      BY <1>2
    <3> QED
      BY <3>1, <3>2
  <2>2. j \in Nat \ {0}
    BY <1>2
  <2>3. CASE i = 3 * j - 2
    <3>1. (i - 1) \div 3 + 1 = j /\ ((i - 1) % 3) + 1 = 1
      BY <2>2, <2>3, ThirdParts
    <3> QED
      BY <1>10, <2>3, <3>1
  <2>4. CASE i = 3 * j - 1
    <3>1. (i - 1) \div 3 + 1 = j /\ ((i - 1) % 3) + 1 = 2
      BY <2>2, <2>4, ThirdParts
    <3> QED
      BY <1>10, <2>4, <3>1
  <2>5. CASE i = 3 * j
    <3>1. (i - 1) \div 3 + 1 = j /\ ((i - 1) % 3) + 1 = 3
      BY <2>2, <2>5, ThirdParts
    <3> QED
      BY <1>10, <2>5, <3>1
  <2> QED
    BY <2>1, <2>3, <2>4, <2>5
<1>12. Decode(e) = [i \in 1 .. 3 * m |-> Padded(s, i)]
  <2>1. \A i \in 1 .. 3 * m : i <= 3 * m
    BY <1>2
  <2> QED
    BY <1>9, <1>11, <2>1, Zenon
<1>13. 3 * m \in Nat /\ n <= 3 * m
  BY <1>1, <1>2
<1>14. Cardinality(Marks(e)) = 3 * m - n
  <2>1. Marks(e) = m + n + 1 .. 4 * m
    BY <1>1, <1>2, Counted DEF e, n, m
  <2>2. Cardinality(m + n + 1 .. 4 * m) = IF m + n + 1 > 4 * m THEN 0 ELSE 4 * m - (m + n + 1) + 1
    BY <1>1, <1>2, FS_Interval
  <2> QED
    BY <1>1, <1>2, <2>1, <2>2
<1>15. s \o Zeros(3 * m - n) = [i \in 1 .. 3 * m |-> Padded(s, i)]
  BY <1>13, PaddedAfter DEF n
<1> QED
  BY <1>12, <1>14, <1>15 DEF e

-----------------------------------------------------------------------------
LEMMA BitWeights ==
    /\ <<32, 16, 8, 4, 2, 1>>[0 + 1] = 32 /\ <<32, 16, 8, 4, 2, 1>>[1 + 1] = 16
    /\ <<32, 16, 8, 4, 2, 1>>[2 + 1] = 8  /\ <<32, 16, 8, 4, 2, 1>>[3 + 1] = 4
    /\ <<32, 16, 8, 4, 2, 1>>[4 + 1] = 2  /\ <<32, 16, 8, 4, 2, 1>>[5 + 1] = 1
<1> QED
  OBVIOUS

(* The six bits of a symbol, from the first one on. *)
Bit(x, c) == (x \div <<32, 16, 8, 4, 2, 1>>[c + 1]) % 2

LEMMA BitsOfSymbol ==
    ASSUME NEW x \in 0 .. 63
    PROVE  /\ \A c \in 0 .. 5 : Bit(x, c) \in Nat
           /\ x = 32 * Bit(x, 0) + 16 * Bit(x, 1) + 8 * Bit(x, 2) + 4 * Bit(x, 3) + 2 * Bit(x, 4) + Bit(x, 5)
           /\ x \div 16 = 2 * Bit(x, 0) + Bit(x, 1)
           /\ x % 16 = 8 * Bit(x, 2) + 4 * Bit(x, 3) + 2 * Bit(x, 4) + Bit(x, 5)
           /\ x \div 4 = 8 * Bit(x, 0) + 4 * Bit(x, 1) + 2 * Bit(x, 2) + Bit(x, 3)
           /\ x % 4 = 2 * Bit(x, 4) + Bit(x, 5)
<1>1. /\ Bit(x, 0) = (x \div 32) % 2 /\ Bit(x, 1) = (x \div 16) % 2 /\ Bit(x, 2) = (x \div 8) % 2
      /\ Bit(x, 3) = (x \div 4) % 2 /\ Bit(x, 4) = (x \div 2) % 2 /\ Bit(x, 5) = (x \div 1) % 2
  BY BitWeights DEF Bit
<1> DEFINE b0 == (x \div 32) % 2
           b1 == (x \div 16) % 2
           b2 == (x \div 8) % 2
           b3 == (x \div 4) % 2
           b4 == (x \div 2) % 2
           b5 == (x \div 1) % 2
<1>2. /\ b0 \in Nat /\ b1 \in Nat /\ b2 \in Nat /\ b3 \in Nat /\ b4 \in Nat /\ b5 \in Nat
      /\ x = 32 * b0 + 16 * b1 + 8 * b2 + 4 * b3 + 2 * b4 + b5
      /\ x \div 16 = 2 * b0 + b1 /\ x % 16 = 8 * b2 + 4 * b3 + 2 * b4 + b5
      /\ x \div 4 = 8 * b0 + 4 * b1 + 2 * b2 + b3 /\ x % 4 = 2 * b4 + b5
  OBVIOUS
<1>3. /\ Bit(x, 0) = b0 /\ Bit(x, 1) = b1 /\ Bit(x, 2) = b2
      /\ Bit(x, 3) = b3 /\ Bit(x, 4) = b4 /\ Bit(x, 5) = b5
  BY <1>1
<1> HIDE DEF b0, b1, b2, b3, b4, b5
<1>4. \A c \in 0 .. 5 : Bit(x, c) \in Nat
  <2>1. \A c \in 0 .. 5 : c = 0 \/ c = 1 \/ c = 2 \/ c = 3 \/ c = 4 \/ c = 5
    OBVIOUS
  <2> QED
    BY <1>2, <1>3, <2>1
<1> QED
  BY <1>2, <1>3, <1>4

LEMMA BitPlaces ==
    ASSUME NEW sextets, NEW t \in Nat
    PROVE  /\ \A c \in 0 .. 5 : BitOf(sextets, 24 * t + c) = Bit(sextets[4 * t + 1], c)
           /\ \A c \in 0 .. 5 : BitOf(sextets, 24 * t + 6 + c) = Bit(sextets[4 * t + 2], c)
           /\ \A c \in 0 .. 5 : BitOf(sextets, 24 * t + 12 + c) = Bit(sextets[4 * t + 3], c)
           /\ \A c \in 0 .. 5 : BitOf(sextets, 24 * t + 18 + c) = Bit(sextets[4 * t + 4], c)
<1>1. ASSUME NEW c \in 0 .. 5
      PROVE  BitOf(sextets, 24 * t + c) = Bit(sextets[4 * t + 1], c)
  <2>1. (24 * t + c) \div 6 + 1 = 4 * t + 1 /\ (24 * t + c) % 6 = c
    OBVIOUS
  <2> QED
    BY <2>1 DEF BitOf, Bit
<1>2. ASSUME NEW c \in 0 .. 5
      PROVE  BitOf(sextets, 24 * t + 6 + c) = Bit(sextets[4 * t + 2], c)
  <2>1. (24 * t + 6 + c) \div 6 + 1 = 4 * t + 2 /\ (24 * t + 6 + c) % 6 = c
    OBVIOUS
  <2> QED
    BY <2>1 DEF BitOf, Bit
<1>3. ASSUME NEW c \in 0 .. 5
      PROVE  BitOf(sextets, 24 * t + 12 + c) = Bit(sextets[4 * t + 3], c)
  <2>1. (24 * t + 12 + c) \div 6 + 1 = 4 * t + 3 /\ (24 * t + 12 + c) % 6 = c
    OBVIOUS
  <2> QED
    BY <2>1 DEF BitOf, Bit
<1>4. ASSUME NEW c \in 0 .. 5
      PROVE  BitOf(sextets, 24 * t + 18 + c) = Bit(sextets[4 * t + 4], c)
  <2>1. (24 * t + 18 + c) \div 6 + 1 = 4 * t + 4 /\ (24 * t + 18 + c) % 6 = c
    OBVIOUS
  <2> QED
    BY <2>1 DEF BitOf, Bit
<1> QED
  BY <1>1, <1>2, <1>3, <1>4

LEMMA ThreeBytes ==
    ASSUME NEW sextets, NEW t \in Nat
    PROVE  LET v == sextets[4 * t + 1]
               w == sextets[4 * t + 2]
               x == sextets[4 * t + 3]
               y == sextets[4 * t + 4]
           IN  /\ v \in 0 .. 63 /\ w \in 0 .. 63 => ByteAt(sextets, 24 * t) = 4 * v + w \div 16
               /\ w \in 0 .. 63 /\ x \in 0 .. 63 => ByteAt(sextets, 24 * t + 8) = 16 * (w % 16) + x \div 4
               /\ x \in 0 .. 63 /\ y \in 0 .. 63 => ByteAt(sextets, 24 * t + 16) = 64 * (x % 4) + y
<1> DEFINE v == sextets[4 * t + 1]
           w == sextets[4 * t + 2]
           x == sextets[4 * t + 3]
           y == sextets[4 * t + 4]
<1>1. ASSUME v \in 0 .. 63, w \in 0 .. 63
      PROVE  ByteAt(sextets, 24 * t) = 4 * v + w \div 16
  <2>1. BitOf(sextets, 24 * t + 0) = Bit(v, 0)
    <3>1. 0 \in 0 .. 5 /\ 24 * t + 0 = 24 * t + 0
      OBVIOUS
    <3> QED
      BY <3>1, BitPlaces
  <2>2. BitOf(sextets, 24 * t + 1) = Bit(v, 1)
    <3>1. 1 \in 0 .. 5 /\ 24 * t + 1 = 24 * t + 1
      OBVIOUS
    <3> QED
      BY <3>1, BitPlaces
  <2>3. BitOf(sextets, 24 * t + 2) = Bit(v, 2)
    <3>1. 2 \in 0 .. 5 /\ 24 * t + 2 = 24 * t + 2
      OBVIOUS
    <3> QED
      BY <3>1, BitPlaces
  <2>4. BitOf(sextets, 24 * t + 3) = Bit(v, 3)
    <3>1. 3 \in 0 .. 5 /\ 24 * t + 3 = 24 * t + 3
      OBVIOUS
    <3> QED
      BY <3>1, BitPlaces
  <2>5. BitOf(sextets, 24 * t + 4) = Bit(v, 4)
    <3>1. 4 \in 0 .. 5 /\ 24 * t + 4 = 24 * t + 4
      OBVIOUS
    <3> QED
      BY <3>1, BitPlaces
  <2>6. BitOf(sextets, 24 * t + 5) = Bit(v, 5)
    <3>1. 5 \in 0 .. 5 /\ 24 * t + 5 = 24 * t + 5
      OBVIOUS
    <3> QED
      BY <3>1, BitPlaces
  <2>7. BitOf(sextets, 24 * t + 6) = Bit(w, 0)
    <3>1. 0 \in 0 .. 5 /\ 24 * t + 6 = 24 * t + 6 + 0
      OBVIOUS
    <3> QED
      BY <3>1, BitPlaces
  <2>8. BitOf(sextets, 24 * t + 7) = Bit(w, 1)
    <3>1. 1 \in 0 .. 5 /\ 24 * t + 7 = 24 * t + 6 + 1
      OBVIOUS
    <3> QED
      BY <3>1, BitPlaces
  <2> HIDE DEF v, w, x, y
  <2>9. ByteAt(sextets, 24 * t) =
           128 * Bit(v, 0) + 64 * Bit(v, 1) + 32 * Bit(v, 2) + 16 * Bit(v, 3) + 8 * Bit(v, 4) + 4 * Bit(v, 5) + 2 * Bit(w, 0) + Bit(w, 1)
    BY <2>1, <2>2, <2>3, <2>4, <2>5, <2>6, <2>7, <2>8 DEF ByteAt
  <2>10. /\ v = 32 * Bit(v, 0) + 16 * Bit(v, 1) + 8 * Bit(v, 2) + 4 * Bit(v, 3) + 2 * Bit(v, 4) + Bit(v, 5)
         /\ w \div 16 = 2 * Bit(w, 0) + Bit(w, 1)
    BY <1>1, BitsOfSymbol
  <2>11. /\ Bit(v, 0) \in Nat /\ Bit(v, 1) \in Nat /\ Bit(v, 2) \in Nat /\ Bit(v, 3) \in Nat /\ Bit(v, 4) \in Nat /\ Bit(v, 5) \in Nat
         /\ Bit(w, 0) \in Nat /\ Bit(w, 1) \in Nat /\ Bit(w, 2) \in Nat /\ Bit(w, 3) \in Nat /\ Bit(w, 4) \in Nat /\ Bit(w, 5) \in Nat
    <3>1. (\A c \in 0 .. 5 : Bit(v, c) \in Nat) /\ (\A c \in 0 .. 5 : Bit(w, c) \in Nat)
      BY <1>1, BitsOfSymbol
    <3> QED
      BY <3>1
  <2> QED
    BY <2>9, <2>10, <2>11
<1>2. ASSUME w \in 0 .. 63, x \in 0 .. 63
      PROVE  ByteAt(sextets, 24 * t + 8) = 16 * (w % 16) + x \div 4
  <2>1. BitOf(sextets, 24 * t + 8 + 0) = Bit(w, 2)
    <3>1. 2 \in 0 .. 5 /\ 24 * t + 8 + 0 = 24 * t + 6 + 2
      OBVIOUS
    <3> QED
      BY <3>1, BitPlaces
  <2>2. BitOf(sextets, 24 * t + 8 + 1) = Bit(w, 3)
    <3>1. 3 \in 0 .. 5 /\ 24 * t + 8 + 1 = 24 * t + 6 + 3
      OBVIOUS
    <3> QED
      BY <3>1, BitPlaces
  <2>3. BitOf(sextets, 24 * t + 8 + 2) = Bit(w, 4)
    <3>1. 4 \in 0 .. 5 /\ 24 * t + 8 + 2 = 24 * t + 6 + 4
      OBVIOUS
    <3> QED
      BY <3>1, BitPlaces
  <2>4. BitOf(sextets, 24 * t + 8 + 3) = Bit(w, 5)
    <3>1. 5 \in 0 .. 5 /\ 24 * t + 8 + 3 = 24 * t + 6 + 5
      OBVIOUS
    <3> QED
      BY <3>1, BitPlaces
  <2>5. BitOf(sextets, 24 * t + 8 + 4) = Bit(x, 0)
    <3>1. 0 \in 0 .. 5 /\ 24 * t + 8 + 4 = 24 * t + 12 + 0
      OBVIOUS
    <3> QED
      BY <3>1, BitPlaces
  <2>6. BitOf(sextets, 24 * t + 8 + 5) = Bit(x, 1)
    <3>1. 1 \in 0 .. 5 /\ 24 * t + 8 + 5 = 24 * t + 12 + 1
      OBVIOUS
    <3> QED
      BY <3>1, BitPlaces
  <2>7. BitOf(sextets, 24 * t + 8 + 6) = Bit(x, 2)
    <3>1. 2 \in 0 .. 5 /\ 24 * t + 8 + 6 = 24 * t + 12 + 2
      OBVIOUS
    <3> QED
      BY <3>1, BitPlaces
  <2>8. BitOf(sextets, 24 * t + 8 + 7) = Bit(x, 3)
    <3>1. 3 \in 0 .. 5 /\ 24 * t + 8 + 7 = 24 * t + 12 + 3
      OBVIOUS
    <3> QED
      BY <3>1, BitPlaces
  <2> HIDE DEF v, w, x, y
  <2>9. ByteAt(sextets, 24 * t + 8) =
           128 * Bit(w, 2) + 64 * Bit(w, 3) + 32 * Bit(w, 4) + 16 * Bit(w, 5) + 8 * Bit(x, 0) + 4 * Bit(x, 1) + 2 * Bit(x, 2) + Bit(x, 3)
    BY <2>1, <2>2, <2>3, <2>4, <2>5, <2>6, <2>7, <2>8 DEF ByteAt
  <2>10. /\ w % 16 = 8 * Bit(w, 2) + 4 * Bit(w, 3) + 2 * Bit(w, 4) + Bit(w, 5)
         /\ x \div 4 = 8 * Bit(x, 0) + 4 * Bit(x, 1) + 2 * Bit(x, 2) + Bit(x, 3)
    BY <1>2, BitsOfSymbol
  <2>11. /\ Bit(w, 0) \in Nat /\ Bit(w, 1) \in Nat /\ Bit(w, 2) \in Nat /\ Bit(w, 3) \in Nat /\ Bit(w, 4) \in Nat /\ Bit(w, 5) \in Nat
         /\ Bit(x, 0) \in Nat /\ Bit(x, 1) \in Nat /\ Bit(x, 2) \in Nat /\ Bit(x, 3) \in Nat /\ Bit(x, 4) \in Nat /\ Bit(x, 5) \in Nat
    <3>1. (\A c \in 0 .. 5 : Bit(w, c) \in Nat) /\ (\A c \in 0 .. 5 : Bit(x, c) \in Nat)
      BY <1>2, BitsOfSymbol
    <3> QED
      BY <3>1
  <2> QED
    BY <2>9, <2>10, <2>11
<1>3. ASSUME x \in 0 .. 63, y \in 0 .. 63
      PROVE  ByteAt(sextets, 24 * t + 16) = 64 * (x % 4) + y
  <2>1. BitOf(sextets, 24 * t + 16 + 0) = Bit(x, 4)
    <3>1. 4 \in 0 .. 5 /\ 24 * t + 16 + 0 = 24 * t + 12 + 4
      OBVIOUS
    <3> QED
      BY <3>1, BitPlaces
  <2>2. BitOf(sextets, 24 * t + 16 + 1) = Bit(x, 5)
    <3>1. 5 \in 0 .. 5 /\ 24 * t + 16 + 1 = 24 * t + 12 + 5
      OBVIOUS
    <3> QED
      BY <3>1, BitPlaces
  <2>3. BitOf(sextets, 24 * t + 16 + 2) = Bit(y, 0)
    <3>1. 0 \in 0 .. 5 /\ 24 * t + 16 + 2 = 24 * t + 18 + 0
      OBVIOUS
    <3> QED
      BY <3>1, BitPlaces
  <2>4. BitOf(sextets, 24 * t + 16 + 3) = Bit(y, 1)
    <3>1. 1 \in 0 .. 5 /\ 24 * t + 16 + 3 = 24 * t + 18 + 1
      OBVIOUS
    <3> QED
      BY <3>1, BitPlaces
  <2>5. BitOf(sextets, 24 * t + 16 + 4) = Bit(y, 2)
    <3>1. 2 \in 0 .. 5 /\ 24 * t + 16 + 4 = 24 * t + 18 + 2
      OBVIOUS
    <3> QED
      BY <3>1, BitPlaces
  <2>6. BitOf(sextets, 24 * t + 16 + 5) = Bit(y, 3)
    <3>1. 3 \in 0 .. 5 /\ 24 * t + 16 + 5 = 24 * t + 18 + 3
      OBVIOUS
    <3> QED
      BY <3>1, BitPlaces
  <2>7. BitOf(sextets, 24 * t + 16 + 6) = Bit(y, 4)
    <3>1. 4 \in 0 .. 5 /\ 24 * t + 16 + 6 = 24 * t + 18 + 4
      OBVIOUS
    <3> QED
      BY <3>1, BitPlaces
  <2>8. BitOf(sextets, 24 * t + 16 + 7) = Bit(y, 5)
    <3>1. 5 \in 0 .. 5 /\ 24 * t + 16 + 7 = 24 * t + 18 + 5
      OBVIOUS
    <3> QED
      BY <3>1, BitPlaces
  <2> HIDE DEF v, w, x, y
  <2>9. ByteAt(sextets, 24 * t + 16) =
           128 * Bit(x, 4) + 64 * Bit(x, 5) + 32 * Bit(y, 0) + 16 * Bit(y, 1) + 8 * Bit(y, 2) + 4 * Bit(y, 3) + 2 * Bit(y, 4) + Bit(y, 5)
    BY <2>1, <2>2, <2>3, <2>4, <2>5, <2>6, <2>7, <2>8 DEF ByteAt
  <2>10. /\ x % 4 = 2 * Bit(x, 4) + Bit(x, 5)
         /\ y = 32 * Bit(y, 0) + 16 * Bit(y, 1) + 8 * Bit(y, 2) + 4 * Bit(y, 3) + 2 * Bit(y, 4) + Bit(y, 5)
    BY <1>3, BitsOfSymbol
  <2>11. /\ Bit(x, 0) \in Nat /\ Bit(x, 1) \in Nat /\ Bit(x, 2) \in Nat /\ Bit(x, 3) \in Nat /\ Bit(x, 4) \in Nat /\ Bit(x, 5) \in Nat
         /\ Bit(y, 0) \in Nat /\ Bit(y, 1) \in Nat /\ Bit(y, 2) \in Nat /\ Bit(y, 3) \in Nat /\ Bit(y, 4) \in Nat /\ Bit(y, 5) \in Nat
    <3>1. (\A c \in 0 .. 5 : Bit(x, c) \in Nat) /\ (\A c \in 0 .. 5 : Bit(y, c) \in Nat)
      BY <1>3, BitsOfSymbol
    <3> QED
      BY <3>1
  <2> QED
    BY <2>9, <2>10, <2>11
<1> QED
  BY <1>1, <1>2, <1>3

(* What base64 means by the symbols that encode writes are the bytes it was given
   (base64.cpp:37-74).                                                          *)
THEOREM MeaningKept ==
    ASSUME NEW s \in Seq(Byte)
    PROVE  BytesOf(At(Encode(s), {i \in DOMAIN Encode(s) : Encode(s)[i] < Pad})) = s
<1> DEFINE n == Len(s)
           m == Blocks(n)
           e == Encode(s)
           sextets == At(e, {i \in DOMAIN e : e[i] < Pad})
<1>1. n \in Nat
  OBVIOUS
<1> HIDE DEF n
<1>2. m \in Nat /\ (n = 3 * m \/ n = 3 * m - 1 \/ n = 3 * m - 2)
  BY <1>1, BlockCount
<1> HIDE DEF m
<1>3. {i \in DOMAIN e : e[i] < Pad} = 1 .. m + n
  BY <1>1, <1>2, Counted DEF n, m
<1>4. /\ m + n \in Nat /\ m + n <= 4 * m
      /\ \A i \in 1 .. m + n : e[i] \in 0 .. 63
  BY <1>1, <1>2, Zones DEF n, m
<1>5. ASSUME NEW j \in 1 .. m
      PROVE  /\ e[4 * j - 3] = Padded(s, 3 * j - 2) \div 4
             /\ e[4 * j - 2] = 16 * (Padded(s, 3 * j - 2) % 4) + Padded(s, 3 * j - 1) \div 16
             /\ e[4 * j - 1] = (IF 3 * j - 1 <= n
                  THEN 4 * (Padded(s, 3 * j - 1) % 16) + Padded(s, 3 * j) \div 64 ELSE Pad)
             /\ e[4 * j] = (IF 3 * j <= n THEN Padded(s, 3 * j) % 64 ELSE Pad)
  BY <1>1, <1>2, Encoded DEF n, m
<1> HIDE DEF e
<1>6. sextets = [k \in 1 .. m + n |-> e[k]]
  BY <1>3, <1>4, AtFirst
<1> HIDE DEF sextets
<1>7. Len(sextets) = m + n
  BY <1>4, <1>6
<1>8. (6 * (m + n)) \div 8 = n
  BY <1>1, <1>2, ByteCount
<1>9. BytesOf(sextets) = [i \in 1 .. n |-> ByteAt(sextets, 8 * (i - 1))]
  BY <1>7, <1>8 DEF BytesOf
<1>10. ASSUME NEW i \in 1 .. n PROVE ByteAt(sextets, 8 * (i - 1)) = s[i]
  <2>1. PICK j \in 1 .. m : i = 3 * j - 2 \/ i = 3 * j - 1 \/ i = 3 * j
    <3>1. (i + 2) \div 3 \in 1 .. m
      BY <1>1, <1>2
    <3>2. \/ i = 3 * ((i + 2) \div 3) - 2 \/ i = 3 * ((i + 2) \div 3) - 1
          \/ i = 3 * ((i + 2) \div 3)
      BY <1>1, <1>2
    <3> QED
      BY <3>1, <3>2
  <2> DEFINE t == j - 1
             a == Padded(s, 3 * j - 2)
             b == Padded(s, 3 * j - 1)
             c == Padded(s, 3 * j)
             v == a \div 4
             w == 16 * (a % 4) + b \div 16
             x == 4 * (b % 16) + c \div 64
             y == c % 64
             u == sextets
  <2>2. a \in Byte /\ b \in Byte /\ c \in Byte
    <3>1. /\ 3 * j - 2 \in Nat \ {0} /\ 3 * j - 1 \in Nat \ {0} /\ 3 * j \in Nat \ {0}
      BY <1>2
    <3> QED
      BY <3>1, PaddedIsByte
  <2>3. /\ t \in Nat /\ 4 * t + 1 = 4 * j - 3 /\ 4 * t + 2 = 4 * j - 2
        /\ 4 * t + 3 = 4 * j - 1 /\ 4 * t + 4 = 4 * j
    BY <1>2
  <2>4. e[4 * j - 3] = v /\ e[4 * j - 2] = w /\ (3 * j - 1 <= n => e[4 * j - 1] = x)
        /\ (3 * j <= n => e[4 * j] = y)
    BY <1>5
  <2>5. /\ 4 * j - 3 \in 1 .. m + n /\ 4 * j - 2 \in 1 .. m + n
        /\ 3 * j - 1 <= n => 4 * j - 1 \in 1 .. m + n
        /\ 3 * j <= n => 4 * j \in 1 .. m + n
    BY <1>1, <1>2
  <2> HIDE DEF t, a, b, c, v, w, x, y
  <2>6. /\ u[4 * t + 1] = v /\ u[4 * t + 2] = w
        /\ 3 * j - 1 <= n => u[4 * t + 3] = x
        /\ 3 * j <= n => u[4 * t + 4] = y
    BY <1>6, <2>3, <2>4, <2>5
  <2>7. /\ v \in 0 .. 63 /\ w \in 0 .. 63 /\ x \in 0 .. 63 /\ y \in 0 .. 63
    BY <2>2, SymbolRange DEF v, w, x, y
  <2>8. /\ 4 * v + w \div 16 = a /\ 16 * (w % 16) + x \div 4 = b /\ 64 * (x % 4) + y = c
    BY <2>2 DEF v, w, x, y, Byte
  <2>9. CASE i = 3 * j - 2
    <3>1. 8 * (i - 1) = 24 * t
      BY <2>9 DEF t
    <3>2. ByteAt(u, 24 * t) = 4 * v + w \div 16
      BY <2>3, <2>6, <2>7, ThreeBytes
    <3>3. a = s[i]
      BY <2>9 DEF a, Padded, n
    <3> QED
      BY <2>8, <3>1, <3>2, <3>3
  <2>10. CASE i = 3 * j - 1
    <3>1. 8 * (i - 1) = 24 * t + 8 /\ 3 * j - 1 <= n
      BY <1>1, <2>10 DEF t
    <3>2. ByteAt(u, 24 * t + 8) = 16 * (w % 16) + x \div 4
      BY <2>3, <2>6, <2>7, <3>1, ThreeBytes
    <3>3. b = s[i]
      BY <2>10 DEF b, Padded, n
    <3> QED
      BY <2>8, <3>1, <3>2, <3>3
  <2>11. CASE i = 3 * j
    <3>1. 8 * (i - 1) = 24 * t + 16 /\ 3 * j - 1 <= n /\ 3 * j <= n
      BY <1>1, <2>11 DEF t
    <3>2. ByteAt(u, 24 * t + 16) = 64 * (x % 4) + y
      BY <2>3, <2>6, <2>7, <3>1, ThreeBytes
    <3>3. c = s[i]
      BY <2>11 DEF c, Padded, n
    <3> QED
      BY <2>8, <3>1, <3>2, <3>3
  <2> QED
    BY <2>1, <2>9, <2>10, <2>11
<1>11. BytesOf(sextets) = [i \in 1 .. n |-> s[i]]
  BY <1>9, <1>10, Zenon
<1>12. s = [i \in 1 .. n |-> s[i]]
  BY DEF n
<1> QED
  BY <1>11, <1>12 DEF sextets, e
=============================================================================
