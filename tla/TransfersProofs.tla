--------------------------- MODULE TransfersProofs ---------------------------
(***************************************************************************)
(* Theorems about Transfers, for forms, pictures, limits and pieces of any *)
(* size: every variable keeps its type, a picture that is sent in pieces   *)
(* is sent whole and as it is, a data URL is the picture it was made of, a *)
(* form is found to be what the browser meant by it, whole or cut, and an  *)
(* upload is judged by what it has.                                        *)
(*                                                                         *)
(* The provers see a form only through a few facts: where a token stands   *)
(* (Stands, First, Absent), what is put behind what (Glue, Follows), where *)
(* the parts end (Bounds) and what was read of the first of them           *)
(* (FirstUpto).  Search and the recursion of parse are about these.        *)
(***************************************************************************)
EXTENDS Transfers, Base64Proofs, WellFoundedInduction

(* Induction over 0 .. n, about a set of numbers. *)
LEMMA UpTo ==
    ASSUME NEW n \in Nat, NEW S, 0 \in S, \A k \in 0 .. n - 1 : k \in S => k + 1 \in S
    PROVE  0 .. n \subseteq S
<1> SUFFICES ASSUME (0 .. n) \ S # {} PROVE FALSE
  OBVIOUS
<1> DEFINE T == {0 .. k : k \in (0 .. n) \ S}
           R == StrictSubsetOrdering(Nat)
<1>1. T # {} /\ T \subseteq FiniteSubsetsOf(Nat)
  <2>1. ASSUME NEW k \in 0 .. n PROVE IsFiniteSet(0 .. k) /\ 0 .. k \subseteq Nat
    BY FS_Interval
  <2> QED
    BY <2>1 DEF FiniteSubsetsOf
<1>2. \E x \in T : \A y \in T : ~(<<y, x>> \in R)
  <2> HIDE DEF T, R
  <2>1. IsWellFoundedOn(R, FiniteSubsetsOf(Nat))
    BY FS_StrictSubsetOrderingWellFounded DEF R
  <2> QED
    BY <1>1, <2>1, WFMin
<1>3. PICK m \in (0 .. n) \ S : \A y \in (0 .. n) \ S : ~(<<0 .. y, 0 .. m>> \in R)
  BY <1>2
<1>4. m # 0 /\ m - 1 \in 0 .. n - 1 /\ m - 1 + 1 = m
  BY <1>3
<1>5. m - 1 \notin S
  BY <1>4
<1>6. 0 .. m - 1 \subseteq 0 .. m /\ m \in 0 .. m /\ m \notin 0 .. m - 1
  BY <1>3
<1>7. 0 .. m - 1 \in SUBSET Nat /\ 0 .. m \in SUBSET Nat
  BY <1>3
<1>8. <<0 .. m - 1, 0 .. m>> \in R
  BY <1>6, <1>7 DEF StrictSubsetOrdering
<1>9. m - 1 \in (0 .. n) \ S
  BY <1>4, <1>5
<1> HIDE DEF R
<1> QED
  BY <1>3, <1>8, <1>9

(* A set of natural numbers that is not empty has a least one, which is its Min. *)
LEMMA LeastOf ==
    ASSUME NEW S \in SUBSET Nat, S # {}
    PROVE  Min(S) \in S /\ \A x \in S : Min(S) <= x
<1>1. \E m \in S : \A x \in S : m <= x
  <2> DEFINE T == {0 .. k : k \in S}
             R == StrictSubsetOrdering(Nat)
  <2>1. T # {} /\ T \subseteq FiniteSubsetsOf(Nat)
    <3>1. ASSUME NEW k \in S PROVE IsFiniteSet(0 .. k) /\ 0 .. k \subseteq Nat
      BY FS_Interval
    <3> QED
      BY <3>1 DEF FiniteSubsetsOf
  <2>2. \E x \in T : \A y \in T : ~(<<y, x>> \in R)
    <3> HIDE DEF T, R
    <3>1. IsWellFoundedOn(R, FiniteSubsetsOf(Nat))
      BY FS_StrictSubsetOrderingWellFounded DEF R
    <3> QED
      BY <2>1, <3>1, WFMin
  <2>3. PICK m \in S : \A y \in S : ~(<<0 .. y, 0 .. m>> \in R)
    BY <2>2
  <2>4. ASSUME NEW y \in S, y < m PROVE FALSE
    <3>1. 0 .. y \subseteq 0 .. m /\ m \in 0 .. m /\ m \notin 0 .. y
      BY <2>4
    <3>2. 0 .. y \in SUBSET Nat /\ 0 .. m \in SUBSET Nat
      OBVIOUS
    <3>3. <<0 .. y, 0 .. m>> \in R
      BY <3>1, <3>2 DEF StrictSubsetOrdering
    <3> QED
      BY <2>3, <3>3
  <2>5. \A x \in S : m <= x
    BY <2>4
  <2> QED
    BY <2>5
<1> QED
  BY <1>1, Zenon DEF Min

(* The first elements of a sequence of sequences, one after another. *)
Joins(f, seqs) == f = [i \in 1 .. Len(seqs) |-> IF i = 1 THEN seqs[i] ELSE f[i - 1] \o seqs[i]]

LEMMA JoinExists ==
    ASSUME NEW S, NEW seqs \in Seq(Seq(S)), NEW n \in Nat, n = Len(seqs)
    PROVE  \E f \in [1 .. n -> Seq(S)] : Joins(f, seqs)
<1> DEFINE Step(f, i) == IF i = 1 THEN seqs[i] ELSE f[i - 1] \o seqs[i]
           Good == {k \in 0 .. n : \E f \in [1 .. k -> Seq(S)] : \A i \in 1 .. k : f[i] = Step(f, i)}
<1>1. 0 \in Good
  <2>1. [i \in 1 .. 0 |-> <<>>] \in [1 .. 0 -> Seq(S)]
    OBVIOUS
  <2>2. \A i \in 1 .. 0 : FALSE
    OBVIOUS
  <2> DEFINE f == [i \in 1 .. 0 |-> <<>>]
  <2>3. f \in [1 .. 0 -> Seq(S)] /\ \A i \in 1 .. 0 : f[i] = Step(f, i)
    BY <2>1, <2>2
  <2> HIDE DEF f, Step
  <2>4. 0 \in 0 .. n
    OBVIOUS
  <2> QED
    BY <2>3, <2>4
<1>2. ASSUME NEW k \in 0 .. n - 1, k \in Good PROVE k + 1 \in Good
  <2>1. PICK f \in [1 .. k -> Seq(S)] : \A i \in 1 .. k : f[i] = Step(f, i)
    BY <1>2
  <2> DEFINE g == [i \in 1 .. k + 1 |-> IF i <= k THEN f[i] ELSE Step(f, i)]
  <2>2. ASSUME NEW i \in 1 .. k + 1 PROVE g[i] \in Seq(S) /\ g[i] = Step(g, i)
    <3>1. CASE i <= k
      <4>1. i \in 1 .. k /\ (i # 1 => i - 1 \in 1 .. k /\ i - 1 \in 1 .. k + 1)
        BY <3>1
      <4>2. g[i] = f[i] /\ (i # 1 => g[i - 1] = f[i - 1])
        BY <4>1
      <4> QED
        BY <2>1, <4>1, <4>2
    <3>2. CASE i = k + 1
      <4>1. ~(i <= k) /\ (i # 1 => i - 1 \in 1 .. k /\ i - 1 \in 1 .. k + 1)
        BY <3>2
      <4>2. g[i] = Step(f, i) /\ (i # 1 => g[i - 1] = f[i - 1])
        BY <4>1
      <4>3. seqs[i] \in Seq(S)
        BY <3>2
      <4>4. g[i] = Step(g, i)
        BY <4>2
      <4>5. Step(f, i) \in Seq(S)
        BY <4>1, <4>3
      <4> QED
        BY <4>2, <4>4, <4>5
    <3> QED
      BY <3>1, <3>2
  <2> HIDE DEF Step
  <2>3. g \in [1 .. k + 1 -> Seq(S)]
    BY <2>2
  <2> HIDE DEF g
  <2>4. k + 1 \in 0 .. n
    BY <1>2
  <2> QED
    BY <2>2, <2>3, <2>4
<1> HIDE DEF Good
<1>3. n \in Good
  <2>1. 0 .. n \subseteq Good
    BY <1>1, <1>2, UpTo
  <2>2. n \in 0 .. n
    OBVIOUS
  <2> QED
    BY <2>1, <2>2
<1>4. PICK f \in [1 .. n -> Seq(S)] : \A i \in 1 .. n : f[i] = Step(f, i)
  BY <1>3 DEF Good
<1>5. f = [i \in 1 .. n |-> Step(f, i)]
  BY <1>4
<1> QED
  BY <1>4, <1>5 DEF Joins

(* FlattenSeq puts the sequences behind one another. *)
LEMMA Flattened ==
    ASSUME NEW S, NEW seqs \in Seq(Seq(S)), seqs # <<>>
    PROVE  \E f \in [1 .. Len(seqs) -> Seq(S)] :
             /\ f[1] = seqs[1]
             /\ \A i \in 2 .. Len(seqs) : f[i] = f[i - 1] \o seqs[i]
             /\ FlattenSeq(seqs) = f[Len(seqs)]
<1> DEFINE n == Len(seqs)
           f == CHOOSE f : f = [i \in 1 .. n |-> IF i = 1 THEN seqs[i] ELSE f[i - 1] \o seqs[i]]
<1>1. n \in Nat /\ n # 0
  OBVIOUS
<1>2. FlattenSeq(seqs) = f[n]
  BY <1>1 DEF FlattenSeq
<1>3. \E g : g = [i \in 1 .. n |-> IF i = 1 THEN seqs[i] ELSE g[i - 1] \o seqs[i]]
  <2>1. PICK g \in [1 .. n -> Seq(S)] : Joins(g, seqs)
    BY <1>1, JoinExists
  <2> QED
    BY <2>1 DEF Joins
<1>4. f = [i \in 1 .. n |-> IF i = 1 THEN seqs[i] ELSE f[i - 1] \o seqs[i]]
  BY <1>3
<1> HIDE DEF f, n
<1>5. \A i \in 1 .. n : f[i] = IF i = 1 THEN seqs[i] ELSE f[i - 1] \o seqs[i]
  BY <1>4
<1>6. DOMAIN f = 1 .. n
  BY <1>4
<1> DEFINE Good == {k \in 0 .. n : k # 0 => f[k] \in Seq(S)}
<1>7. 0 \in Good
  BY <1>1
<1>8. ASSUME NEW k \in 0 .. n - 1, k \in Good PROVE k + 1 \in Good
  <2>1. k + 1 \in 1 .. n /\ k + 1 \in 0 .. n /\ k + 1 - 1 = k
    BY <1>1, <1>8
  <2>2. seqs[k + 1] \in Seq(S)
    BY <2>1 DEF n
  <2>3. f[k + 1] = IF k + 1 = 1 THEN seqs[k + 1] ELSE f[k] \o seqs[k + 1]
    BY <1>5, <2>1
  <2>4. k + 1 # 1 => f[k] \in Seq(S)
    BY <1>8
  <2>5. f[k + 1] \in Seq(S)
    BY <2>2, <2>3, <2>4
  <2> QED
    BY <2>1, <2>5
<1> HIDE DEF Good
<1>9. 0 .. n \subseteq Good
  BY <1>1, <1>7, <1>8, UpTo
<1>10. \A k \in 1 .. n : f[k] \in Seq(S)
  BY <1>9 DEF Good
<1>11. f \in [1 .. n -> Seq(S)]
  BY <1>4, <1>10
<1>12. f[1] = seqs[1] /\ \A i \in 2 .. n : f[i] = f[i - 1] \o seqs[i]
  <2>1. \A i \in 2 .. n : i \in 1 .. n /\ i # 1
    BY <1>1
  <2>2. 1 \in 1 .. n
    BY <1>1
  <2> QED
    BY <1>5, <2>1, <2>2
<1> QED
  BY <1>2, <1>11, <1>12 DEF n

-----------------------------------------------------------------------------
(* A part is text; the boundary is only between the parts. *)
LEMMA PartHasTexts ==
    ASSUME NEW f \in Fields
    PROVE  Part(f) \in Seq(Texts)
<1>1. /\ Crlf \in Texts /\ Dashes \in Texts /\ NameIs \in Texts /\ File \in Texts /\ Quote \in Texts
      /\ f.name \in Texts /\ (f.file # Nil => f.file \in Texts)
      /\ f.value \in Seq(Texts) /\ f.nameFirst \in BOOLEAN
  BY DEF Fields, Texts
<1>2. Disposition(f) \in Seq(Texts)
  <2> DEFINE name == <<NameIs, f.name, Quote>>
             file == <<File, NameIs, f.file, Quote>>
  <2>1. name \in Seq(Texts) /\ (f.file # Nil => file \in Seq(Texts))
    <3>1. name \in Seq(Texts)
      BY <1>1
    <3>2. ASSUME f.file # Nil PROVE file \in Seq(Texts)
      <4>1. f.file \in Texts
        BY <1>1, <3>2
      <4> QED
        BY <1>1, <4>1
    <3> QED
      BY <3>1, <3>2
  <2>2. CASE f.file = Nil
    BY <2>1, <2>2 DEF Disposition
  <2> HIDE DEF name, file
  <2>3. CASE f.file # Nil /\ f.nameFirst
    <3>1. Disposition(f) = name \o file
      BY <2>3 DEF Disposition, name, file
    <3> QED
      BY <2>1, <2>3, <3>1
  <2>4. CASE f.file # Nil /\ ~f.nameFirst
    <3>1. Disposition(f) = file \o name
      BY <2>4 DEF Disposition, name, file
    <3> QED
      BY <2>1, <2>4, <3>1
  <2> QED
    BY <1>1, <2>2, <2>3, <2>4
<1>3. <<Crlf>> \in Seq(Texts) /\ <<Crlf, Crlf>> \in Seq(Texts) /\ <<Crlf, Dashes>> \in Seq(Texts)
  BY <1>1
<1> QED
  BY <1>1, <1>2, <1>3 DEF Part

LEMMA PartIsTokens ==
    ASSUME NEW f \in Fields
    PROVE  Part(f) \in Seq(Tokens)
<1>1. Part(f) \in Seq(Texts) /\ Texts \subseteq Tokens
  BY PartHasTexts DEF Tokens
<1>2. \A i \in 1 .. Len(Part(f)) : Part(f)[i] \in Tokens
  BY <1>1
<1> QED
  BY <1>1, <1>2

LEMMA PartIsSequence ==
    ASSUME NEW f \in Fields
    PROVE  Part(f) \in Seq(Piece)
<1>1. Part(f) \in Seq(Tokens) /\ Tokens \subseteq Piece
  BY PartIsTokens DEF Piece
<1>2. \A i \in 1 .. Len(Part(f)) : Part(f)[i] \in Piece
  BY <1>1
<1> QED
  BY <1>1, <1>2

LEMMA ContentIsTokens ==
    ASSUME NEW fields \in Seq(Fields)
    PROVE  Content(fields) \in Seq(Tokens)
<1> DEFINE parts == [i \in DOMAIN fields |-> Part(fields[i]) \o <<Boundary>>]
<1>1. <<Boundary>> \in Seq(Tokens) /\ <<Dashes, Boundary>> \in Seq(Tokens) /\ <<Dashes, Crlf>> \in Seq(Tokens)
  BY DEF Tokens, Texts
<1>2. parts \in Seq(Seq(Tokens))
  <2>1. ASSUME NEW i \in DOMAIN fields PROVE Part(fields[i]) \o <<Boundary>> \in Seq(Tokens)
    <3>1. Part(fields[i]) \in Seq(Tokens)
      BY PartIsTokens
    <3> QED
      BY <1>1, <3>1
  <2>2. DOMAIN fields = 1 .. Len(fields) /\ Len(fields) \in Nat
    OBVIOUS
  <2> QED
    BY <2>1, <2>2
<1> HIDE DEF parts
<1>3. FlattenSeq(parts) \in Seq(Tokens)
  <2>1. CASE parts = <<>>
    BY <2>1 DEF FlattenSeq
  <2>2. CASE parts # <<>>
    <3>1. PICK f \in [1 .. Len(parts) -> Seq(Tokens)] : FlattenSeq(parts) = f[Len(parts)]
      BY <1>2, <2>2, Flattened
    <3>2. Len(parts) \in 1 .. Len(parts)
      BY <1>2, <2>2
    <3> QED
      BY <3>1, <3>2
  <2> QED
    BY <2>1, <2>2
<1>4. Content(fields) = <<Dashes, Boundary>> \o FlattenSeq(parts) \o <<Dashes, Crlf>>
  BY DEF Content, parts
<1> QED
  BY <1>1, <1>3, <1>4

LEMMA ContentIsSequence ==
    ASSUME NEW fields \in Seq(Fields)
    PROVE  Content(fields) \in Seq(Piece)
<1>1. Content(fields) \in Seq(Tokens) /\ Tokens \subseteq Piece
  BY ContentIsTokens DEF Piece
<1>2. \A i \in 1 .. Len(Content(fields)) : Content(fields)[i] \in Piece
  BY <1>1
<1> QED
  BY <1>1, <1>2

LEMMA UptoFits ==
    ASSUME NEW S, NEW s \in Seq(S), NEW k \in 0 .. Len(s)
    PROVE  Upto(s, k) \in Seq(S) /\ Len(Upto(s, k)) = k
<1>1. \A i \in 1 .. k : s[i] \in S
  OBVIOUS
<1>2. 1 \in Int /\ k \in Int /\ k - 1 + 1 = k
  OBVIOUS
<1> QED
  BY <1>1, <1>2, SubSeqProperties DEF Upto

(* What is left of the token at the limit is a beginning of it. *)
LEMMA TailIs ==
    ASSUME NEW fields \in Forms, limit \in Limits, NEW end \in Tails(fields)
    PROVE  /\ end \in Seq(Stubs) /\ Len(end) \in {0, 1}
           /\ Len(end) = 0 => end = <<>>
           /\ Len(end) = 1 => limit < Len(Content(fields)) /\ end[1] \in Starts[Content(fields)[limit + 1]]
           /\ end \in {<<>>} \cup {<<b>> : b \in Stubs}
<1>1. limit \in Nat /\ Content(fields) \in Seq(Tokens) /\ Len(Content(fields)) \in Nat
  BY FormsAssumption, ContentIsTokens
<1>2. CASE end = <<>>
  BY <1>2
<1>3. CASE end # <<>>
  <2>1. limit < Len(Content(fields)) /\ \E b \in Starts[Content(fields)[limit + 1]] : end = <<b>>
    BY <1>3 DEF Tails
  <2>2. limit + 1 \in 1 .. Len(Content(fields))
    BY <1>1, <2>1
  <2>3. Content(fields)[limit + 1] \in Tokens
    BY <1>1, <2>2
  <2>4. PICK b \in Starts[Content(fields)[limit + 1]] : end = <<b>>
    BY <2>1
  <2>5. b \in Stubs
    BY <2>3, <2>4 DEF Stubs
  <2>6. <<b>> \in Seq(Stubs) /\ Len(<<b>>) = 1 /\ <<b>>[1] = b
    BY <2>5
  <2> QED
    BY <2>1, <2>4, <2>5, <2>6
<1> QED
  BY <1>2, <1>3

LEMMA ReceivedFits ==
    ASSUME NEW fields \in Forms, limit \in Limits, NEW end \in Tails(fields)
    PROVE  Received(fields, end) \in Seq(Piece) /\ Len(Received(fields, end)) <= limit + Len(end)
<1>1. limit \in Nat /\ Content(fields) \in Seq(Piece) /\ Len(Content(fields)) \in Nat
  BY FormsAssumption, ContentIsSequence
<1> DEFINE n == Len(Content(fields))
           u == Upto(Content(fields), Min({limit, n}))
<1>2. Min({limit, n}) = IF limit <= n THEN limit ELSE n
  BY <1>1, MinOfTwo
<1> HIDE DEF n
<1>3. n \in Nat
  BY <1>1 DEF n
<1>4. Min({limit, n}) \in 0 .. n /\ Min({limit, n}) <= limit
  BY <1>1, <1>2, <1>3
<1>5. Received(fields, end) = u \o end
  BY DEF Received, n
<1>6. u \in Seq(Piece) /\ Len(u) <= limit
  BY <1>1, <1>4, UptoFits DEF n
<1>7. end \in Seq(Stubs) /\ Stubs \subseteq Piece
  BY TailIs DEF Piece, Tokens
<1>8. end \in Seq(Piece)
  <2>1. \A i \in 1 .. Len(end) : end[i] \in Piece
    BY <1>7
  <2> QED
    BY <1>7, <2>1
<1> HIDE DEF u
<1>9. u \o end \in Seq(Piece) /\ Len(u \o end) = Len(u) + Len(end) /\ Len(u) \in Nat /\ Len(end) \in Nat
  BY <1>6, <1>8, ConcatProperties
<1> QED
  BY <1>1, <1>5, <1>6, <1>9

(* A search ends behind the place it started from, or at the end. *)
LEMMA SearchRange ==
    ASSUME NEW S, NEW s \in Seq(S), NEW from \in Nat \ {0}, NEW pattern, Len(pattern) \in Nat \ {0}
    PROVE  Search(s, from, pattern) \in 1 .. Len(s) + 1
<1> DEFINE here == {i \in from .. Len(s) - Len(pattern) + 1 :
                      SubSeq(s, i, i + Len(pattern) - 1) = pattern}
<1>1. Search(s, from, pattern) = IF here = {} THEN Len(s) + 1 ELSE Min(here)
  BY DEF Search
<1>2. here \subseteq 1 .. Len(s)
  OBVIOUS
<1>3. Len(s) \in Nat
  OBVIOUS
<1> HIDE DEF here
<1>4. here # {} => Min(here) \in here
  <2>1. here \subseteq Nat
    BY <1>2, <1>3
  <2> QED
    BY <2>1, LeastOf
<1>5. here # {} => Min(here) \in 1 .. Len(s) + 1
  <2>1. \A x \in 1 .. Len(s) : x \in 1 .. Len(s) + 1
    BY <1>3
  <2> QED
    BY <1>2, <1>4, <2>1
<1>6. Len(s) + 1 \in 1 .. Len(s) + 1
  BY <1>3
<1> QED
  BY <1>1, <1>5, <1>6

-----------------------------------------------------------------------------
Stands(s, i, pattern) == SubSeq(s, i, i + Len(pattern) - 1) = pattern

(* A search ends at the first place where the pattern stands, or at the end. *)
LEMMA SearchFinds ==
    ASSUME NEW s, Len(s) \in Nat, NEW from \in Nat, NEW pattern, Len(pattern) \in Nat,
           NEW p \in Nat, from <= p, p <= Len(s) - Len(pattern) + 1,
           Stands(s, p, pattern), \A i \in from .. p - 1 : ~Stands(s, i, pattern)
    PROVE  Search(s, from, pattern) = p
<1> DEFINE last == Len(s) - Len(pattern) + 1
           stands == {i \in Nat : Stands(s, i, pattern)}
           here == {i \in from .. last : Stands(s, i, pattern)}
<1>1. Search(s, from, pattern) = IF here = {} THEN Len(s) + 1 ELSE Min(here)
  BY DEF Search, Stands
<1>2. \A i \in from .. last : i \in Nat
  OBVIOUS
<1>3. here = (from .. last) \cap stands
  BY <1>2
<1>4. p \in stands /\ p \in from .. last /\ last \in Int
  OBVIOUS
<1>5. \A i \in from .. p - 1 : i \notin stands
  OBVIOUS
<1> HIDE DEF here, last, stands
<1>6. p \in here /\ here \in SUBSET Nat
  BY <1>2, <1>3, <1>4
<1>7. \A i \in here : p <= i
  <2> SUFFICES ASSUME NEW i \in here, i < p PROVE FALSE
    BY <1>6
  <2>1. i \in from .. p - 1 /\ i \in stands
    BY <1>3, <1>4
  <2> QED
    BY <1>5, <2>1
<1>8. Min(here) \in here /\ Min(here) <= p
  BY <1>6, LeastOf
<1>9. p <= Min(here) /\ Min(here) \in Nat
  BY <1>6, <1>7, <1>8
<1>10. Min(here) = p
  BY <1>8, <1>9
<1> QED
  BY <1>1, <1>6, <1>10

LEMMA SearchFails ==
    ASSUME NEW s, Len(s) \in Nat, NEW from \in Nat, NEW pattern, Len(pattern) \in Nat,
           \A i \in from .. Len(s) - Len(pattern) + 1 : ~Stands(s, i, pattern)
    PROVE  Search(s, from, pattern) = Len(s) + 1
BY DEF Search, Stands

LEMMA MatchOne ==
    ASSUME NEW S, NEW s \in Seq(S), NEW i \in 1 .. Len(s), NEW x
    PROVE  Stands(s, i, <<x>>) <=> s[i] = x
<1> DEFINE part == SubSeq(s, i, i)
           one == <<x>>
<1>1. i \in Nat \ {0} /\ i \in Nat /\ i <= i /\ i <= Len(s) /\ i - i + 1 = 1 /\ i + 1 - 1 = i
  OBVIOUS
<1>2. part \in Seq(S) /\ Len(part) = 1 /\ \A k \in 1 .. 1 : part[k] = s[i + k - 1]
  <2>1. /\ part \in Seq(S) /\ Len(part) = i - i + 1
        /\ \A k \in 1 .. i - i + 1 : part[k] = s[i + k - 1]
    BY <1>1, PartFacts
  <2> QED
    BY <1>1, <2>1
<1>3. Len(one) = 1 /\ one[1] = x /\ one \in Seq({x})
  OBVIOUS
<1>4. part[1] = s[i]
  BY <1>1, <1>2
<1> HIDE DEF part, one
<1>5. ASSUME s[i] = x PROVE part = one
  <2>1. \A k \in 1 .. Len(part) : part[k] = one[k]
    BY <1>2, <1>3, <1>4, <1>5
  <2> QED
    BY <1>2, <1>3, <2>1, SameSequence
<1>6. part = one <=> s[i] = x
  BY <1>3, <1>4, <1>5
<1> QED
  BY <1>1, <1>3, <1>6 DEF part, one, Stands

LEMMA MatchTwo ==
    ASSUME NEW S, NEW s \in Seq(S), NEW i \in 1 .. Len(s) - 1, NEW x, NEW y
    PROVE  Stands(s, i, <<x, y>>) <=> s[i] = x /\ s[i + 1] = y
<1> DEFINE part == SubSeq(s, i, i + 1)
           two == <<x, y>>
<1>1. i \in Nat \ {0} /\ i + 1 \in Nat /\ i <= i + 1 /\ i + 1 <= Len(s) /\ i + 1 - i + 1 = 2 /\ i + 2 - 1 = i + 1
  OBVIOUS
<1>2. part \in Seq(S) /\ Len(part) = 2 /\ \A k \in 1 .. 2 : part[k] = s[i + k - 1]
  <2>1. /\ part \in Seq(S) /\ Len(part) = i + 1 - i + 1
        /\ \A k \in 1 .. i + 1 - i + 1 : part[k] = s[i + k - 1]
    BY <1>1, PartFacts
  <2> QED
    BY <1>1, <2>1
<1>3. Len(two) = 2 /\ two[1] = x /\ two[2] = y /\ two \in Seq({x, y})
  OBVIOUS
<1>4. part[1] = s[i] /\ part[2] = s[i + 1]
  BY <1>1, <1>2
<1> HIDE DEF part, two
<1>5. ASSUME s[i] = x, s[i + 1] = y PROVE part = two
  <2>1. \A k \in 1 .. Len(part) : part[k] = two[k]
    BY <1>2, <1>3, <1>4, <1>5
  <2> QED
    BY <1>2, <1>3, <2>1, SameSequence
<1>6. part = two <=> s[i] = x /\ s[i + 1] = y
  BY <1>3, <1>4, <1>5
<1> QED
  BY <1>1, <1>3, <1>6 DEF part, two, Stands

LEMMA FindsOne ==
    ASSUME NEW S, NEW s \in Seq(S), NEW from \in Nat \ {0}, NEW x, NEW p \in from .. Len(s), s[p] = x,
           \A i \in from .. Len(s) : i < p => s[i] # x
    PROVE  Search(s, from, <<x>>) = p
<1>1. /\ Len(s) \in Nat /\ p \in Nat /\ from <= p /\ p \in 1 .. Len(s)
      /\ \A i \in from .. p - 1 : i \in 1 .. Len(s) /\ s[i] # x
  OBVIOUS
<1>2. Len(<<x>>) = 1 /\ Stands(s, p, <<x>>)
  BY <1>1, MatchOne
<1>3. \A i \in from .. p - 1 : ~Stands(s, i, <<x>>)
  BY <1>1, MatchOne
<1>4. p <= Len(s) - Len(<<x>>) + 1
  BY <1>1, <1>2
<1> QED
  BY <1>1, <1>2, <1>3, <1>4, SearchFinds

LEMMA FindsNone ==
    ASSUME NEW S, NEW s \in Seq(S), NEW from \in Nat \ {0}, NEW x, \A i \in from .. Len(s) : s[i] # x
    PROVE  Search(s, from, <<x>>) = Len(s) + 1
<1>1. Len(s) \in Nat /\ Len(<<x>>) = 1 /\ \A i \in from .. Len(s) : i \in 1 .. Len(s)
  OBVIOUS
<1>2. \A i \in from .. Len(s) - Len(<<x>>) + 1 : ~Stands(s, i, <<x>>)
  <2>1. Len(s) - Len(<<x>>) + 1 = Len(s)
    BY <1>1
  <2>2. \A i \in from .. Len(s) : ~Stands(s, i, <<x>>)
    BY <1>1, MatchOne
  <2> QED
    BY <2>1, <2>2
<1> QED
  BY <1>1, <1>2, SearchFails

LEMMA FindsPair ==
    ASSUME NEW S, NEW s \in Seq(S), NEW from \in Nat \ {0}, NEW x, NEW y,
           NEW p \in from .. Len(s) - 1, s[p] = x, NEW q, q = p + 1, s[q] = y,
           \A i \in from .. Len(s) - 1 : i < p => s[i] # x
    PROVE  Search(s, from, <<x, y>>) = p
<1>1. /\ Len(s) \in Nat /\ p \in Nat /\ from <= p /\ p \in 1 .. Len(s) - 1
      /\ \A i \in from .. p - 1 : i \in 1 .. Len(s) - 1 /\ s[i] # x
  OBVIOUS
<1>2. Len(<<x, y>>) = 2 /\ Stands(s, p, <<x, y>>)
  BY <1>1, MatchTwo
<1>3. \A i \in from .. p - 1 : ~Stands(s, i, <<x, y>>)
  BY <1>1, MatchTwo
<1>4. p <= Len(s) - Len(<<x, y>>) + 1
  BY <1>1, <1>2
<1> QED
  BY <1>1, <1>2, <1>3, <1>4, SearchFinds

LEMMA FindsNoPair ==
    ASSUME NEW S, NEW s \in Seq(S), NEW from \in Nat \ {0}, NEW x, NEW y,
           \A i \in from .. Len(s) - 1 : ~(s[i] = x /\ s[i + 1] = y)
    PROVE  Search(s, from, <<x, y>>) = Len(s) + 1
<1>1. Len(s) \in Nat /\ Len(<<x, y>>) = 2 /\ \A i \in from .. Len(s) - 1 : i \in 1 .. Len(s) - 1
  OBVIOUS
<1>2. \A i \in from .. Len(s) - Len(<<x, y>>) + 1 : ~Stands(s, i, <<x, y>>)
  <2>1. Len(s) - Len(<<x, y>>) + 1 = Len(s) - 1
    BY <1>1
  <2>2. \A i \in from .. Len(s) - 1 : ~Stands(s, i, <<x, y>>)
    BY <1>1, MatchTwo
  <2> QED
    BY <2>1, <2>2
<1> QED
  BY <1>1, <1>2, SearchFails

(* Where a search has found nothing, the pair is not. *)
LEMMA NoPair ==
    ASSUME NEW S, NEW s \in Seq(S), NEW x, NEW y, Search(s, 1, <<x, y>>) > Len(s)
    PROVE  \A i \in 1 .. Len(s) - 1 : ~(s[i] = x /\ s[i + 1] = y)
<1> SUFFICES ASSUME NEW p \in 1 .. Len(s) - 1, s[p] = x, s[p + 1] = y PROVE FALSE
  OBVIOUS
<1> DEFINE here == {i \in 1 .. Len(s) - Len(<<x, y>>) + 1 :
                      Stands(s, i, <<x, y>>)}
<1>1. Search(s, 1, <<x, y>>) = IF here = {} THEN Len(s) + 1 ELSE Min(here)
  BY DEF Search, Stands
<1>2. Len(<<x, y>>) = 2 /\ Stands(s, p, <<x, y>>) /\ Len(s) \in Nat
  BY MatchTwo
<1>3. p \in here /\ here \in SUBSET Nat
  BY <1>2
<1>4. \A i \in here : i <= Len(s)
  BY <1>2
<1> HIDE DEF here
<1>5. Min(here) \in here
  BY <1>3, LeastOf
<1>6. Min(here) <= Len(s) /\ Min(here) \in Nat
  BY <1>3, <1>4, <1>5
<1>7. Search(s, 1, <<x, y>>) = Min(here)
  BY <1>1, <1>3
<1>8. Search(s, 1, <<x, y>>) <= Len(s) /\ Search(s, 1, <<x, y>>) \in Nat
  BY <1>6, <1>7
<1> QED
  BY <1>2, <1>8

(* The searches, as facts that the provers need not look into. *)
First(s, from, x, p) ==
    from \in Nat \ {0} /\ p \in from .. Len(s) /\ s[p] = x /\ \A i \in from .. Len(s) : i < p => s[i] # x

Absent(s, from, x) == from \in Nat \ {0} /\ \A i \in from .. Len(s) : s[i] # x

FirstPair(s, from, x, y, p, q) ==
    /\ from \in Nat \ {0} /\ p \in from .. Len(s) - 1 /\ q = p + 1 /\ s[p] = x /\ s[q] = y
    /\ \A i \in from .. Len(s) - 1 : i < p => s[i] # x

AbsentPair(s, from, x, y) ==
    from \in Nat \ {0} /\ \A i \in from .. Len(s) - 1 : ~(s[i] = x /\ s[i + 1] = y)

LEMMA FoundFirst ==
    ASSUME NEW S, NEW s \in Seq(S), NEW from, NEW x, NEW p, First(s, from, x, p)
    PROVE  Search(s, from, <<x>>) = p
BY FindsOne DEF First

LEMMA FoundNone ==
    ASSUME NEW S, NEW s \in Seq(S), NEW from, NEW x, Absent(s, from, x)
    PROVE  Search(s, from, <<x>>) = Len(s) + 1
BY FindsNone DEF Absent

LEMMA FoundPair ==
    ASSUME NEW S, NEW s \in Seq(S), NEW from, NEW x, NEW y, NEW p, NEW q, FirstPair(s, from, x, y, p, q)
    PROVE  Search(s, from, <<x, y>>) = p
BY FindsPair DEF FirstPair

LEMMA FoundNoPair ==
    ASSUME NEW S, NEW s \in Seq(S), NEW from, NEW x, NEW y, AbsentPair(s, from, x, y)
    PROVE  Search(s, from, <<x, y>>) = Len(s) + 1
BY FindsNoPair DEF AbsentPair

(* A part that ends with what is left of a token: no search finds it. *)
Capped(t, s) ==
    /\ t \in Seq(Piece) /\ s \in Seq(Piece) /\ Len(t) = Len(s) + 1
    /\ \A i \in 1 .. Len(s) : t[i] = s[i]
    /\ t[Len(s) + 1] \notin Tokens

(* A search in it ends at q if one in what is before it ends at p. *)
SameFind(q, p, n) == IF p = n + 1 THEN q = n + 2 ELSE q = p /\ p \in 1 .. n

LEMMA CappedSearch ==
    ASSUME NEW t, NEW s, Capped(t, s), NEW from \in Nat \ {0}, NEW pattern, NEW last \in Int,
           Len(pattern) \in {1, 2}, last = Len(s) - Len(pattern) + 1,
           \A i \in from .. last : Stands(t, i, pattern) <=> Stands(s, i, pattern),
           last + 1 >= from => ~Stands(t, last + 1, pattern)
    PROVE  SameFind(Search(t, from, pattern), Search(s, from, pattern), Len(s))
<1> DEFINE n == Len(s)
           hs == {i \in from .. last : Stands(s, i, pattern)}
           ht == {i \in from .. last + 1 : Stands(t, i, pattern)}
<1>1. n \in Nat /\ Len(t) = n + 1 /\ Len(t) + 1 = n + 2 /\ last <= n
      /\ Len(t) - Len(pattern) + 1 = last + 1
  <2>1. n \in Nat /\ Len(t) = n + 1
    BY DEF Capped
  <2> DEFINE k == Len(pattern)
  <2>2. k \in {1, 2} /\ last = n - k + 1
    OBVIOUS
  <2> HIDE DEF n, k
  <2>3. last <= n /\ Len(t) - k + 1 = last + 1 /\ Len(t) + 1 = n + 2
    BY <2>1, <2>2
  <2> QED
    BY <2>1, <2>3 DEF k
<1>2. Search(s, from, pattern) = IF hs = {} THEN n + 1 ELSE Min(hs)
  BY DEF Search, Stands
<1>3. Search(t, from, pattern) = IF ht = {} THEN n + 2 ELSE Min(ht)
  <2>1. Search(t, from, pattern) = IF ht = {} THEN Len(t) + 1 ELSE Min(ht)
    BY <1>1 DEF Search, Stands
  <2> QED
    BY <1>1, <2>1
<1>4. \A i \in from .. last + 1 : i \in from .. last \/ (i = last + 1 /\ last + 1 >= from)
  OBVIOUS
<1>5. \A i \in from .. last : i \in from .. last + 1
  OBVIOUS
<1>6. ht = hs
  BY <1>4, <1>5
<1>7. hs \subseteq 1 .. n
  BY <1>1
<1> HIDE DEF hs, ht, n
<1>8. hs # {} => Min(hs) \in 1 .. n
  <2>1. hs \in SUBSET Nat
    BY <1>1, <1>7
  <2> QED
    BY <1>7, <2>1, LeastOf
<1>9. hs # {} => Min(hs) # n + 1
  BY <1>1, <1>8
<1>10. SameFind(Search(t, from, pattern), Search(s, from, pattern), n)
  BY <1>2, <1>3, <1>6, <1>8, <1>9 DEF SameFind
<1> QED
  BY <1>10 DEF n

LEMMA CappedOne ==
    ASSUME NEW t, NEW s, Capped(t, s), NEW from \in Nat \ {0}, NEW x \in Tokens
    PROVE  SameFind(Search(t, from, <<x>>), Search(s, from, <<x>>), Len(s))
<1> DEFINE n == Len(s)
<1>1. /\ t \in Seq(Piece) /\ s \in Seq(Piece) /\ n \in Nat /\ Len(t) = n + 1
      /\ \A i \in 1 .. n : t[i] = s[i]
      /\ t[n + 1] # x
  BY DEF Capped
<1> HIDE DEF n
<1>2. Len(<<x>>) = 1 /\ n - 1 + 1 = n
  BY <1>1
<1>3. ASSUME NEW i \in from .. n PROVE Stands(t, i, <<x>>) <=> Stands(s, i, <<x>>)
  <2>1. i \in 1 .. n /\ i \in 1 .. Len(t)
    BY <1>1
  <2>2. Stands(t, i, <<x>>) <=> t[i] = x
    BY <1>1, <2>1, MatchOne
  <2>3. Stands(s, i, <<x>>) <=> s[i] = x
    BY <1>1, <2>1, MatchOne DEF n
  <2> QED
    BY <1>1, <2>1, <2>2, <2>3
<1>4. ~Stands(t, n + 1, <<x>>)
  <2>1. n + 1 \in 1 .. Len(t)
    BY <1>1
  <2> QED
    BY <1>1, <2>1, MatchOne
<1>5. n \in Int /\ n = Len(s) - Len(<<x>>) + 1 /\ Len(<<x>>) \in {1, 2}
  BY <1>1, <1>2 DEF n
<1> QED
  BY <1>3, <1>4, <1>5, CappedSearch

LEMMA CappedTwo ==
    ASSUME NEW t, NEW s, Capped(t, s), NEW from \in Nat \ {0}, NEW x, NEW y \in Tokens
    PROVE  SameFind(Search(t, from, <<x, y>>), Search(s, from, <<x, y>>), Len(s))
<1> DEFINE n == Len(s)
           last == n - 1
<1>1. /\ t \in Seq(Piece) /\ s \in Seq(Piece) /\ n \in Nat /\ Len(t) = n + 1
      /\ \A i \in 1 .. n : t[i] = s[i]
      /\ t[n + 1] # y
  BY DEF Capped
<1> HIDE DEF n
<1>2. Len(<<x, y>>) = 2 /\ n - 2 + 1 = last /\ last \in Int /\ last + 1 = n
  BY <1>1
<1>3. ASSUME NEW i \in from .. last PROVE Stands(t, i, <<x, y>>) <=> Stands(s, i, <<x, y>>)
  <2>1. i \in 1 .. n /\ i + 1 \in 1 .. n /\ i \in 1 .. n - 1 /\ i \in 1 .. Len(t) - 1
    BY <1>1
  <2>2. Stands(t, i, <<x, y>>) <=> t[i] = x /\ t[i + 1] = y
    <3>1. t \in Seq(Piece) /\ i \in 1 .. Len(t) - 1
      BY <1>1, <2>1
    <3> QED
      BY <3>1, MatchTwo
  <2>3. Stands(s, i, <<x, y>>) <=> s[i] = x /\ s[i + 1] = y
    <3>1. s \in Seq(Piece) /\ i \in 1 .. Len(s) - 1
      BY <1>1, <2>1 DEF n
    <3> QED
      BY <3>1, MatchTwo
  <2> QED
    BY <1>1, <2>1, <2>2, <2>3
<1>4. n >= from => ~Stands(t, n, <<x, y>>)
  <2> SUFFICES ASSUME n >= from PROVE ~Stands(t, n, <<x, y>>)
    OBVIOUS
  <2>1. n \in 1 .. Len(t) - 1
    BY <1>1
  <2> QED
    BY <1>1, <2>1, MatchTwo
<1>5. last = Len(s) - Len(<<x, y>>) + 1 /\ Len(<<x, y>>) \in {1, 2}
  BY <1>1, <1>2 DEF n
<1> HIDE DEF last
<1>6. last + 1 >= from => ~Stands(t, last + 1, <<x, y>>)
  BY <1>2, <1>4
<1> QED
  BY <1>2, <1>3, <1>5, <1>6, CappedSearch

(* Behind the end there is nothing to find. *)
LEMMA FindsNoneBehind ==
    ASSUME NEW S, NEW s \in Seq(S), NEW from \in Nat \ {0}, from > Len(s), NEW x, NEW y
    PROVE  Search(s, from, <<x, y>>) = Len(s) + 1
<1>1. AbsentPair(s, from, x, y)
  BY DEF AbsentPair
<1> QED
  BY <1>1, FoundNoPair

LEMMA SameCutout ==
    ASSUME NEW S, NEW t \in Seq(S), NEW s \in Seq(S), NEW n, n = Len(s), n <= Len(t),
           \A i \in 1 .. n : t[i] = s[i],
           NEW a \in Nat \ {0}, NEW b \in Int, b <= n
    PROVE  SubSeq(t, a, b) = SubSeq(s, a, b)
<1> DEFINE u == SubSeq(t, a, b)
           v == SubSeq(s, a, b)
           k == IF a <= b THEN b - a + 1 ELSE 0
<1>1. a \in Int /\ n \in Nat /\ k \in Nat /\ \A i \in a .. b : i \in 1 .. n /\ i \in 1 .. Len(t)
  OBVIOUS
<1>2. \A i \in 1 .. k : i \in 1 .. b - a + 1 /\ a + i - 1 \in 1 .. n
  OBVIOUS
<1>3. \A i \in a .. b : t[i] \in S /\ s[i] \in S
  BY <1>1
<1>4. u \in Seq(S) /\ Len(u) = k /\ \A i \in 1 .. b - a + 1 : u[i] = t[a + i - 1]
  BY <1>1, <1>3, SubSeqProperties
<1>5. v \in Seq(S) /\ Len(v) = k /\ \A i \in 1 .. b - a + 1 : v[i] = s[a + i - 1]
  BY <1>1, <1>3, SubSeqProperties
<1> HIDE DEF u, v, k
<1>6. Len(u) = Len(v) /\ \A i \in 1 .. Len(u) : u[i] = v[i]
  BY <1>2, <1>4, <1>5
<1>7. u = v
  BY <1>4, <1>5, <1>6, SameSequence
<1> QED
  BY <1>7 DEF u, v

(* It is read as what is before it, and keeps all of its value. *)
LEMMA CappedRead ==
    ASSUME NEW t, NEW s, Capped(t, s)
    PROVE  /\ HasArg(t) <=> HasArg(s)
           /\ ValueEnd(t) = Len(t)
           /\ HasArg(s) =>
                /\ ValueAt(t) = ValueAt(s) /\ ValueAt(t) \in 1 .. Len(s) /\ (IsFile(t) <=> IsFile(s))
                /\ SubSeq(t, NameAt(t) + 1, NameEnd(t) - 1) = SubSeq(s, NameAt(s) + 1, NameEnd(s) - 1)
                /\ IsFile(s) => SubSeq(t, FileAt(t) + 2, FileEnd(t) - 1) = SubSeq(s, FileAt(s) + 2, FileEnd(s) - 1)
<1> DEFINE n == Len(s)
<1>1. /\ t \in Seq(Piece) /\ s \in Seq(Piece) /\ n \in Nat /\ Len(t) = n + 1
      /\ \A i \in 1 .. n : t[i] = s[i]
      /\ t[n + 1] \notin Tokens
  BY DEF Capped
<1>2. NameIs \in Tokens /\ Quote \in Tokens /\ Crlf \in Tokens /\ Dashes \in Tokens
  BY DEF Tokens, Texts
<1>3. ValueEnd(t) = Len(t)
  <2> SUFFICES ASSUME Len(t) >= 2, SubSeq(t, Len(t) - 1, Len(t)) = <<Crlf, Dashes>> PROVE FALSE
    BY DEF ValueEnd
  <2>1. n \in 1 .. Len(t) - 1 /\ Len(t) - 1 = n /\ n + 2 - 1 = n + 1
    BY <1>1
  <2>2. Len(<<Crlf, Dashes>>) = 2
    OBVIOUS
  <2>3. Stands(t, n, <<Crlf, Dashes>>)
    BY <1>1, <2>1, <2>2 DEF Stands
  <2>4. t[n + 1] = Dashes
    BY <1>1, <2>1, <2>3, MatchTwo
  <2> QED
    BY <1>1, <1>2, <2>4
<1>4. HasArg(t) <=> n + 2 \notin {NameAt(t), NameEnd(t), ValueAt(t)}
  <2>1. Len(t) + 1 = n + 2
    BY <1>1
  <2> QED
    BY <2>1 DEF HasArg
<1>5. HasArg(s) <=> n + 1 \notin {NameAt(s), NameEnd(s), ValueAt(s)}
  BY DEF HasArg
<1> HIDE DEF n
<1>6. SameFind(NameAt(t), NameAt(s), n)
  BY <1>2, CappedOne DEF NameAt, n
<1>7. CASE NameAt(s) = n + 1
  <2>1. ~HasArg(s) /\ ~HasArg(t)
    BY <1>4, <1>5, <1>6, <1>7 DEF SameFind
  <2> QED
    BY <1>3, <2>1
<1>8. CASE NameAt(s) # n + 1
  <2>1. NameAt(t) = NameAt(s) /\ NameAt(s) \in 1 .. n
    BY <1>6, <1>8 DEF SameFind
  <2>2. NameAt(s) + 1 \in Nat \ {0}
    BY <2>1
  <2>3. SameFind(NameEnd(t), NameEnd(s), n)
    BY <1>2, <2>1, <2>2, CappedOne DEF NameEnd, n
  <2>4. CASE NameEnd(s) = n + 1
    <3>1. ~HasArg(s) /\ ~HasArg(t)
      BY <1>4, <1>5, <2>3, <2>4 DEF SameFind
    <3> QED
      BY <1>3, <3>1
  <2>5. CASE NameEnd(s) # n + 1
    <3>1. NameEnd(t) = NameEnd(s) /\ NameEnd(s) \in 1 .. n /\ NameEnd(s) \in Nat \ {0}
      BY <2>3, <2>5 DEF SameFind
    <3>2. SameFind(FileAt(t), FileAt(s), n)
      BY <1>2, <3>1, CappedTwo DEF FileAt, n
    <3>3. SubSeq(t, NameAt(t) + 1, NameEnd(t) - 1) = SubSeq(s, NameAt(s) + 1, NameEnd(s) - 1)
      <4>1. NameEnd(s) - 1 \in Int /\ NameEnd(s) - 1 <= n /\ n <= Len(t)
        BY <1>1, <3>1
      <4>2. SubSeq(t, NameAt(s) + 1, NameEnd(s) - 1) = SubSeq(s, NameAt(s) + 1, NameEnd(s) - 1)
        BY <1>1, <2>2, <4>1, SameCutout DEF n
      <4> QED
        BY <2>1, <3>1, <4>2
    <3>4. CASE FileAt(s) = n + 1
      <4>1. ~IsFile(s) /\ ~IsFile(t)
        <5>1. FileAt(t) = n + 2
          BY <3>2, <3>4 DEF SameFind
        <5> QED
          BY <1>1, <3>4, <5>1 DEF IsFile, n
      <4>2. SameFind(ValueAt(t), ValueAt(s), n)
        BY <1>2, <3>1, <4>1, CappedTwo DEF ValueAt, n
      <4>3. ValueAt(s) = n + 1 => ~HasArg(s) /\ ~HasArg(t)
        BY <1>4, <1>5, <4>2 DEF SameFind
      <4>4. ValueAt(s) # n + 1 => ValueAt(t) = ValueAt(s) /\ ValueAt(t) \in 1 .. n
        BY <4>2 DEF SameFind
      <4>5. ValueAt(s) # n + 1 => HasArg(s) /\ HasArg(t)
        <5>1. \A i \in 1 .. n : i # n + 1 /\ i # n + 2
          BY <1>1
        <5> QED
          BY <1>4, <1>5, <2>1, <3>1, <4>4, <5>1
      <4> QED
        BY <1>3, <3>3, <4>1, <4>3, <4>4, <4>5 DEF n
    <3>5. CASE FileAt(s) # n + 1
      <4>1. FileAt(t) = FileAt(s) /\ FileAt(s) \in 1 .. n
        BY <3>2, <3>5 DEF SameFind
      <4>2. IsFile(s) /\ IsFile(t)
        BY <1>1, <4>1 DEF IsFile, n
      <4>3. FileAt(s) + 2 \in Nat \ {0}
        BY <4>1
      <4>4. SameFind(FileEnd(t), FileEnd(s), n)
        BY <1>2, <4>1, <4>3, CappedOne DEF FileEnd, n
      <4>5. CASE FileEnd(s) = n + 1
        <5>1. FileEnd(t) = n + 2 /\ FileEnd(s) = n + 1
          BY <4>4, <4>5 DEF SameFind
        <5>2. ValueAt(s) = n + 1
          <6>1. n + 1 \in Nat \ {0} /\ n + 1 > Len(s)
            BY <1>1 DEF n
          <6> QED
            BY <1>1, <4>2, <5>1, <6>1, FindsNoneBehind DEF ValueAt, n
        <5>3. ValueAt(t) = n + 2
          <6>1. n + 2 \in Nat \ {0} /\ n + 2 > Len(t) /\ Len(t) + 1 = n + 2
            BY <1>1
          <6> QED
            BY <1>1, <4>2, <5>1, <6>1, FindsNoneBehind DEF ValueAt
        <5>4. ~HasArg(s) /\ ~HasArg(t)
          BY <1>4, <1>5, <5>2, <5>3
        <5> QED
          BY <1>3, <5>4
      <4>6. CASE FileEnd(s) # n + 1
        <5>1. FileEnd(t) = FileEnd(s) /\ FileEnd(s) \in 1 .. n /\ FileEnd(s) \in Nat \ {0}
          BY <4>4, <4>6 DEF SameFind
        <5>2. SubSeq(t, FileAt(t) + 2, FileEnd(t) - 1) = SubSeq(s, FileAt(s) + 2, FileEnd(s) - 1)
          <6>1. FileEnd(s) - 1 \in Int /\ FileEnd(s) - 1 <= n /\ n <= Len(t)
            BY <1>1, <5>1
          <6>2. SubSeq(t, FileAt(s) + 2, FileEnd(s) - 1) = SubSeq(s, FileAt(s) + 2, FileEnd(s) - 1)
            BY <1>1, <4>3, <6>1, SameCutout DEF n
          <6> QED
            BY <4>1, <5>1, <6>2
        <5>3. SameFind(ValueAt(t), ValueAt(s), n)
          BY <1>2, <4>2, <5>1, CappedTwo DEF ValueAt, n
        <5>4. ValueAt(s) = n + 1 => ~HasArg(s) /\ ~HasArg(t)
          BY <1>4, <1>5, <5>3 DEF SameFind
        <5>5. ValueAt(s) # n + 1 => ValueAt(t) = ValueAt(s) /\ ValueAt(t) \in 1 .. n
          BY <5>3 DEF SameFind
        <5>6. ValueAt(s) # n + 1 => HasArg(s) /\ HasArg(t)
          <6>1. \A i \in 1 .. n : i # n + 1 /\ i # n + 2
            BY <1>1
          <6> QED
            BY <1>4, <1>5, <2>1, <3>1, <5>5, <6>1
        <5> QED
          BY <1>3, <3>3, <4>2, <5>2, <5>4, <5>5, <5>6 DEF n
      <4> QED
        BY <4>5, <4>6
    <3> QED
      BY <3>4, <3>5
  <2> QED
    BY <2>4, <2>5
<1> QED
  BY <1>7, <1>8

Glue(a, b) == a \o b

Follows(c, a, b) ==
    /\ Len(c) = Len(a) + Len(b)
    /\ \A i \in 1 .. Len(a) : c[i] = a[i]
    /\ \A i \in 1 .. Len(b) : c[Len(a) + i] = b[i]

(* What stands where in sequences that are put behind one another. *)
LEMMA Glued ==
    ASSUME NEW S, NEW a \in Seq(S), NEW b \in Seq(S)
    PROVE  Glue(a, b) \in Seq(S) /\ Follows(Glue(a, b), a, b)
<1> DEFINE c == a \o b
<1>1. c \in Seq(S) /\ Len(c) = Len(a) + Len(b) /\ Len(a) \in Nat /\ Len(b) \in Nat
  BY ConcatProperties
<1>2. \A i \in 1 .. Len(a) + Len(b) : c[i] = IF i <= Len(a) THEN a[i] ELSE b[i - Len(a)]
  BY ConcatProperties
<1> HIDE DEF c
<1>3. \A i \in 1 .. Len(a) : i \in 1 .. Len(a) + Len(b) /\ i <= Len(a)
  BY <1>1
<1>4. \A i \in 1 .. Len(b) : /\ Len(a) + i \in 1 .. Len(a) + Len(b) /\ ~(Len(a) + i <= Len(a))
                             /\ Len(a) + i - Len(a) = i
  BY <1>1
<1> QED
  BY <1>1, <1>2, <1>3, <1>4 DEF c, Glue, Follows

GlueFive(a, d, c, v, e) == a \o d \o c \o v \o e

FollowFive(p, a, d, c, v, e) ==
    /\ Len(p) = Len(d) + Len(v) + 5
    /\ p[1] = a[1] /\ p[Len(d) + 2] = c[1] /\ p[Len(d) + 3] = c[2]
    /\ \A i \in 1 .. Len(d) : p[i + 1] = d[i]
    /\ \A i \in 1 .. Len(v) : p[Len(d) + 3 + i] = v[i]
    /\ p[Len(d) + Len(v) + 4] = e[1] /\ p[Len(d) + Len(v) + 5] = e[2]

LEMMA GluedFive ==
    ASSUME NEW S, NEW a \in Seq(S), NEW d \in Seq(S), NEW c \in Seq(S), NEW v \in Seq(S), NEW e \in Seq(S),
           Len(a) = 1, Len(c) = 2, Len(e) = 2
    PROVE  FollowFive(GlueFive(a, d, c, v, e), a, d, c, v, e)
<1> DEFINE m == Len(d)
           n == Len(v)
           p1 == Glue(a, d)
           p2 == Glue(p1, c)
           p3 == Glue(p2, v)
           p4 == Glue(p3, e)
<1>1. p1 \in Seq(S) /\ Follows(p1, a, d)
  BY Glued
<1>2. p2 \in Seq(S) /\ Follows(p2, p1, c)
  <2> HIDE DEF p1
  <2> QED
    BY <1>1, Glued
<1>3. p3 \in Seq(S) /\ Follows(p3, p2, v)
  <2> HIDE DEF p2
  <2> QED
    BY <1>2, Glued
<1>4. Follows(p4, p3, e)
  <2> HIDE DEF p3
  <2> QED
    BY <1>3, Glued
<1>5. p4 = GlueFive(a, d, c, v, e)
  BY DEF Glue, GlueFive
<1> HIDE DEF p1, p2, p3, p4
<1>6. m \in Nat /\ n \in Nat
  OBVIOUS
<1> HIDE DEF m, n
<1>7. Len(p1) = m + 1 /\ Len(p2) = m + 3 /\ Len(p3) = m + n + 3 /\ Len(p4) = m + n + 5
  BY <1>1, <1>2, <1>3, <1>4, <1>6 DEF Follows, m, n
<1> USE DEF Follows
<1>8. \A i \in 1 .. m + 1 : p4[i] = p1[i]
  BY <1>2, <1>3, <1>4, <1>6, <1>7
<1>9. \A i \in 1 .. m + 3 : p4[i] = p2[i]
  <2>1. \A i \in 1 .. m + 3 : p3[i] = p2[i]
    BY <1>3, <1>7
  <2>2. \A i \in 1 .. m + n + 3 : p4[i] = p3[i]
    BY <1>4, <1>7
  <2>3. \A i \in 1 .. m + 3 : i \in 1 .. m + n + 3
    BY <1>6
  <2> QED
    BY <2>1, <2>2, <2>3
<1>10. p4[1] = a[1] /\ \A i \in 1 .. m : p4[i + 1] = d[i]
  <2>1. p1[1] = a[1] /\ \A i \in 1 .. m : p1[1 + i] = d[i] /\ 1 + i = i + 1 /\ i + 1 \in 1 .. m + 1
    BY <1>1, <1>6 DEF m
  <2>2. 1 \in 1 .. m + 1
    BY <1>6
  <2> QED
    BY <1>8, <2>1, <2>2
<1>11. p4[m + 2] = c[1] /\ p4[m + 3] = c[2]
  <2>1. /\ 1 \in 1 .. 2 /\ 2 \in 1 .. 2 /\ m + 2 \in 1 .. m + 3 /\ m + 3 \in 1 .. m + 3
        /\ Len(p1) + 1 = m + 2 /\ Len(p1) + 2 = m + 3
    BY <1>6, <1>7
  <2> QED
    BY <1>2, <1>9, <2>1
<1>12. \A i \in 1 .. n : p4[m + 3 + i] = v[i]
  <2>1. \A i \in 1 .. n : m + 3 + i \in 1 .. Len(p3)
    BY <1>6, <1>7
  <2>2. \A i \in 1 .. n : p3[Len(p2) + i] = v[i]
    BY <1>3 DEF n
  <2> QED
    BY <1>4, <1>7, <2>1, <2>2
<1>13. p4[m + n + 4] = e[1] /\ p4[m + n + 5] = e[2]
  <2>1. 1 \in 1 .. 2 /\ 2 \in 1 .. 2 /\ Len(p3) + 1 = m + n + 4 /\ Len(p3) + 2 = m + n + 5
    BY <1>6, <1>7
  <2> QED
    BY <1>4, <2>1
<1> QED
  BY <1>5, <1>7, <1>10, <1>11, <1>12, <1>13 DEF m, n, FollowFive

(* The header of a part, with the blank line behind it. *)
HeadLen(f) == IF f.file = Nil THEN 6 ELSE 10

LEMMA DispositionLaid ==
    ASSUME NEW f \in Fields
    PROVE  LET d == Disposition(f)
           IN  /\ d \in Seq(Piece) /\ Len(d) + 3 = HeadLen(f)
               /\ f.file = Nil => d[1] = NameIs /\ d[2] = f.name /\ d[3] = Quote
               /\ f.file # Nil /\ f.nameFirst =>
                    /\ d[1] = NameIs /\ d[2] = f.name /\ d[3] = Quote
                    /\ d[4] = File /\ d[5] = NameIs /\ d[6] = f.file /\ d[7] = Quote
               /\ f.file # Nil /\ ~f.nameFirst =>
                    /\ d[1] = File /\ d[2] = NameIs /\ d[3] = f.file /\ d[4] = Quote
                    /\ d[5] = NameIs /\ d[6] = f.name /\ d[7] = Quote
<1> DEFINE name == <<NameIs, f.name, Quote>>
           file == <<File, NameIs, f.file, Quote>>
<1>1. /\ NameIs \in Piece /\ File \in Piece /\ Quote \in Piece
      /\ f.name \in Piece /\ (f.file # Nil => f.file \in Piece) /\ f.nameFirst \in BOOLEAN
  BY DEF Fields, Piece, Tokens, Texts
<1>2. /\ name \in Seq(Piece) /\ Len(name) = 3
      /\ name[1] = NameIs /\ name[2] = f.name /\ name[3] = Quote
  BY <1>1
<1>3. f.file # Nil => /\ file \in Seq(Piece) /\ Len(file) = 4
                      /\ file[1] = File /\ file[2] = NameIs /\ file[3] = f.file /\ file[4] = Quote
  <2> SUFFICES ASSUME f.file # Nil
               PROVE  /\ file \in Seq(Piece) /\ Len(file) = 4
                      /\ file[1] = File /\ file[2] = NameIs /\ file[3] = f.file /\ file[4] = Quote
    OBVIOUS
  <2>1. f.file \in Piece
    BY <1>1
  <2> QED
    BY <1>1, <2>1
<1>4. Disposition(f) = IF f.file = Nil THEN name ELSE IF f.nameFirst THEN Glue(name, file) ELSE Glue(file, name)
  BY <1>1 DEF Disposition, Glue
<1> HIDE DEF name, file
<1>5. CASE f.file = Nil
  <2>1. Disposition(f) = name /\ HeadLen(f) = 6 /\ Len(name) + 3 = 6
    BY <1>2, <1>4, <1>5 DEF HeadLen
  <2> QED
    BY <1>2, <1>5, <2>1
<1>6. CASE f.file # Nil /\ f.nameFirst
  <2> DEFINE d == Glue(name, file)
  <2>1. d \in Seq(Piece) /\ Follows(d, name, file)
    BY <1>2, <1>3, <1>6, Glued
  <2>3. Disposition(f) = d
    BY <1>4, <1>6
  <2> HIDE DEF d
  <2>2. \A i \in 1 .. 4 : d[3 + i] = file[i]
    BY <1>2, <1>3, <1>6, <2>1 DEF Follows
  <2>4. d[4] = file[1] /\ d[5] = file[2] /\ d[6] = file[3] /\ d[7] = file[4]
    BY <2>2
  <2>5. \A i \in 1 .. 3 : d[i] = name[i]
    BY <1>2, <1>3, <1>6, <2>1 DEF Follows
  <2>6. d[1] = name[1] /\ d[2] = name[2] /\ d[3] = name[3]
    BY <2>5
  <2>7. Len(d) = 7
    <3>1. Len(d) = Len(name) + Len(file)
      BY <2>1, Zenon DEF Follows
    <3>2. Len(name) = 3 /\ Len(file) = 4
      BY <1>2, <1>3, <1>6
    <3> QED
      BY <3>1, <3>2
  <2> QED
    BY <1>2, <1>3, <1>6, <2>1, <2>3, <2>4, <2>6, <2>7 DEF HeadLen
<1>7. CASE f.file # Nil /\ ~f.nameFirst
  <2> DEFINE d == Glue(file, name)
  <2>1. d \in Seq(Piece) /\ Follows(d, file, name)
    BY <1>2, <1>3, <1>7, Glued
  <2>3. Disposition(f) = d
    BY <1>4, <1>7
  <2> HIDE DEF d
  <2>2. \A i \in 1 .. 3 : d[4 + i] = name[i]
    BY <1>2, <1>3, <1>7, <2>1 DEF Follows
  <2>4. d[5] = name[1] /\ d[6] = name[2] /\ d[7] = name[3]
    BY <2>2
  <2>5. \A i \in 1 .. 4 : d[i] = file[i]
    BY <1>2, <1>3, <1>7, <2>1 DEF Follows
  <2>6. d[1] = file[1] /\ d[2] = file[2] /\ d[3] = file[3] /\ d[4] = file[4]
    BY <2>5
  <2>7. Len(d) = 7
    <3>1. Len(d) = Len(file) + Len(name)
      BY <2>1, Zenon DEF Follows
    <3>2. Len(name) = 3 /\ Len(file) = 4
      BY <1>2, <1>3, <1>7
    <3> QED
      BY <3>1, <3>2
  <2> QED
    BY <1>2, <1>3, <1>7, <2>1, <2>3, <2>4, <2>6, <2>7 DEF HeadLen
<1> QED
  BY <1>1, <1>5, <1>6, <1>7

LEMMA PartLaid ==
    ASSUME NEW f \in Fields
    PROVE  LET p == Part(f)
               h == HeadLen(f)
               n == Len(f.value)
           IN  /\ n \in Nat /\ Len(p) = h + n + 2
               /\ p[1] = Crlf /\ p[h - 1] = Crlf /\ p[h] = Crlf
               /\ \A i \in 1 .. n : p[h + i] = f.value[i]
               /\ p[h + n + 1] = Crlf /\ p[h + n + 2] = Dashes
               /\ f.file = Nil => p[2] = NameIs /\ p[3] = f.name /\ p[4] = Quote
               /\ f.file # Nil /\ f.nameFirst =>
                    /\ p[2] = NameIs /\ p[3] = f.name /\ p[4] = Quote
                    /\ p[5] = File /\ p[6] = NameIs /\ p[7] = f.file /\ p[8] = Quote
               /\ f.file # Nil /\ ~f.nameFirst =>
                    /\ p[2] = File /\ p[3] = NameIs /\ p[4] = f.file /\ p[5] = Quote
                    /\ p[6] = NameIs /\ p[7] = f.name /\ p[8] = Quote
<1> DEFINE a == <<Crlf>>
           d == Disposition(f)
           c == <<Crlf, Crlf>>
           v == f.value
           e == <<Crlf, Dashes>>
           p == Part(f)
           h == HeadLen(f)
<1>1. /\ a \in Seq(Piece) /\ Len(a) = 1 /\ a[1] = Crlf
      /\ c \in Seq(Piece) /\ Len(c) = 2 /\ c[1] = Crlf /\ c[2] = Crlf
      /\ e \in Seq(Piece) /\ Len(e) = 2 /\ e[1] = Crlf /\ e[2] = Dashes
  BY DEF Piece, Tokens, Texts
<1>2. v \in Seq(Piece)
  <2>1. v \in Seq(Texts) /\ Texts \subseteq Piece
    BY DEF Fields, Piece, Tokens
  <2>2. \A i \in 1 .. Len(v) : v[i] \in Piece
    BY <2>1
  <2> QED
    BY <2>1, <2>2
<1>3. d \in Seq(Piece) /\ Len(d) + 3 = h
  BY DispositionLaid
<1>4. p = GlueFive(a, d, c, v, e)
  BY DEF Part, GlueFive
<1> HIDE DEF a, c, e, v, d, p
<1>5. FollowFive(p, a, d, c, v, e)
  BY <1>1, <1>2, <1>3, <1>4, GluedFive
<1> USE DEF FollowFive
<1>6. /\ Len(v) \in Nat /\ Len(d) \in Nat /\ Len(d) = h - 3 /\ h \in {6, 10}
      /\ h = IF f.file = Nil THEN 6 ELSE 10
  BY <1>2, <1>3 DEF HeadLen
<1> HIDE DEF h
<1>7. /\ Len(v) \in Nat /\ Len(p) = h + Len(v) + 2
      /\ p[1] = Crlf /\ p[h - 1] = Crlf /\ p[h] = Crlf
      /\ \A i \in 1 .. Len(v) : p[h + i] = v[i]
      /\ p[h + Len(v) + 1] = Crlf /\ p[h + Len(v) + 2] = Dashes
  <2>1. /\ Len(d) + 2 = h - 1 /\ Len(d) + 3 = h /\ Len(d) + Len(v) + 4 = h + Len(v) + 1
        /\ Len(d) + Len(v) + 5 = h + Len(v) + 2
    BY <1>6
  <2> QED
    BY <1>1, <1>5, <1>6, <2>1
<1>8. f.file = Nil => p[2] = d[1] /\ p[3] = d[2] /\ p[4] = d[3]
  BY <1>5, <1>6
<1>9. f.file # Nil => /\ p[2] = d[1] /\ p[3] = d[2] /\ p[4] = d[3] /\ p[5] = d[4] /\ p[6] = d[5]
                      /\ p[7] = d[6] /\ p[8] = d[7]
  BY <1>5, <1>6
<1>10. /\ f.file = Nil => d[1] = NameIs /\ d[2] = f.name /\ d[3] = Quote
       /\ f.file # Nil /\ f.nameFirst =>
            /\ d[1] = NameIs /\ d[2] = f.name /\ d[3] = Quote
            /\ d[4] = File /\ d[5] = NameIs /\ d[6] = f.file /\ d[7] = Quote
       /\ f.file # Nil /\ ~f.nameFirst =>
            /\ d[1] = File /\ d[2] = NameIs /\ d[3] = f.file /\ d[4] = Quote
            /\ d[5] = NameIs /\ d[6] = f.name /\ d[7] = Quote
  BY DispositionLaid DEF d
<1> QED
  BY <1>7, <1>8, <1>9, <1>10 DEF v, p, h

LEMMA TokensDiffer ==
    /\ \A w \in Words : w \notin {Boundary, Dashes, Crlf, NameIs, File, Quote, Nil}
    /\ Crlf \notin {NameIs, File, Quote, Dashes, Boundary} /\ Dashes \notin {NameIs, File, Quote, Boundary}
    /\ NameIs \notin {File, Quote, Boundary} /\ File \notin {Quote, Boundary} /\ Quote # Boundary
<1>1. \A w \in Words : w \notin {Boundary, Dashes, Crlf, NameIs, File, Quote, Nil}
  BY FormsAssumption
<1>2. /\ Crlf \notin {NameIs, File, Quote, Dashes, Boundary} /\ Dashes \notin {NameIs, File, Quote, Boundary}
      /\ NameIs \notin {File, Quote, Boundary} /\ File \notin {Quote, Boundary} /\ Quote # Boundary
  BY DEF Crlf, NameIs, File, Quote, Dashes, Boundary
<1> QED
  BY <1>1, <1>2

LEMMA FieldFacts ==
    ASSUME NEW f \in Fields
    PROVE  /\ f.name \in Words /\ f.file \in Words \cup {Nil} /\ f.nameFirst \in BOOLEAN
           /\ f.value \in Seq(Texts) /\ Len(f.value) \in Nat
BY DEF Fields

LEMMA UptoIs ==
    ASSUME NEW S, NEW s \in Seq(S), NEW k \in 0 .. Len(s)
    PROVE  /\ Upto(s, k) \in Seq(S) /\ Len(Upto(s, k)) = k
           /\ \A i \in 1 .. k : Upto(s, k)[i] = s[i]
<1>1. \A i \in 1 .. k : s[i] \in S
  OBVIOUS
<1>2. 1 \in Int /\ k \in Int /\ k - 1 + 1 = k
  OBVIOUS
<1>3. /\ SubSeq(s, 1, k) \in Seq(S) /\ Len(SubSeq(s, 1, k)) = IF 1 <= k THEN k - 1 + 1 ELSE 0
      /\ \A i \in 1 .. k - 1 + 1 : SubSeq(s, 1, k)[i] = s[1 + i - 1]
  BY <1>1, <1>2, SubSeqProperties
<1> QED
  BY <1>2, <1>3 DEF Upto

From(s, a, n) == SubSeq(s, a + 1, n)

LEMMA FromIs ==
    ASSUME NEW S, NEW s \in Seq(S), NEW n \in 0 .. Len(s), NEW a \in 0 .. n
    PROVE  /\ From(s, a, n) \in Seq(S) /\ Len(From(s, a, n)) = n - a
           /\ \A i \in 1 .. n - a : From(s, a, n)[i] = s[a + i]
<1> DEFINE t == SubSeq(s, a + 1, n)
<1>1. \A i \in a + 1 .. n : s[i] \in S
  OBVIOUS
<1>2. /\ a + 1 \in Int /\ n \in Int /\ a \in Nat /\ n \in Nat
      /\ n - (a + 1) + 1 = n - a /\ (a + 1 <= n <=> n - a # 0)
      /\ \A i \in 1 .. n - a : a + 1 + i - 1 = a + i
  OBVIOUS
<1>3. /\ t \in Seq(S) /\ Len(t) = IF a + 1 <= n THEN n - (a + 1) + 1 ELSE 0
      /\ \A i \in 1 .. n - (a + 1) + 1 : t[i] = s[a + 1 + i - 1]
  BY <1>1, <1>2, SubSeqProperties
<1> HIDE DEF t
<1>4. Len(t) = n - a
  BY <1>2, <1>3
<1>5. \A i \in 1 .. n - a : t[i] = s[a + i]
  BY <1>2, <1>3
<1> QED
  BY <1>3, <1>4, <1>5 DEF t, From

LEMMA FromFrom ==
    ASSUME NEW S, NEW s \in Seq(S), NEW n \in 0 .. Len(s), NEW a \in 0 .. n, NEW x \in 0 .. n - a,
           NEW b, b = a + x, NEW r, r = n - a
    PROVE  From(From(s, a, n), x, r) = From(s, b, n)
<1> DEFINE t == From(s, a, n)
           u == From(t, x, r)
           v == From(s, b, n)
<1>1. t \in Seq(S) /\ Len(t) = n - a /\ \A i \in 1 .. n - a : t[i] = s[a + i]
  BY FromIs
<1>2. a \in Nat /\ n \in Nat /\ x \in Nat /\ b \in 0 .. n /\ r \in Nat /\ x \in 0 .. r /\ r - x = n - b
  OBVIOUS
<1> HIDE DEF t
<1>3. t \in Seq(S) /\ r \in 0 .. Len(t) /\ x \in 0 .. r
  BY <1>1, <1>2
<1>4. u \in Seq(S) /\ Len(u) = r - x /\ \A i \in 1 .. r - x : u[i] = t[x + i]
  BY <1>3, FromIs
<1>5. v \in Seq(S) /\ Len(v) = n - b /\ \A i \in 1 .. n - b : v[i] = s[b + i]
  BY <1>2, FromIs, ZenonT(30)
<1> HIDE DEF u, v
<1>6. \A i \in 1 .. n - b : x + i \in 1 .. n - a /\ a + (x + i) = b + i
  BY <1>2
<1>7. \A i \in 1 .. n - b : u[i] = v[i]
  BY <1>1, <1>2, <1>4, <1>5, <1>6
<1>8. Len(u) = Len(v) /\ \A i \in 1 .. Len(u) : u[i] = v[i]
  BY <1>2, <1>4, <1>5, <1>7
<1>9. u = v
  BY <1>4, <1>5, <1>8, SameSequence
<1> QED
  BY <1>9 DEF u, v, t

(* Of a part that was cut in its header nothing is read. *)
LEMMA HeaderCut ==
    ASSUME NEW f \in Fields, NEW m \in Nat, m < HeadLen(f)
    PROVE  ~HasArg(Upto(Part(f), m))
<1> DEFINE p == Part(f)
           h == HeadLen(f)
           part == Upto(p, m)
<1>1. /\ p \in Seq(Piece) /\ Len(p) = h + Len(f.value) + 2 /\ Len(f.value) \in Nat
      /\ p[h - 1] = Crlf
      /\ f.file = Nil => p[2] = NameIs /\ p[3] = f.name /\ p[4] = Quote
      /\ f.file # Nil /\ f.nameFirst =>
           /\ p[2] = NameIs /\ p[3] = f.name /\ p[4] = Quote
           /\ p[5] = File /\ p[6] = NameIs /\ p[7] = f.file /\ p[8] = Quote
      /\ f.file # Nil /\ ~f.nameFirst =>
           /\ p[2] = File /\ p[3] = NameIs /\ p[4] = f.file /\ p[5] = Quote
           /\ p[6] = NameIs /\ p[7] = f.name /\ p[8] = Quote
  BY PartIsSequence, PartLaid
<1>2. h \in {6, 10} /\ (h = 6 <=> f.file = Nil)
  BY DEF HeadLen
<1>3. f.file # Nil => f.file # Crlf
  BY FieldFacts, TokensDiffer
<1>4. NameIs # Crlf /\ Quote # Crlf /\ File # Crlf /\ f.name # Crlf
  BY FieldFacts, TokensDiffer
<1>5. m \in 0 .. Len(p) /\ m <= h - 1
  BY <1>1, <1>2, SMTT(20)
<1>6. part \in Seq(Piece) /\ Len(part) = m /\ \A i \in 1 .. m : part[i] = p[i]
  BY <1>1, <1>5, UptoIs
<1> HIDE DEF p, h, part
<1>7. \A i \in 2 .. h - 2 : p[i] # Crlf
  <2>1. CASE h = 6
    <3>1. p[2] # Crlf /\ p[3] # Crlf /\ p[4] # Crlf
      BY <1>1, <1>2, <1>4, <2>1
    <3> QED
      BY <2>1, <3>1
  <2>2. CASE h = 10
    <3>1. p[2] # Crlf /\ p[3] # Crlf /\ p[4] # Crlf /\ p[5] # Crlf /\ p[6] # Crlf /\ p[7] # Crlf /\ p[8] # Crlf
      BY <1>1, <1>2, <1>3, <1>4, <2>2, SMTT(20)
    <3> QED
      BY <2>2, <3>1
  <2> QED
    BY <1>2, <2>1, <2>2
<1>8. \A i \in 1 .. m - 1 : ~(part[i] = Crlf /\ part[i + 1] = Crlf)
  <2> SUFFICES ASSUME NEW i \in 1 .. m - 1, part[i] = Crlf, part[i + 1] = Crlf PROVE FALSE
    OBVIOUS
  <2>1. i \in 1 .. m /\ i + 1 \in 1 .. m
    BY <1>5
  <2>2. p[i] = Crlf /\ p[i + 1] = Crlf
    BY <1>6, <2>1
  <2>3. CASE i = 1
    BY <1>2, <1>7, <2>2, <2>3
  <2>4. CASE i # 1
    BY <1>2, <1>5, <1>7, <2>2, <2>4
  <2> QED
    BY <2>3, <2>4
<1>9. \A from \in Nat \ {0} : Search(part, from, <<Crlf, Crlf>>) = m + 1
  <2> SUFFICES ASSUME NEW from \in Nat \ {0} PROVE Search(part, from, <<Crlf, Crlf>>) = m + 1
    OBVIOUS
  <2>1. \A i \in from .. m - 1 : i \in 1 .. m - 1
    BY <1>5
  <2>2. \A i \in from .. Len(part) - 1 : ~(part[i] = Crlf /\ part[i + 1] = Crlf)
    BY <1>6, <1>8, <2>1
  <2>3. Search(part, from, <<Crlf, Crlf>>) = Len(part) + 1
    <3>1. AbsentPair(part, from, Crlf, Crlf)
      BY <1>6, <2>2 DEF AbsentPair
    <3> QED
      BY <1>6, <2>2, <3>1, FoundNoPair
  <2> QED
    BY <1>6, <2>3
<1>10. Len(<<Quote>>) \in Nat \ {0} /\ Len(<<NameIs>>) \in Nat \ {0} /\ Len(<<File, NameIs>>) \in Nat \ {0}
  OBVIOUS
<1>11. NameAt(part) \in 1 .. m + 1
  BY <1>6, <1>10, SearchRange DEF NameAt
<1>12. NameEnd(part) \in 1 .. m + 1
  <2>1. NameAt(part) + 1 \in Nat \ {0}
    BY <1>11
  <2> QED
    BY <1>6, <1>10, <2>1, SearchRange DEF NameEnd
<1>13. FileAt(part) \in 1 .. m + 1
  <2>1. NameEnd(part) \in Nat \ {0}
    BY <1>12
  <2> QED
    BY <1>6, <1>10, <2>1, SearchRange DEF FileAt
<1>14. FileEnd(part) \in 1 .. m + 1
  <2>1. FileAt(part) + 2 \in Nat \ {0}
    BY <1>13
  <2> QED
    BY <1>6, <1>10, <2>1, SearchRange DEF FileEnd
<1>15. ValueAt(part) = m + 1
  <2>1. (IF IsFile(part) THEN FileEnd(part) ELSE NameEnd(part)) \in Nat \ {0}
    BY <1>12, <1>14
  <2> QED
    BY <1>9, <2>1 DEF ValueAt
<1> QED
  BY <1>6, <1>15 DEF HasArg, part, p

(* A text does not hold what begins the name of a file. *)
PlainField(f) == ReadAs(f).file = Nil => Search(f.value, 1, <<File, NameIs>>) > Len(f.value)

LEMMA OneElement ==
    ASSUME NEW S, NEW s \in Seq(S), NEW i \in 1 .. Len(s)
    PROVE  SubSeq(s, i, i) = <<s[i]>>
<1>1. Stands(s, i, <<s[i]>>)
  BY MatchOne
<1>2. i + Len(<<s[i]>>) - 1 = i
  OBVIOUS
<1> QED
  BY <1>1, <1>2 DEF Stands

(* Behind the header of a part there is no name of a file, if its value has none. *)
LEMMA NoFileBehind ==
    ASSUME NEW f \in Fields, ReadAs(f).file = Nil, PlainField(f)
    PROVE  \A i \in HeadLen(f) - 1 .. Len(Part(f)) - 1 : ~(Part(f)[i] = File /\ Part(f)[i + 1] = NameIs)
<1> DEFINE p == Part(f)
           h == HeadLen(f)
           n == Len(f.value)
           v == f.value
<1>1. /\ n \in Nat /\ Len(p) = h + n + 2 /\ p[h - 1] = Crlf /\ p[h] = Crlf
      /\ \A i \in 1 .. n : p[h + i] = v[i]
      /\ p[h + n + 1] = Crlf /\ p[h + n + 2] = Dashes
  BY PartLaid
<1>2. \A i \in 1 .. n - 1 : ~(v[i] = File /\ v[i + 1] = NameIs)
  BY FieldFacts, NoPair DEF PlainField
<1>3. h \in {6, 10} /\ Crlf # File /\ Crlf # NameIs /\ Dashes # File
  BY TokensDiffer DEF HeadLen
<1> HIDE DEF p, h, n, v
<1>4. ASSUME NEW i \in h - 1 .. Len(p) - 1, p[i] = File, p[i + 1] = NameIs PROVE FALSE
  <2>1. i # h - 1 /\ i # h /\ i # h + n + 1 /\ i # h + n
    BY <1>1, <1>3, <1>4
  <2>2. i - h \in 1 .. n - 1 /\ i - h \in 1 .. n /\ i - h + 1 \in 1 .. n
    BY <1>1, <1>3, <2>1
  <2>3. v[i - h] = p[i] /\ v[i - h + 1] = p[i + 1]
    <3>1. p[h + (i - h)] = v[i - h] /\ p[h + (i - h + 1)] = v[i - h + 1]
      BY <1>1, <2>2
    <3>2. h + (i - h) = i /\ h + (i - h + 1) = i + 1
      BY <1>3
    <3> QED
      BY <3>1, <3>2
  <2> QED
    BY <1>2, <1>4, <2>2, <2>3
<1> QED
  BY <1>4 DEF p, h, n

(* What is read of a header. *)
ReadsHead(part, f) ==
    /\ HasArg(part) /\ ValueAt(part) = HeadLen(f) - 1
    /\ SubSeq(part, NameAt(part) + 1, NameEnd(part) - 1) = ReadAs(f).name
    /\ (IF IsFile(part) THEN SubSeq(part, FileAt(part) + 2, FileEnd(part) - 1) ELSE Nil) = ReadAs(f).file

LEMMA TextHeader ==
    ASSUME NEW f \in Fields, PlainField(f), f.file = Nil,
           NEW part \in Seq(Piece), Len(part) >= 6, Len(part) <= Len(Part(f)),
           \A i \in 1 .. Len(part) : part[i] = Part(f)[i]
    PROVE  ReadsHead(part, f)
<1> DEFINE p == Part(f)
           m == Len(part)
<1>1. HeadLen(f) = 6 /\ ReadAs(f).name = <<f.name>> /\ ReadAs(f).file = Nil
  BY DEF HeadLen, ReadAs
<1>2. \A i \in 5 .. Len(p) - 1 : ~(p[i] = File /\ p[i + 1] = NameIs)
  <2>1. \A i \in HeadLen(f) - 1 .. Len(p) - 1 : ~(p[i] = File /\ p[i + 1] = NameIs)
    BY <1>1, NoFileBehind
  <2> QED
    BY <1>1, <2>1
<1>3. /\ p[1] = Crlf /\ p[2] = NameIs /\ p[3] = f.name /\ p[4] = Quote /\ p[5] = Crlf /\ p[6] = Crlf
      /\ Len(p) \in Nat
  <2>1. /\ p[1] = Crlf /\ p[HeadLen(f) - 1] = Crlf /\ p[HeadLen(f)] = Crlf
        /\ f.file = Nil => p[2] = NameIs /\ p[3] = f.name /\ p[4] = Quote
    BY PartLaid
  <2> QED
    BY <1>1, <2>1, PartIsSequence
<1>4. m \in Nat
  OBVIOUS
<1> HIDE DEF p, m
<1>5. m >= 6 /\ m <= Len(p) /\ Len(part) = m /\ \A i \in 1 .. m : part[i] = p[i]
  BY DEF p, m
<1>6. part[1] = Crlf /\ part[2] = NameIs /\ part[3] = f.name /\ part[4] = Quote /\ part[5] = Crlf /\ part[6] = Crlf
  <2>1. 1 \in 1 .. m /\ 2 \in 1 .. m /\ 3 \in 1 .. m /\ 4 \in 1 .. m /\ 5 \in 1 .. m /\ 6 \in 1 .. m
    BY <1>4, <1>5
  <2> QED
    BY <1>3, <1>5, <2>1
<1>7. Crlf # NameIs /\ f.name # Quote /\ Quote # Crlf /\ Quote # File
  BY FieldFacts, TokensDiffer
<1>8. NameAt(part) = 2
  <2>1. 2 \in 1 .. Len(part) /\ \A i \in 1 .. Len(part) : i < 2 => part[i] # NameIs
    BY <1>4, <1>5, <1>6, <1>7
  <2> QED
    <3>1. First(part, 1, NameIs, 2)
      BY <1>6, <2>1 DEF First
    <3> QED
      BY <1>6, <2>1, <3>1, FoundFirst DEF NameAt
<1>9. NameEnd(part) = 4
  <2>1. 4 \in 3 .. Len(part) /\ \A i \in 3 .. Len(part) : i < 4 => part[i] # Quote
    BY <1>4, <1>5, <1>6, <1>7
  <2>2. 3 \in Nat \ {0} /\ part[4] = Quote
    BY <1>6
  <2>3. Search(part, 3, <<Quote>>) = 4
    <3>1. First(part, 3, Quote, 4)
      BY <2>1, <2>2 DEF First
    <3> QED
      BY <2>1, <2>2, <3>1, FoundFirst
  <2> QED
    BY <1>8, <2>3 DEF NameEnd
<1>10. FileAt(part) = m + 1
  <2>1. \A i \in 4 .. m - 1 : ~(part[i] = File /\ part[i + 1] = NameIs)
    <3> SUFFICES ASSUME NEW i \in 4 .. m - 1, part[i] = File, part[i + 1] = NameIs PROVE FALSE
      OBVIOUS
    <3>1. i # 4 /\ i \in 1 .. m /\ i + 1 \in 1 .. m
      BY <1>4, <1>6, <1>7
    <3>2. i \in 5 .. Len(p) - 1 /\ part[i] = p[i] /\ part[i + 1] = p[i + 1]
      BY <1>3, <1>4, <1>5, <3>1
    <3> QED
      BY <1>2, <3>2
  <2> QED
    <3>1. AbsentPair(part, 4, File, NameIs)
      BY <1>5, <1>9, <2>1 DEF AbsentPair
    <3> QED
      BY <1>5, <1>9, <2>1, <3>1, FoundNoPair DEF FileAt
<1>11. ~IsFile(part)
  BY <1>4, <1>5, <1>10 DEF IsFile
<1>12. ValueAt(part) = 5
  <2>1. 5 \in 4 .. Len(part) - 1 /\ \A i \in 4 .. Len(part) - 1 : i < 5 => part[i] # Crlf
    BY <1>4, <1>5, <1>6, <1>7
  <2>2. Search(part, 4, <<Crlf, Crlf>>) = 5
    <3>1. FirstPair(part, 4, Crlf, Crlf, 5, 6)
      BY <1>6, <2>1 DEF FirstPair
    <3> QED
      BY <1>6, <2>1, <3>1, FoundPair
  <2> QED
    BY <1>9, <1>11, <2>2 DEF ValueAt
<1>13. HasArg(part)
  BY <1>4, <1>5, <1>8, <1>9, <1>12 DEF HasArg
<1>14. SubSeq(part, 3, 3) = <<f.name>>
  <2>1. 3 \in 1 .. Len(part)
    BY <1>4, <1>5
  <2> QED
    BY <1>6, <2>1, OneElement
<1> QED
  BY <1>1, <1>8, <1>9, <1>11, <1>12, <1>13, <1>14 DEF ReadsHead

LEMMA FileHeader ==
    ASSUME NEW f \in Fields, f.file # Nil, f.nameFirst,
           NEW part \in Seq(Piece), Len(part) >= 10, Len(part) <= Len(Part(f)),
           \A i \in 1 .. Len(part) : part[i] = Part(f)[i]
    PROVE  ReadsHead(part, f)
<1> DEFINE p == Part(f)
           m == Len(part)
<1>1. HeadLen(f) = 10 /\ ReadAs(f).name = <<f.name>> /\ ReadAs(f).file = <<f.file>>
  BY DEF HeadLen, ReadAs
<1>2. /\ p[1] = Crlf /\ p[2] = NameIs /\ p[3] = f.name /\ p[4] = Quote
      /\ p[5] = File /\ p[6] = NameIs /\ p[7] = f.file /\ p[8] = Quote
      /\ p[9] = Crlf /\ p[10] = Crlf
  <2>1. /\ p[1] = Crlf /\ p[HeadLen(f) - 1] = Crlf /\ p[HeadLen(f)] = Crlf
        /\ f.file # Nil /\ f.nameFirst =>
             /\ p[2] = NameIs /\ p[3] = f.name /\ p[4] = Quote
             /\ p[5] = File /\ p[6] = NameIs /\ p[7] = f.file /\ p[8] = Quote
    BY PartLaid
  <2> QED
    BY <1>1, <2>1
<1>3. m \in Nat
  OBVIOUS
<1> HIDE DEF p, m
<1>4. m >= 10 /\ Len(part) = m /\ \A i \in 1 .. m : part[i] = p[i]
  BY DEF p, m
<1>5. /\ part[1] = Crlf /\ part[2] = NameIs /\ part[3] = f.name /\ part[4] = Quote
      /\ part[5] = File /\ part[6] = NameIs /\ part[7] = f.file /\ part[8] = Quote
      /\ part[9] = Crlf /\ part[10] = Crlf
  <2>1. \A i \in 1 .. 10 : i \in 1 .. m
    BY <1>3, <1>4
  <2>2. \A i \in 1 .. 10 : part[i] = p[i]
    BY <1>4, <2>1
  <2> HIDE DEF p
  <2>3. /\ part[1] = p[1] /\ part[2] = p[2] /\ part[3] = p[3] /\ part[4] = p[4] /\ part[5] = p[5]
        /\ part[6] = p[6] /\ part[7] = p[7] /\ part[8] = p[8] /\ part[9] = p[9] /\ part[10] = p[10]
    BY <2>2
  <2> QED
    BY <1>2, <2>3
<1>6. Crlf # NameIs /\ f.name # Quote /\ f.file # Quote /\ Quote # File /\ Quote # Crlf
  BY FieldFacts, TokensDiffer
<1>7. NameAt(part) = 2
  <2>1. 2 \in 1 .. Len(part) /\ \A i \in 1 .. Len(part) : i < 2 => part[i] # NameIs
    BY <1>3, <1>4, <1>5, <1>6
  <2> QED
    <3>1. First(part, 1, NameIs, 2)
      BY <1>5, <2>1 DEF First
    <3> QED
      BY <1>5, <2>1, <3>1, FoundFirst DEF NameAt
<1>8. NameEnd(part) = 4
  <2>1. 4 \in 3 .. Len(part) /\ \A i \in 3 .. Len(part) : i < 4 => part[i] # Quote
    BY <1>3, <1>4, <1>5, <1>6
  <2>2. 3 \in Nat \ {0} /\ part[4] = Quote
    BY <1>5
  <2>3. Search(part, 3, <<Quote>>) = 4
    <3>1. First(part, 3, Quote, 4)
      BY <2>1, <2>2 DEF First
    <3> QED
      BY <2>1, <2>2, <3>1, FoundFirst
  <2> QED
    BY <1>7, <2>3 DEF NameEnd
<1>9. FileAt(part) = 5
  <2>1. 5 \in 4 .. Len(part) - 1 /\ \A i \in 4 .. Len(part) - 1 : i < 5 => part[i] # File
    BY <1>3, <1>4, <1>5, <1>6
  <2>2. 4 \in Nat \ {0} /\ part[5] = File /\ 6 = 5 + 1 /\ part[6] = NameIs
    BY <1>5
  <2>3. Search(part, 4, <<File, NameIs>>) = 5
    <3>1. FirstPair(part, 4, File, NameIs, 5, 6)
      BY <2>1, <2>2 DEF FirstPair
    <3> QED
      BY <2>1, <2>2, <3>1, FoundPair
  <2> QED
    BY <1>8, <2>3 DEF FileAt
<1>10. IsFile(part)
  BY <1>3, <1>4, <1>9 DEF IsFile
<1>11. FileEnd(part) = 8
  <2>1. 8 \in 7 .. Len(part) /\ \A i \in 7 .. Len(part) : i < 8 => part[i] # Quote
    BY <1>3, <1>4, <1>5, <1>6
  <2>2. 7 \in Nat \ {0} /\ part[8] = Quote
    BY <1>5
  <2>3. Search(part, 7, <<Quote>>) = 8
    <3>1. First(part, 7, Quote, 8)
      BY <2>1, <2>2 DEF First
    <3> QED
      BY <2>1, <2>2, <3>1, FoundFirst
  <2> QED
    BY <1>9, <2>3 DEF FileEnd
<1>12. ValueAt(part) = 9
  <2>1. 9 \in 8 .. Len(part) - 1 /\ \A i \in 8 .. Len(part) - 1 : i < 9 => part[i] # Crlf
    BY <1>3, <1>4, <1>5, <1>6
  <2>2. 8 \in Nat \ {0} /\ part[9] = Crlf /\ 10 = 9 + 1 /\ part[10] = Crlf
    BY <1>5
  <2>3. Search(part, 8, <<Crlf, Crlf>>) = 9
    <3>1. FirstPair(part, 8, Crlf, Crlf, 9, 10)
      BY <2>1, <2>2 DEF FirstPair
    <3> QED
      BY <2>1, <2>2, <3>1, FoundPair
  <2> QED
    BY <1>10, <1>11, <2>3 DEF ValueAt
<1>13. HasArg(part)
  BY <1>3, <1>4, <1>7, <1>8, <1>12 DEF HasArg
<1>14. SubSeq(part, 3, 3) = <<f.name>> /\ SubSeq(part, 7, 7) = <<f.file>>
  <2>1. 3 \in 1 .. Len(part) /\ 7 \in 1 .. Len(part)
    BY <1>3, <1>4
  <2>2. SubSeq(part, 3, 3) = <<part[3]>> /\ SubSeq(part, 7, 7) = <<part[7]>>
    BY <2>1, OneElement
  <2> QED
    BY <1>5, <2>2
<1> QED
  BY <1>1, <1>7, <1>8, <1>9, <1>10, <1>11, <1>12, <1>13, <1>14 DEF ReadsHead

(* The name of a file that comes first is taken for the name of the part. *)
LEMMA MisreadHeader ==
    ASSUME NEW f \in Fields, PlainField(f), f.file # Nil, ~f.nameFirst,
           NEW part \in Seq(Piece), Len(part) >= 10, Len(part) <= Len(Part(f)),
           \A i \in 1 .. Len(part) : part[i] = Part(f)[i]
    PROVE  ReadsHead(part, f)
<1> DEFINE p == Part(f)
           m == Len(part)
<1>1. HeadLen(f) = 10 /\ ReadAs(f).name = <<f.file>> /\ ReadAs(f).file = Nil
  BY DEF HeadLen, ReadAs
<1>2. \A i \in 9 .. Len(p) - 1 : ~(p[i] = File /\ p[i + 1] = NameIs)
  <2>1. \A i \in HeadLen(f) - 1 .. Len(p) - 1 : ~(p[i] = File /\ p[i + 1] = NameIs)
    BY <1>1, NoFileBehind
  <2> QED
    BY <1>1, <2>1
<1>3. /\ p[1] = Crlf /\ p[2] = File /\ p[3] = NameIs /\ p[4] = f.file /\ p[5] = Quote
      /\ p[6] = NameIs /\ p[7] = f.name /\ p[8] = Quote /\ p[9] = Crlf /\ p[10] = Crlf
      /\ Len(p) \in Nat
  <2>1. /\ p[1] = Crlf /\ p[HeadLen(f) - 1] = Crlf /\ p[HeadLen(f)] = Crlf
        /\ f.file # Nil /\ ~f.nameFirst =>
             /\ p[2] = File /\ p[3] = NameIs /\ p[4] = f.file /\ p[5] = Quote
             /\ p[6] = NameIs /\ p[7] = f.name /\ p[8] = Quote
    BY PartLaid
  <2> QED
    BY <1>1, <2>1, PartIsSequence
<1>4. m \in Nat
  OBVIOUS
<1> HIDE DEF p, m
<1>5. m >= 10 /\ m <= Len(p) /\ Len(part) = m /\ \A i \in 1 .. m : part[i] = p[i]
  BY DEF p, m
<1>6. /\ part[1] = Crlf /\ part[2] = File /\ part[3] = NameIs /\ part[4] = f.file /\ part[5] = Quote
      /\ part[6] = NameIs /\ part[7] = f.name /\ part[8] = Quote /\ part[9] = Crlf /\ part[10] = Crlf
  <2>1. \A i \in 1 .. 10 : i \in 1 .. m
    BY <1>4, <1>5
  <2>2. \A i \in 1 .. 10 : part[i] = p[i]
    BY <1>5, <2>1
  <2>3. /\ part[1] = p[1] /\ part[2] = p[2] /\ part[3] = p[3] /\ part[4] = p[4] /\ part[5] = p[5]
        /\ part[6] = p[6] /\ part[7] = p[7] /\ part[8] = p[8] /\ part[9] = p[9] /\ part[10] = p[10]
    BY <2>2
  <2> QED
    BY <1>3, <2>3
<1>7. /\ Crlf # NameIs /\ File # NameIs /\ f.name # Quote /\ f.file # Quote /\ Quote # Crlf
      /\ Quote # File /\ NameIs # File /\ f.name # File /\ NameIs # Crlf /\ f.name # Crlf
  BY FieldFacts, TokensDiffer
<1>8. NameAt(part) = 3
  <2>1. 3 \in 1 .. Len(part) /\ \A i \in 1 .. Len(part) : i < 3 => part[i] # NameIs
    BY <1>4, <1>5, <1>6, <1>7
  <2>2. 1 \in Nat \ {0} /\ part[3] = NameIs
    BY <1>6
  <2> QED
    <3>1. First(part, 1, NameIs, 3)
      BY <2>1, <2>2 DEF First
    <3> QED
      BY <2>1, <2>2, <3>1, FoundFirst DEF NameAt
<1>9. NameEnd(part) = 5
  <2>1. 5 \in 4 .. Len(part) /\ \A i \in 4 .. Len(part) : i < 5 => part[i] # Quote
    BY <1>4, <1>5, <1>6, <1>7
  <2>2. 4 \in Nat \ {0} /\ part[5] = Quote
    BY <1>6
  <2>3. Search(part, 4, <<Quote>>) = 5
    <3>1. First(part, 4, Quote, 5)
      BY <2>1, <2>2 DEF First
    <3> QED
      BY <2>1, <2>2, <3>1, FoundFirst
  <2> QED
    BY <1>8, <2>3 DEF NameEnd
<1>10. FileAt(part) = m + 1
  <2>1. \A i \in 5 .. m - 1 : ~(part[i] = File /\ part[i + 1] = NameIs)
    <3> SUFFICES ASSUME NEW i \in 5 .. m - 1, part[i] = File, part[i + 1] = NameIs PROVE FALSE
      OBVIOUS
    <3>1. part[5] # File /\ part[6] # File /\ part[7] # File /\ part[8] # File
      BY <1>6, <1>7
    <3>2. i \notin {5, 6, 7, 8}
      BY <3>1
    <3>3. i \in 9 .. Len(p) - 1 /\ i \in 1 .. m /\ i + 1 \in 1 .. m
      BY <1>3, <1>4, <1>5, <3>2
    <3>4. part[i] = p[i] /\ part[i + 1] = p[i + 1]
      BY <1>5, <3>3
    <3> QED
      BY <1>2, <3>3, <3>4
  <2> QED
    <3>1. AbsentPair(part, 5, File, NameIs)
      BY <1>5, <1>9, <2>1 DEF AbsentPair
    <3> QED
      BY <1>5, <1>9, <2>1, <3>1, FoundNoPair DEF FileAt
<1>11. ~IsFile(part)
  BY <1>4, <1>5, <1>10 DEF IsFile
<1>12. ValueAt(part) = 9
  <2>1. 9 \in 5 .. Len(part) - 1 /\ \A i \in 5 .. Len(part) - 1 : i < 9 => part[i] # Crlf
    <3>1. part[5] # Crlf /\ part[6] # Crlf /\ part[7] # Crlf /\ part[8] # Crlf
      BY <1>6, <1>7
    <3>2. \A i \in 5 .. Len(part) - 1 : i < 9 => i \in {5, 6, 7, 8}
      OBVIOUS
    <3> QED
      BY <1>4, <1>5, <3>1, <3>2
  <2>2. 5 \in Nat \ {0} /\ part[9] = Crlf /\ 10 = 9 + 1 /\ part[10] = Crlf
    BY <1>6
  <2>3. Search(part, 5, <<Crlf, Crlf>>) = 9
    <3>1. FirstPair(part, 5, Crlf, Crlf, 9, 10)
      BY <2>1, <2>2 DEF FirstPair
    <3> QED
      BY <2>1, <2>2, <3>1, FoundPair
  <2> QED
    BY <1>9, <1>11, <2>3 DEF ValueAt
<1>13. HasArg(part)
  BY <1>4, <1>5, <1>8, <1>9, <1>12 DEF HasArg
<1>14. SubSeq(part, 4, 4) = <<f.file>>
  <2>1. 4 \in 1 .. Len(part)
    BY <1>4, <1>5
  <2>2. SubSeq(part, 4, 4) = <<part[4]>>
    BY <2>1, OneElement
  <2> QED
    BY <1>6, <2>2
<1> QED
  BY <1>1, <1>8, <1>9, <1>11, <1>12, <1>13, <1>14 DEF ReadsHead

LEMMA HeaderRead ==
    ASSUME NEW f \in Fields, PlainField(f),
           NEW part \in Seq(Piece), Len(part) >= HeadLen(f), Len(part) <= Len(Part(f)),
           \A i \in 1 .. Len(part) : part[i] = Part(f)[i]
    PROVE  ReadsHead(part, f)
<1>1. CASE f.file = Nil
  BY <1>1, TextHeader DEF HeadLen
<1>2. CASE f.file # Nil /\ f.nameFirst
  BY <1>2, FileHeader DEF HeadLen
<1>3. CASE f.file # Nil /\ ~f.nameFirst
  BY <1>3, MisreadHeader DEF HeadLen
<1> QED
  BY <1>1, <1>2, <1>3

(* An argument that a part was read as, the whole part or what is left of it. *)
Argument(part, f, last) ==
    [name |-> ReadAs(f).name, file |-> ReadAs(f).file, value |-> SubSeq(part, HeadLen(f) + 1, last)]

LEMMA ArgOf ==
    ASSUME NEW f, NEW part, ReadsHead(part, f), HeadLen(f) \in Nat
    PROVE  /\ ParseArg(part) = {Argument(part, f, ValueEnd(part))}
           /\ Reversed(part) <=> ValueEnd(part) + 1 < HeadLen(f) + 1
<1>1. HeadLen(f) - 1 + 2 = HeadLen(f) + 1
  OBVIOUS
<1>2. Reversed(part) <=> ValueEnd(part) + 1 < HeadLen(f) + 1
  BY <1>1 DEF ReadsHead, Reversed
<1>3. /\ HasArg(part)
      /\ SubSeq(part, NameAt(part) + 1, NameEnd(part) - 1) = ReadAs(f).name
      /\ (IF IsFile(part) THEN SubSeq(part, FileAt(part) + 2, FileEnd(part) - 1) ELSE Nil) = ReadAs(f).file
      /\ ValueAt(part) + 2 = HeadLen(f) + 1
  BY <1>1 DEF ReadsHead
<1>4. ParseArg(part) = {Argument(part, f, ValueEnd(part))}
  BY <1>3 DEF ParseArg, Argument
<1> QED
  BY <1>2, <1>4

LEMMA ReadValue ==
    ASSUME NEW f \in Fields
    PROVE  ReadAs(f) = [name |-> ReadAs(f).name, file |-> ReadAs(f).file, value |-> f.value]
BY DEF ReadAs

(* A part that came whole is read as the browser meant it. *)
LEMMA WholePartRead ==
    ASSUME NEW f \in Fields, PlainField(f)
    PROVE  ParseArg(Part(f)) = {ReadAs(f)} /\ ~Reversed(Part(f))
<1> DEFINE p == Part(f)
           h == HeadLen(f)
           n == Len(f.value)
           v == f.value
<1>1. /\ p \in Seq(Piece) /\ n \in Nat /\ Len(p) = h + n + 2 /\ \A i \in 1 .. n : p[h + i] = v[i]
      /\ p[h + n + 1] = Crlf /\ p[h + n + 2] = Dashes
  BY PartIsSequence, PartLaid
<1>2. h \in {6, 10}
  BY DEF HeadLen
<1>3. ReadsHead(p, f)
  <2>1. Len(p) >= HeadLen(f)
    BY <1>1, <1>2
  <2> QED
    BY <1>1, <2>1, HeaderRead
<1>4. v \in Seq(Texts)
  BY FieldFacts
<1> HIDE DEF p, h, n, v
<1>5. ValueEnd(p) = h + n
  <2>1. h + n + 1 \in 1 .. Len(p) - 1 /\ h + n + 1 + 1 = h + n + 2
    BY <1>1, <1>2
  <2>2. Stands(p, h + n + 1, <<Crlf, Dashes>>)
    BY <1>1, <2>1, MatchTwo
  <2>3. h + n + 1 + Len(<<Crlf, Dashes>>) - 1 = Len(p) /\ h + n + 1 = Len(p) - 1
    BY <1>1, <1>2
  <2>4. SubSeq(p, Len(p) - 1, Len(p)) = <<Crlf, Dashes>>
    BY <2>2, <2>3 DEF Stands
  <2> QED
    BY <1>1, <1>2, <2>4 DEF ValueEnd
<1>6. SubSeq(p, h + 1, h + n) = v
  <2> DEFINE last == h + n
             t == SubSeq(p, h + 1, last)
  <2>1. last \in Int /\ h + 1 \in Int /\ \A i \in h + 1 .. last : p[i] \in Piece
    BY <1>1, <1>2
  <2>2. last - (h + 1) + 1 = n /\ (h + 1 <= last <=> 1 <= n) /\ \A i \in 1 .. n : h + 1 + i - 1 = h + i
    BY <1>1, <1>2
  <2> HIDE DEF last
  <2>3. /\ t \in Seq(Piece)
        /\ Len(t) = IF h + 1 <= last THEN last - (h + 1) + 1 ELSE 0
        /\ \A i \in 1 .. last - (h + 1) + 1 : t[i] = p[h + 1 + i - 1]
    BY <1>1, <2>1, SubSeqProperties, SMTT(20)
  <2> HIDE DEF t
  <2>4. Len(t) = n
    BY <1>1, <2>2, <2>3
  <2>5. \A i \in 1 .. n : t[i] = v[i]
    BY <1>1, <2>2, <2>3
  <2>6. Len(v) = n
    BY DEF n, v
  <2>7. Len(t) = Len(v) /\ \A i \in 1 .. Len(t) : t[i] = v[i]
    BY <2>4, <2>5, <2>6
  <2>8. t = v
    BY <1>4, <2>3, <2>7, SameSequence
  <2> QED
    BY <2>8 DEF t, last
<1>7. /\ ParseArg(p) = {Argument(p, f, h + n)}
      /\ Reversed(p) <=> h + n + 1 < h + 1
  BY <1>2, <1>3, <1>5, ArgOf DEF h
<1>8. ~Reversed(p)
  BY <1>1, <1>2, <1>7
<1>9. Argument(p, f, h + n) = ReadAs(f)
  BY <1>6, ReadValue DEF Argument, h, v
<1> QED
  BY <1>7, <1>8, <1>9 DEF p

AsSent(a, f) ==
    /\ a.name = ReadAs(f).name /\ a.file = ReadAs(f).file /\ a.value \in Remains(ReadAs(f).value)

(* What is sent from the beginning of a value to the next boundary, and what the
   i-th token is that is sent from the beginning of its part.                    *)
Sent(f) == f.value \o <<Crlf, Dashes, Boundary>>

Token(f, i) == IF i <= Len(Part(f)) THEN Part(f)[i] ELSE Boundary

LEMMA SentIs ==
    ASSUME NEW f \in Fields
    PROVE  /\ Sent(f) \in Seq(Piece) /\ Len(Sent(f)) = Len(f.value) + 3
           /\ \A i \in 1 .. Len(f.value) + 3 : Sent(f)[i] = Token(f, HeadLen(f) + i)
<1> DEFINE p == Part(f)
           h == HeadLen(f)
           v == f.value
           n == Len(f.value)
           z == <<Crlf, Dashes, Boundary>>
           w == Glue(v, z)
<1>1. /\ p \in Seq(Piece) /\ n \in Nat /\ Len(p) = h + n + 2 /\ \A i \in 1 .. n : p[h + i] = v[i]
      /\ p[h + n + 1] = Crlf /\ p[h + n + 2] = Dashes
  BY PartIsSequence, PartLaid
<1>2. h \in {6, 10}
  BY DEF HeadLen
<1>3. z \in Seq(Piece) /\ Len(z) = 3 /\ z[1] = Crlf /\ z[2] = Dashes /\ z[3] = Boundary
  <2>1. Crlf \in Piece /\ Dashes \in Piece /\ Boundary \in Piece
    BY DEF Piece, Tokens, Texts
  <2> QED
    BY <2>1
<1>4. v \in Seq(Piece) /\ Len(v) = n
  <2>1. v \in Seq(Texts)
    BY FieldFacts
  <2>2. \A x \in Texts : x \in Piece
    BY DEF Piece, Tokens
  <2>3. \A i \in 1 .. Len(v) : v[i] \in Piece
    BY <2>1, <2>2
  <2> QED
    BY <2>1, <2>3
<1>5. w = Sent(f)
  BY DEF Sent, Glue
<1>6. \A i : Token(f, i) = IF i <= Len(p) THEN p[i] ELSE Boundary
  BY DEF Token
<1> HIDE DEF p, h, v, n, z
<1>7. w \in Seq(Piece) /\ Follows(w, v, z)
  BY <1>3, <1>4, Glued
<1> HIDE DEF w
<1>8. Len(w) = n + 3 /\ (\A i \in 1 .. n : w[i] = v[i]) /\ (\A i \in 1 .. 3 : w[n + i] = z[i])
  BY <1>3, <1>4, <1>7 DEF Follows
<1>9. w[n + 1] = Crlf /\ w[n + 2] = Dashes /\ w[n + 3] = Boundary
  BY <1>3, <1>8
<1>10. ASSUME NEW i \in 1 .. n + 3 PROVE w[i] = Token(f, h + i)
  <2>1. i \in 1 .. n \/ i = n + 1 \/ i = n + 2 \/ i = n + 3
    BY <1>1
  <2>2. i # n + 3 => h + i <= Len(p)
    BY <1>1, <1>2
  <2>3. ~(h + (n + 3) <= Len(p)) /\ h + (n + 1) = h + n + 1 /\ h + (n + 2) = h + n + 2
    BY <1>1, <1>2
  <2>4. CASE i \in 1 .. n
    <3>1. i # n + 3
      BY <1>1, <2>4
    <3> QED
      BY <1>1, <1>6, <1>8, <2>2, <2>4, <3>1
  <2>5. CASE i = n + 1 \/ i = n + 2
    <3>1. i # n + 3
      BY <1>1, <2>5
    <3> QED
      BY <1>1, <1>6, <1>9, <2>2, <2>3, <2>5, <3>1
  <2>6. CASE i = n + 3
    BY <1>6, <1>9, <2>3, <2>6
  <2> QED
    BY <2>1, <2>4, <2>5, <2>6
<1> QED
  BY <1>5, <1>7, <1>8, <1>10 DEF n, h

(* What is left of a value is a beginning of what was sent from there. *)
LEMMA ValueCut ==
    ASSUME NEW f \in Fields, NEW part \in Seq(Piece), NEW m \in Nat, m <= Len(part), m <= Len(Part(f)),
           \A i \in 1 .. m : part[i] = Part(f)[i],
           NEW last \in HeadLen(f) .. m, NEW k, k = last - HeadLen(f)
    PROVE  /\ k \in 0 .. Len(f.value) + 2
           /\ SubSeq(part, HeadLen(f) + 1, last) = Upto(Sent(f), k)
<1> DEFINE p == Part(f)
           h == HeadLen(f)
           n == Len(f.value)
           w == Sent(f)
           s == From(part, h, last)
           u == Upto(w, k)
<1>1. p \in Seq(Piece) /\ n \in Nat /\ Len(p) = h + n + 2
  BY PartIsSequence, PartLaid
<1>2. h \in {6, 10}
  BY DEF HeadLen
<1>3. w \in Seq(Piece) /\ Len(w) = n + 3 /\ \A i \in 1 .. n + 3 : w[i] = Token(f, h + i)
  BY SentIs
<1>4. last \in h .. m /\ m <= Len(p) /\ k = last - h /\ \A i \in 1 .. m : part[i] = p[i]
  OBVIOUS
<1>5. \A i : Token(f, i) = IF i <= Len(p) THEN p[i] ELSE Boundary
  BY DEF Token
<1>6. s = SubSeq(part, HeadLen(f) + 1, last)
  BY DEF From
<1> HIDE DEF p, h, n, w
<1>7. k \in 0 .. n + 2 /\ h \in 0 .. last /\ last \in 0 .. Len(part) /\ k \in 0 .. Len(w)
  BY <1>1, <1>2, <1>3, <1>4
<1>8. s \in Seq(Piece) /\ Len(s) = k /\ \A i \in 1 .. k : s[i] = part[h + i]
  <2>1. s \in Seq(Piece) /\ Len(s) = last - h /\ \A i \in 1 .. last - h : s[i] = part[h + i]
    BY <1>7, FromIs
  <2> QED
    BY <1>4, <2>1
<1>9. u \in Seq(Piece) /\ Len(u) = k /\ \A i \in 1 .. k : u[i] = w[i]
  BY <1>3, <1>7, UptoIs
<1> HIDE DEF s, u
<1>10. ASSUME NEW i \in 1 .. k PROVE s[i] = u[i]
  <2>1. h + i \in 1 .. m /\ h + i <= Len(p) /\ i \in 1 .. n + 3
    BY <1>1, <1>2, <1>4, <1>7
  <2> QED
    BY <1>3, <1>4, <1>5, <1>8, <1>9, <2>1
<1>11. s = u
  <2>1. Len(s) = Len(u) /\ \A i \in 1 .. Len(s) : s[i] = u[i]
    BY <1>8, <1>9, <1>10
  <2> QED
    BY <1>8, <1>9, <2>1, SameSequence
<1> QED
  BY <1>6, <1>7, <1>11 DEF n, u, w

(* Of a part that was cut between two tokens nothing is read, or what may have
   lost its end.                                                               *)
LEMMA CutPartRead ==
    ASSUME NEW f \in Fields, PlainField(f), NEW m \in 0 .. Len(Part(f)) - 1,
           ~Reversed(Upto(Part(f), m))
    PROVE  \/ ParseArg(Upto(Part(f), m)) = {}
           \/ \E a : ParseArg(Upto(Part(f), m)) = {a} /\ AsSent(a, f)
<1> DEFINE p == Part(f)
           h == HeadLen(f)
           part == Upto(p, m)
<1>1. p \in Seq(Piece) /\ Len(p) \in Nat /\ m \in Nat /\ m \in 0 .. Len(p) /\ h \in {6, 10}
  BY PartIsSequence DEF HeadLen
<1>2. part \in Seq(Piece) /\ Len(part) = m /\ \A i \in 1 .. m : part[i] = p[i]
  BY <1>1, UptoIs
<1>3. CASE m < h
  BY <1>3, <1>1, HeaderCut DEF ParseArg
<1>4. CASE m >= h
  <2> DEFINE last == ValueEnd(part)
             k == last - h
  <2>1. ReadsHead(part, f)
    <3>1. Len(part) >= HeadLen(f) /\ Len(part) <= Len(Part(f))
      BY <1>1, <1>2, <1>4
    <3> QED
      BY <1>2, <3>1, HeaderRead
  <2>2. ParseArg(part) = {Argument(part, f, last)} /\ (Reversed(part) <=> last + 1 < HeadLen(f) + 1)
    <3>1. HeadLen(f) \in Nat
      BY <1>1
    <3> QED
      BY <2>1, <3>1, ArgOf
  <2>3. last \in {m, m - 2}
    BY <1>2 DEF ValueEnd
  <2> HIDE DEF last, part
  <2>4. ~Reversed(part)
    BY DEF part
  <2>5. last \in HeadLen(f) .. m /\ m <= Len(part) /\ m <= Len(Part(f)) /\ last <= Len(Part(f)) - 1
    BY <1>1, <1>2, <1>4, <2>2, <2>3, <2>4
  <2>6. k \in 0 .. Len(f.value) + 2 /\ SubSeq(part, HeadLen(f) + 1, last) = Upto(Sent(f), k)
    BY <1>1, <1>2, <2>5, ValueCut
  <2>7. k \in 0 .. Len(f.value) + 1
    <3>1. Len(f.value) \in Nat /\ Len(Part(f)) = HeadLen(f) + Len(f.value) + 2
      BY PartLaid
    <3>2. last \in Nat /\ h \in Nat /\ h <= last /\ last <= Len(Part(f)) - 1 /\ Len(Part(f)) = h + Len(f.value) + 2
      BY <1>1, <2>5, <3>1
    <3> HIDE DEF h
    <3> QED
      BY <3>1, <3>2
  <2>8. Upto(Sent(f), k) \in Remains(f.value)
    <3> HIDE DEF k
    <3> QED
      BY <2>7 DEF Remains, Sent
  <2>9. ReadAs(f).value = f.value
    BY ReadValue
  <2>10. AsSent(Argument(part, f, last), f)
    BY <2>6, <2>8, <2>9 DEF AsSent, Argument
  <2> QED
    BY <2>2, <2>10 DEF part
<1> QED
  BY <1>1, <1>3, <1>4

(* What is left of a part that was cut in a token. *)
Stubbed(part, f, m) ==
    Capped(part, Upto(Part(f), m)) /\ part[m + 1] \in Starts[Token(f, m + 1)]

(* Of such a part nothing is read, or the value with what is left of the token. *)
LEMMA StubPartRead ==
    ASSUME NEW f \in Fields, PlainField(f), NEW m \in 0 .. Len(Part(f)), NEW part, Stubbed(part, f, m)
    PROVE  /\ ~Reversed(part)
           /\ \/ ParseArg(part) = {}
              \/ \E a : ParseArg(part) = {a} /\ AsSent(a, f)
<1> DEFINE p == Part(f)
           h == HeadLen(f)
           n == Len(f.value)
           s == Upto(p, m)
           b == part[m + 1]
<1>1. p \in Seq(Piece) /\ Len(p) \in Nat /\ m \in Nat /\ m <= Len(p) /\ h \in {6, 10}
      /\ n \in Nat /\ Len(p) = h + n + 2
  <2>1. p \in Seq(Piece) /\ n \in Nat /\ Len(p) = h + n + 2
    BY PartIsSequence, PartLaid
  <2>2. h \in {6, 10}
    BY DEF HeadLen
  <2>3. m \in 0 .. Len(p)
    OBVIOUS
  <2> HIDE DEF p, h, n
  <2> QED
    BY <2>1, <2>2, <2>3
<1>2. s \in Seq(Piece) /\ Len(s) = m /\ \A i \in 1 .. m : s[i] = p[i]
  BY <1>1, UptoIs
<1>3. Capped(part, s) /\ b \in Starts[Token(f, m + 1)]
  BY DEF Stubbed
<1>4. part \in Seq(Piece) /\ Len(part) = m + 1 /\ \A i \in 1 .. m : part[i] = p[i]
  BY <1>2, <1>3 DEF Capped
<1>5. /\ HasArg(part) <=> HasArg(s)
      /\ ValueEnd(part) = m + 1
      /\ HasArg(s) =>
           /\ ValueAt(part) = ValueAt(s) /\ ValueAt(part) \in 1 .. Len(s) /\ (IsFile(part) <=> IsFile(s))
           /\ SubSeq(part, NameAt(part) + 1, NameEnd(part) - 1) = SubSeq(s, NameAt(s) + 1, NameEnd(s) - 1)
           /\ IsFile(s) => SubSeq(part, FileAt(part) + 2, FileEnd(part) - 1) = SubSeq(s, FileAt(s) + 2, FileEnd(s) - 1)
  BY <1>3, <1>4, CappedRead
<1>6. CASE m < h
  <2>1. ~HasArg(s)
    BY <1>1, <1>6, HeaderCut
  <2> QED
    BY <1>5, <2>1 DEF ParseArg, Reversed
<1>7. CASE m >= h
  <2>1. ReadsHead(s, f)
    <3>1. Len(s) >= HeadLen(f) /\ Len(s) <= Len(Part(f))
      BY <1>1, <1>2, <1>7
    <3> QED
      BY <1>2, <3>1, HeaderRead
  <2> HIDE DEF s, b
  <2>2. ReadsHead(part, f)
    BY <1>5, <2>1 DEF ReadsHead
  <2>3. ParseArg(part) = {Argument(part, f, m + 1)} /\ (Reversed(part) <=> m + 1 + 1 < HeadLen(f) + 1)
    <3>1. HeadLen(f) \in Nat
      BY <1>1
    <3> QED
      BY <1>5, <2>2, <3>1, ArgOf
  <2>4. ~Reversed(part)
    <3>1. ~(m + 1 + 1 < HeadLen(f) + 1)
      BY <1>1, <1>7
    <3> QED
      BY <2>3, <3>1
  <2> DEFINE k == m - h
             u == Upto(Sent(f), k)
             z == <<b>>
             v == SubSeq(part, h + 1, m + 1)
  <2>5. k \in 0 .. n + 2 /\ SubSeq(part, HeadLen(f) + 1, m) = u
    <3>1. m \in HeadLen(f) .. m /\ m <= Len(part)
      BY <1>1, <1>4, <1>7
    <3> QED
      BY <1>1, <1>4, <3>1, ValueCut
  <2>6. b \in Starts[Sent(f)[k + 1]]
    <3>1. k + 1 \in 1 .. n + 3 /\ h + (k + 1) = m + 1
      <4>1. k \in 0 .. n + 2 /\ k = m - h
        BY <2>5
      <4> HIDE DEF k, h, n
      <4> QED
        BY <1>1, <4>1
    <3> HIDE DEF k
    <3>2. Sent(f)[k + 1] = Token(f, m + 1)
      BY <3>1, SentIs
    <3> QED
      BY <1>3, <3>2
  <2>7. v = u \o z
    <3>1. b \in Piece /\ b = part[m + 1]
      <4>1. m + 1 \in 1 .. Len(part)
        BY <1>1, <1>4
      <4> QED
        BY <1>4, <4>1 DEF b
    <3>2. z \in Seq(Piece) /\ Len(z) = 1 /\ z[1] = b
      BY <3>1
    <3>3. Sent(f) \in Seq(Piece) /\ k \in 0 .. Len(Sent(f))
      BY <1>1, <2>5, SentIs
    <3> HIDE DEF z, k
    <3>4. u \in Seq(Piece) /\ Len(u) = k
      BY <3>3, UptoIs
    <3> DEFINE w == Glue(u, z)
    <3>5. w \in Seq(Piece) /\ Follows(w, u, z)
      BY <3>2, <3>4, Glued
    <3>6. w = u \o z
      BY DEF Glue
    <3> DEFINE x == From(part, h, m)
               y == From(part, h, m + 1)
    <3>7. x = u /\ y = v
      <4>1. x = SubSeq(part, HeadLen(f) + 1, m) /\ y = v
        BY DEF From
      <4> HIDE DEF x, y, u, v
      <4> QED
        BY <2>5, <4>1
    <3>8. h \in 0 .. m /\ m \in 0 .. Len(part) /\ h \in 0 .. m + 1 /\ m + 1 \in 0 .. Len(part)
          /\ m - h = k /\ m + 1 - h = k + 1 /\ h + (k + 1) = m + 1 /\ k \in Nat
      BY <1>1, <1>4, <1>7, <2>5 DEF k
    <3>9. \A i \in 1 .. m - h : x[i] = part[h + i]
      <4>1. part \in Seq(Piece) /\ m \in 0 .. Len(part) /\ h \in 0 .. m
        BY <1>4, <3>8
      <4>2. x = From(part, h, m)
        OBVIOUS
      <4> HIDE DEF h, x
      <4>3. \A i \in 1 .. m - h : From(part, h, m)[i] = part[h + i]
        BY <4>1, FromIs
      <4> QED
        BY <4>2, <4>3
    <3>10. y \in Seq(Piece) /\ Len(y) = m + 1 - h /\ \A i \in 1 .. m + 1 - h : y[i] = part[h + i]
      <4> DEFINE l == m + 1
      <4>1. part \in Seq(Piece) /\ l \in 0 .. Len(part) /\ h \in 0 .. l
        BY <1>4, <3>8
      <4>3. y = From(part, h, l)
        OBVIOUS
      <4>4. l - h = m + 1 - h
        BY <1>1
      <4> HIDE DEF l, h, y
      <4>2. /\ From(part, h, l) \in Seq(Piece) /\ Len(From(part, h, l)) = l - h
            /\ \A i \in 1 .. l - h : From(part, h, l)[i] = part[h + i]
        BY <4>1, FromIs
      <4> QED
        BY <4>2, <4>3, <4>4
    <3> HIDE DEF w, x, y, u, v
    <3>11. Len(w) = k + 1 /\ (\A i \in 1 .. k : w[i] = u[i]) /\ w[k + 1] = b
      BY <3>2, <3>4, <3>5 DEF Follows
    <3>12. ASSUME NEW i \in 1 .. k + 1 PROVE y[i] = w[i]
      <4>1. CASE i = k + 1
        BY <3>1, <3>8, <3>10, <3>11, <4>1
      <4>2. CASE i # k + 1
        <5>1. i \in 1 .. k
          BY <3>8, <4>2
        <5> QED
          BY <3>7, <3>8, <3>9, <3>10, <3>11, <5>1
      <4> QED
        BY <4>1, <4>2
    <3>13. Len(y) = Len(w) /\ \A i \in 1 .. Len(y) : y[i] = w[i]
      BY <3>8, <3>10, <3>11, <3>12
    <3>14. y = w
      BY <3>5, <3>10, <3>13, SameSequence
    <3> QED
      BY <3>6, <3>7, <3>14
  <2> HIDE DEF k
  <2>8. v \in Remains(f.value)
    <3>1. v = Upto(Sent(f), k) \o <<b>>
      BY <2>7
    <3>2. k \in 0 .. Len(f.value) + 2
      BY <2>5
    <3> HIDE DEF v, b
    <3>3. v \in {Upto(Sent(f), k) \o <<c>> : c \in Starts[Sent(f)[k + 1]]}
      BY <2>6, <3>1
    <3>4. v \in UNION {{Upto(Sent(f), i) \o <<c>> : c \in Starts[Sent(f)[i + 1]]} : i \in 0 .. Len(f.value) + 2}
      BY <3>2, <3>3
    <3> QED
      BY <3>4 DEF Remains, Sent
  <2>9. ReadAs(f).value = f.value
    BY ReadValue
  <2>10. AsSent(Argument(part, f, m + 1), f)
    BY <2>8, <2>9 DEF AsSent, Argument
  <2> QED
    BY <2>3, <2>4, <2>10
<1> QED
  BY <1>1, <1>6, <1>7

(* What is read of a form behind whose boundary stands a parameter: the two
   pieces in front of the first part belong to the part.                     *)
LEMMA TrailedName ==
    ASSUME NEW f \in Fields, NEW s \in Seq(Piece),
           Len(s) >= 1 => s[1] = Dashes, Len(s) >= 2 => s[2] = Boundary,
           \A i \in 1 .. Len(s) : i \in 3 .. 10 => s[i] = Part(f)[i - 2],
           HasArg(s)
    PROVE  SubSeq(s, NameAt(s) + 1, NameEnd(s) - 1) = ReadAs(f).name
<1> DEFINE p == Part(f)
           r == Len(s)
           H(k) == r >= k + 2 => s[k + 2] = p[k]
<1>1. r \in Nat
  OBVIOUS
<1>2. H(1) /\ H(2) /\ H(3) /\ H(4) /\ H(5)
  <2>1. \A k \in 1 .. 5 : r >= k + 2 => k + 2 \in 1 .. Len(s) /\ k + 2 \in 3 .. 10 /\ k + 2 - 2 = k
    BY <1>1
  <2>2. \A k \in 1 .. 5 : r >= k + 2 => s[k + 2] = Part(f)[k]
    BY <2>1
  <2> QED
    BY <2>2
<1>3. /\ p[1] = Crlf
      /\ f.file = Nil \/ f.nameFirst => p[2] = NameIs /\ p[3] = f.name /\ p[4] = Quote
      /\ ~(f.file = Nil \/ f.nameFirst) =>
            /\ p[2] = File /\ p[3] = NameIs /\ p[4] = f.file /\ p[5] = Quote
  BY PartLaid
<1>4. /\ Dashes # NameIs /\ Boundary # NameIs /\ Crlf # NameIs /\ File # NameIs
      /\ f.name # Quote /\ (f.file # Nil => f.file # Quote)
  BY FieldFacts, TokensDiffer
<1>5. NameAt(s) # r + 1 /\ NameEnd(s) # r + 1
  BY DEF HasArg
<1> HIDE DEF p, r
<1>6. r = Len(s)
  BY DEF r
<1>7. CASE f.file = Nil \/ f.nameFirst
  <2>1. r >= 3 => s[3] = Crlf
    BY <1>2, <1>3
  <2>2. r >= 4 => s[4] = NameIs
    BY <1>2, <1>3, <1>7
  <2>3. r >= 5 => s[5] = f.name
    BY <1>2, <1>3, <1>7
  <2>4. r >= 6 => s[6] = Quote
    BY <1>2, <1>3, <1>7
  <2>5. r >= 4
    <3> SUFFICES ASSUME r < 4 PROVE FALSE
      BY <1>1
    <3>1. \A i \in 1 .. Len(s) : s[i] # NameIs
      BY <1>1, <1>4, <1>6, <2>1
    <3> QED
      <4>1. Absent(s, 1, NameIs)
        BY <1>5, <1>6, <3>1 DEF Absent
      <4> QED
        BY <1>5, <1>6, <3>1, <4>1, FoundNone DEF NameAt
  <2>6. NameAt(s) = 4
    <3>1. 4 \in 1 .. Len(s) /\ \A i \in 1 .. Len(s) : i < 4 => s[i] # NameIs
      BY <1>1, <1>4, <1>6, <2>1, <2>5
    <3>2. 1 \in Nat \ {0} /\ s[4] = NameIs
      BY <2>2, <2>5
    <3> QED
      <4>1. First(s, 1, NameIs, 4)
        BY <3>1, <3>2 DEF First
      <4> QED
        BY <3>1, <3>2, <4>1, FoundFirst DEF NameAt
  <2>7. r >= 6
    <3> SUFFICES ASSUME r < 6 PROVE FALSE
      BY <1>1
    <3>1. 5 \in Nat \ {0} /\ \A i \in 5 .. Len(s) : s[i] # Quote
      BY <1>1, <1>4, <1>6, <2>3
    <3>2. Search(s, 5, <<Quote>>) = r + 1
      <4>1. Absent(s, 5, Quote)
        BY <1>6, <3>1 DEF Absent
      <4> QED
        BY <1>6, <3>1, <4>1, FoundNone
    <3> QED
      BY <1>5, <2>6, <3>2 DEF NameEnd
  <2>8. NameEnd(s) = 6
    <3>1. 6 \in 5 .. Len(s) /\ \A i \in 5 .. Len(s) : i < 6 => s[i] # Quote
      BY <1>1, <1>4, <1>6, <2>3, <2>7
    <3>2. 5 \in Nat \ {0} /\ s[6] = Quote
      BY <2>4, <2>7
    <3>3. Search(s, 5, <<Quote>>) = 6
      <4>1. First(s, 5, Quote, 6)
        BY <3>1, <3>2 DEF First
      <4> QED
        BY <3>1, <3>2, <4>1, FoundFirst
    <3> QED
      BY <2>6, <3>3 DEF NameEnd
  <2>9. SubSeq(s, 5, 5) = <<f.name>>
    <3>1. 5 \in 1 .. Len(s) /\ s[5] = f.name
      BY <1>1, <1>6, <2>3, <2>7
    <3> QED
      BY <3>1, OneElement
  <2>10. ReadAs(f).name = <<f.name>>
    BY <1>7 DEF ReadAs
  <2> QED
    BY <2>6, <2>8, <2>9, <2>10
<1>8. CASE ~(f.file = Nil \/ f.nameFirst)
  <2>1. r >= 3 => s[3] = Crlf
    BY <1>2, <1>3
  <2>2. r >= 4 => s[4] = File
    BY <1>2, <1>3, <1>8
  <2>3. r >= 5 => s[5] = NameIs
    BY <1>2, <1>3, <1>8
  <2>4. r >= 6 => s[6] = f.file
    BY <1>2, <1>3, <1>8
  <2>5. r >= 7 => s[7] = Quote
    BY <1>2, <1>3, <1>8
  <2>6. r >= 5
    <3> SUFFICES ASSUME r < 5 PROVE FALSE
      BY <1>1
    <3>1. \A i \in 1 .. Len(s) : s[i] # NameIs
      BY <1>1, <1>4, <1>6, <2>1, <2>2
    <3> QED
      <4>1. Absent(s, 1, NameIs)
        BY <1>5, <1>6, <3>1 DEF Absent
      <4> QED
        BY <1>5, <1>6, <3>1, <4>1, FoundNone DEF NameAt
  <2>7. NameAt(s) = 5
    <3>1. 5 \in 1 .. Len(s) /\ \A i \in 1 .. Len(s) : i < 5 => s[i] # NameIs
      BY <1>1, <1>4, <1>6, <2>1, <2>2, <2>6
    <3>2. 1 \in Nat \ {0} /\ s[5] = NameIs
      BY <2>3, <2>6
    <3> QED
      <4>1. First(s, 1, NameIs, 5)
        BY <3>1, <3>2 DEF First
      <4> QED
        BY <3>1, <3>2, <4>1, FoundFirst DEF NameAt
  <2>8. r >= 7
    <3> SUFFICES ASSUME r < 7 PROVE FALSE
      BY <1>1
    <3>1. 6 \in Nat \ {0} /\ \A i \in 6 .. Len(s) : s[i] # Quote
      BY <1>1, <1>4, <1>6, <1>8, <2>4
    <3>2. Search(s, 6, <<Quote>>) = r + 1
      <4>1. Absent(s, 6, Quote)
        BY <1>6, <3>1 DEF Absent
      <4> QED
        BY <1>6, <3>1, <4>1, FoundNone
    <3> QED
      BY <1>5, <2>7, <3>2 DEF NameEnd
  <2>9. NameEnd(s) = 7
    <3>1. 7 \in 6 .. Len(s) /\ \A i \in 6 .. Len(s) : i < 7 => s[i] # Quote
      BY <1>1, <1>4, <1>6, <1>8, <2>4, <2>8
    <3>2. 6 \in Nat \ {0} /\ s[7] = Quote
      BY <2>5, <2>8
    <3>3. Search(s, 6, <<Quote>>) = 7
      <4>1. First(s, 6, Quote, 7)
        BY <3>1, <3>2 DEF First
      <4> QED
        BY <3>1, <3>2, <4>1, FoundFirst
    <3> QED
      BY <2>7, <3>3 DEF NameEnd
  <2>10. SubSeq(s, 6, 6) = <<f.file>>
    <3>1. 6 \in 1 .. Len(s) /\ s[6] = f.file
      BY <1>1, <1>6, <2>4, <2>8
    <3> QED
      BY <3>1, OneElement
  <2>11. ReadAs(f).name = <<f.file>>
    BY <1>8 DEF ReadAs
  <2> QED
    BY <2>7, <2>9, <2>10, <2>11
<1> QED
  BY <1>7, <1>8

(* What is laid behind what is there keeps its place. *)
Grown(g, t, n) ==
    /\ \A k \in 1 .. n : Len(g[k]) = Len(g[k - 1]) + Len(t[k])
    /\ \A k \in 0 .. n : Len(g[k]) <= Len(g[n]) /\ \A i \in 1 .. Len(g[k]) : g[n][i] = g[k][i]
    /\ \A k \in 1 .. n : \A i \in 1 .. Len(t[k]) : g[n][Len(g[k - 1]) + i] = t[k][i]

Grows(g, t, n) == \A k \in 1 .. n : g[k] = g[k - 1] \o t[k]

LEMMA Growing ==
    ASSUME NEW S, NEW n \in Nat, NEW g \in [0 .. n -> Seq(S)], NEW t \in [1 .. n -> Seq(S)],
           Grows(g, t, n)
    PROVE  Grown(g, t, n)
<1>1. ASSUME NEW k \in 1 .. n
      PROVE  /\ g[k] \in Seq(S) /\ g[k - 1] \in Seq(S) /\ t[k] \in Seq(S)
             /\ Len(g[k]) = Len(g[k - 1]) + Len(t[k])
             /\ \A i \in 1 .. Len(g[k - 1]) : g[k][i] = g[k - 1][i]
             /\ \A i \in 1 .. Len(t[k]) : g[k][Len(g[k - 1]) + i] = t[k][i]
  <2> DEFINE a == g[k - 1]
             b == t[k]
  <2>1. k - 1 \in 0 .. n /\ k \in 0 .. n
    OBVIOUS
  <2>2. g[k] \in Seq(S) /\ a \in Seq(S) /\ b \in Seq(S) /\ g[k] = a \o b
    BY <2>1 DEF Grows
  <2> HIDE DEF a, b
  <2>3. /\ Len(a \o b) = Len(a) + Len(b)
        /\ \A i \in 1 .. Len(a) : (a \o b)[i] = a[i]
        /\ \A i \in 1 .. Len(b) : (a \o b)[Len(a) + i] = b[i]
    BY <2>2
  <2> QED
    BY <2>2, <2>3 DEF a, b
<1> DEFINE Kept(m) == \A k \in 0 .. m : Len(g[k]) <= Len(g[m]) /\ \A i \in 1 .. Len(g[k]) : g[m][i] = g[k][i]
           Good == {m \in 0 .. n : Kept(m)}
<1>2. \A k \in 0 .. n : g[k] \in Seq(S) /\ Len(g[k]) \in Nat
  OBVIOUS
<1>3. 0 \in Good
  <2>1. \A k \in 0 .. 0 : k = 0
    OBVIOUS
  <2>2. Kept(0)
    BY <1>2, <2>1
  <2> QED
    BY <2>2
<1>4. ASSUME NEW m \in 0 .. n - 1, m \in Good PROVE m + 1 \in Good
  <2>1. m + 1 \in 1 .. n /\ m + 1 - 1 = m /\ m \in 0 .. n /\ m + 1 \in 0 .. n
    OBVIOUS
  <2>2. /\ Len(g[m + 1]) = Len(g[m]) + Len(t[m + 1]) /\ t[m + 1] \in Seq(S)
        /\ \A i \in 1 .. Len(g[m]) : g[m + 1][i] = g[m][i]
    BY <1>1, <2>1
  <2>3. Len(g[m]) \in Nat /\ Len(t[m + 1]) \in Nat /\ Len(g[m]) <= Len(g[m + 1])
    <3>1. Len(g[m]) \in Nat
      BY <1>2, <2>1
    <3>2. Len(t[m + 1]) \in Nat
      BY <2>2
    <3> DEFINE x == Len(g[m])
               y == Len(t[m + 1])
               z == Len(g[m + 1])
    <3>3. x \in Nat /\ y \in Nat /\ z = x + y
      BY <2>2, <3>1, <3>2
    <3> HIDE DEF x, y, z
    <3>4. x <= z
      BY <3>3
    <3> QED
      BY <3>1, <3>2, <3>4 DEF x, z
  <2>4. Kept(m)
    BY <1>4
  <2>5. ASSUME NEW k \in 0 .. m + 1
        PROVE  Len(g[k]) <= Len(g[m + 1]) /\ \A i \in 1 .. Len(g[k]) : g[m + 1][i] = g[k][i]
    <3>1. CASE k = m + 1
      BY <1>2, <2>1, <3>1
    <3>2. CASE k # m + 1
      <4>1. k \in 0 .. m /\ k \in 0 .. n
        BY <2>1, <3>2
      <4>2. Len(g[k]) \in Nat /\ Len(g[k]) <= Len(g[m]) /\ \A i \in 1 .. Len(g[k]) : g[m][i] = g[k][i]
        BY <1>2, <2>4, <4>1
      <4>3. \A i \in 1 .. Len(g[k]) : i \in 1 .. Len(g[m])
        BY <2>3, <4>2
      <4>4. Len(g[m + 1]) \in Nat
        BY <1>2, <2>1
      <4>5. \A i \in 1 .. Len(g[k]) : g[m + 1][i] = g[k][i]
        BY <2>2, <4>2, <4>3
      <4>6. Len(g[k]) <= Len(g[m + 1])
        <5> DEFINE x == Len(g[k])
                   y == Len(g[m])
                   z == Len(g[m + 1])
        <5>1. x \in Nat /\ y \in Nat /\ z \in Nat /\ x <= y /\ y <= z
          BY <2>3, <4>2, <4>4
        <5> HIDE DEF x, y, z
        <5>2. x <= z
          BY <5>1
        <5> QED
          BY <5>2 DEF x, z
      <4> QED
        BY <4>5, <4>6
    <3> QED
      BY <3>1, <3>2
  <2> QED
    BY <2>1, <2>5
<1>5. Kept(n)
  <2> HIDE DEF Kept
  <2>1. 0 .. n \subseteq Good
    <3> HIDE DEF Good
    <3> QED
      BY <1>3, <1>4, UpTo
  <2>2. n \in 0 .. n
    OBVIOUS
  <2> QED
    BY <2>1, <2>2
<1>6. ASSUME NEW k \in 1 .. n, NEW i \in 1 .. Len(t[k]) PROVE g[n][Len(g[k - 1]) + i] = t[k][i]
  <2>1. k \in 0 .. n /\ k - 1 \in 0 .. n
    OBVIOUS
  <2>2. Len(g[k - 1]) \in Nat /\ Len(t[k]) \in Nat /\ Len(g[k]) = Len(g[k - 1]) + Len(t[k])
    BY <1>1, <1>2, <2>1
  <2>3. Len(g[k - 1]) + i \in 1 .. Len(g[k])
    BY <2>2
  <2>4. g[n][Len(g[k - 1]) + i] = g[k][Len(g[k - 1]) + i]
    BY <1>5, <2>1, <2>3
  <2> QED
    BY <1>1, <2>4
<1> QED
  BY <1>1, <1>5, <1>6 DEF Grown

(* Where the boundaries of a content are: in front of its first part, and behind
   each of them.                                                               *)
Laid(fields, b) ==
    LET n == Len(fields)
        c == Content(fields)
    IN  /\ b[0] = 2 /\ c[1] = Dashes /\ c[2] = Boundary
        /\ \A k \in 1 .. n :
             /\ b[k] = b[k - 1] + Len(Part(fields[k])) + 1
             /\ \A i \in 1 .. Len(Part(fields[k])) : c[b[k - 1] + i] = Part(fields[k])[i]
             /\ c[b[k]] = Boundary
        /\ \A k \in 0 .. n : 2 <= b[k] /\ b[k] <= b[n]
        /\ Len(c) = b[n] + 2 /\ c[b[n] + 1] = Dashes /\ c[b[n] + 2] = Crlf

Bounds(fields) == CHOOSE b \in [0 .. Len(fields) -> Nat] : Laid(fields, b)

LEMMA PartsJoined ==
    ASSUME NEW fields \in Seq(Fields), NEW n, n = Len(fields)
    PROVE  \E g \in [0 .. n -> Seq(Piece)] :
             /\ g[0] = <<>>
             /\ \A k \in 1 .. n : g[k] = g[k - 1] \o (Part(fields[k]) \o <<Boundary>>)
             /\ Content(fields) = <<Dashes, Boundary>> \o g[n] \o <<Dashes, Crlf>>
<1> DEFINE parts == [i \in DOMAIN fields |-> Part(fields[i]) \o <<Boundary>>]
<1>1. n \in Nat /\ DOMAIN fields = 1 .. n
  OBVIOUS
<1>2. \A i \in 1 .. n : Part(fields[i]) \o <<Boundary>> \in Seq(Piece)
  <2>1. <<Boundary>> \in Seq(Piece)
    BY DEF Piece, Tokens
  <2>2. \A i \in 1 .. n : Part(fields[i]) \in Seq(Piece)
    BY PartIsSequence
  <2> QED
    BY <2>1, <2>2
<1>3. parts \in Seq(Seq(Piece)) /\ Len(parts) = n
  BY <1>1, <1>2
<1>4. \A i \in 1 .. n : parts[i] = Part(fields[i]) \o <<Boundary>>
  BY <1>1
<1>5. Content(fields) = <<Dashes, Boundary>> \o FlattenSeq(parts) \o <<Dashes, Crlf>>
  BY DEF Content
<1> HIDE DEF parts
<1>6. CASE n = 0
  <2> DEFINE g == [k \in 0 .. n |-> <<>>]
  <2>1. parts = <<>>
    BY <1>3, <1>6
  <2>2. FlattenSeq(parts) = <<>>
    BY <2>1 DEF FlattenSeq
  <2>3. g \in [0 .. n -> Seq(Piece)] /\ g[0] = <<>> /\ g[n] = <<>> /\ \A k \in 1 .. n : FALSE
    BY <1>6
  <2> HIDE DEF g
  <2> QED
    BY <1>5, <2>2, <2>3
<1>7. CASE n # 0
  <2>1. parts # <<>>
    BY <1>3, <1>7
  <2>2. PICK f \in [1 .. n -> Seq(Piece)] :
             /\ f[1] = parts[1]
             /\ \A i \in 2 .. n : f[i] = f[i - 1] \o parts[i]
             /\ FlattenSeq(parts) = f[n]
    <3>1. \E f \in [1 .. Len(parts) -> Seq(Piece)] :
             /\ f[1] = parts[1]
             /\ \A i \in 2 .. Len(parts) : f[i] = f[i - 1] \o parts[i]
             /\ FlattenSeq(parts) = f[Len(parts)]
      BY <1>3, <2>1, Flattened
    <3> QED
      BY <1>3, <3>1
  <2> DEFINE g == [k \in 0 .. n |-> IF k = 0 THEN <<>> ELSE f[k]]
  <2>3. g \in [0 .. n -> Seq(Piece)]
    <3>1. \A k \in 0 .. n : k # 0 => k \in 1 .. n
      BY <1>1
    <3> QED
      BY <2>2, <3>1
  <2>4. g[0] = <<>> /\ \A k \in 1 .. n : g[k] = f[k]
    BY <1>1
  <2> HIDE DEF g
  <2>5. ASSUME NEW k \in 1 .. n PROVE g[k] = g[k - 1] \o parts[k]
    <3>1. parts[k] \in Seq(Piece)
      BY <1>3
    <3>2. CASE k = 1
      <4>1. <<>> \o parts[1] = parts[1]
        BY <3>1, <3>2, ConcatEmptySeq
      <4>2. g[1] = f[1] /\ f[1] = parts[1] /\ g[0] = <<>> /\ 1 - 1 = 0
        BY <2>2, <2>4, <3>2
      <4> QED
        BY <3>2, <4>1, <4>2
    <3>3. CASE k # 1
      <4>1. k \in 2 .. n /\ k - 1 \in 1 .. n
        BY <1>1, <3>3
      <4> QED
        BY <2>2, <2>4, <4>1
    <3> QED
      BY <3>2, <3>3
  <2>6. g[n] = f[n]
    BY <1>1, <1>7, <2>4
  <2>7. Content(fields) = <<Dashes, Boundary>> \o g[n] \o <<Dashes, Crlf>>
    BY <1>5, <2>2, <2>6
  <2> QED
    BY <1>4, <2>3, <2>4, <2>5, <2>7
<1> QED
  BY <1>6, <1>7

(* What lies between two pairs. *)
InBetween(c, a, m, z) ==
    /\ Len(m) \in Nat /\ Len(c) = 2 + Len(m) + 2
    /\ c[1] = a[1] /\ c[2] = a[2]
    /\ \A i \in 1 .. Len(m) : c[2 + i] = m[i]
    /\ c[2 + Len(m) + 1] = z[1] /\ c[2 + Len(m) + 2] = z[2]

LEMMA Between ==
    ASSUME NEW S, NEW a \in Seq(S), NEW m \in Seq(S), NEW z \in Seq(S), Len(a) = 2, Len(z) = 2
    PROVE  InBetween(a \o m \o z, a, m, z)
<1> DEFINE b == Glue(a, m)
           c == Glue(b, z)
           n == Len(m)
<1>1. b \in Seq(S) /\ Follows(b, a, m)
  BY Glued
<1>2. n \in Nat
  OBVIOUS
<1>3. c = a \o m \o z
  BY DEF Glue
<1> HIDE DEF b
<1>4. Follows(c, b, z)
  BY <1>1, Glued
<1> HIDE DEF c, n
<1>5. Len(b) = 2 + n /\ Len(c) = 2 + n + 2 /\ Len(m) = n
  BY <1>1, <1>2, <1>4 DEF Follows, n
<1>6. b[1] = a[1] /\ b[2] = a[2] /\ \A i \in 1 .. n : b[2 + i] = m[i]
  BY <1>1, <1>5 DEF Follows
<1>7. \A i \in 1 .. 2 + n : c[i] = b[i]
  BY <1>4, <1>5 DEF Follows
<1>8. 1 \in 1 .. 2 + n /\ 2 \in 1 .. 2 + n /\ \A i \in 1 .. n : 2 + i \in 1 .. 2 + n
  BY <1>2
<1>9. c[1] = a[1] /\ c[2] = a[2] /\ \A i \in 1 .. n : c[2 + i] = m[i]
  BY <1>6, <1>7, <1>8
<1>10. \A i \in 1 .. 2 : c[2 + n + i] = z[i]
  BY <1>4, <1>5 DEF Follows
<1>11. c[2 + n + 1] = z[1] /\ c[2 + n + 2] = z[2]
  BY <1>10
<1>12. InBetween(c, a, m, z)
  BY <1>2, <1>5, <1>9, <1>11 DEF InBetween
<1> QED
  BY <1>3, <1>12

(* A part and the boundary behind it. *)
Ended(t, p) ==
    /\ t \in Seq(Piece) /\ Len(t) = Len(p) + 1 /\ Len(p) \in Nat
    /\ \A i \in 1 .. Len(p) : t[i] = p[i]
    /\ t[Len(p) + 1] = Boundary

LEMMA PartEnded ==
    ASSUME NEW f \in Fields
    PROVE  Ended(Part(f) \o <<Boundary>>, Part(f))
<1> DEFINE p == Part(f)
           z == <<Boundary>>
           t == Glue(p, z)
<1>1. p \in Seq(Piece)
  BY PartIsSequence
<1>2. z \in Seq(Piece) /\ Len(z) = 1 /\ z[1] = Boundary
  BY DEF Piece, Tokens
<1>3. t = p \o z
  BY DEF Glue
<1> HIDE DEF p, z
<1>4. t \in Seq(Piece) /\ Follows(t, p, z)
  BY <1>1, <1>2, Glued
<1> HIDE DEF t
<1>5. Len(p) \in Nat
  BY <1>1
<1>6. Len(t) = Len(p) + 1 /\ \A i \in 1 .. Len(p) : t[i] = p[i]
  BY <1>2, <1>4 DEF Follows
<1>7. t[Len(p) + 1] = Boundary
  BY <1>2, <1>4 DEF Follows
<1>8. Ended(t, p)
  BY <1>4, <1>5, <1>6, <1>7 DEF Ended
<1> QED
  BY <1>3, <1>8 DEF p, z

LEMMA ContentLaid ==
    ASSUME NEW fields \in Seq(Fields)
    PROVE  Bounds(fields) \in [0 .. Len(fields) -> Nat] /\ Laid(fields, Bounds(fields))
<1> DEFINE n == Len(fields)
           c == Content(fields)
<1>1. n \in Nat
  OBVIOUS
<1>2. PICK g \in [0 .. n -> Seq(Piece)] :
             /\ g[0] = <<>>
             /\ \A k \in 1 .. n : g[k] = g[k - 1] \o (Part(fields[k]) \o <<Boundary>>)
             /\ c = <<Dashes, Boundary>> \o g[n] \o <<Dashes, Crlf>>
  BY PartsJoined
<1> DEFINE t == [k \in 1 .. n |-> Part(fields[k]) \o <<Boundary>>]
           b == [k \in 0 .. n |-> 2 + Len(g[k])]
<1>3. ASSUME NEW k \in 1 .. n
      PROVE  /\ t[k] \in Seq(Piece) /\ Len(t[k]) = Len(Part(fields[k])) + 1 /\ Len(Part(fields[k])) \in Nat
             /\ \A i \in 1 .. Len(Part(fields[k])) : t[k][i] = Part(fields[k])[i]
             /\ t[k][Len(Part(fields[k])) + 1] = Boundary
  <2>1. fields[k] \in Fields
    OBVIOUS
  <2>2. Ended(t[k], Part(fields[k]))
    BY <2>1, PartEnded
  <2> HIDE DEF t
  <2> QED
    BY <2>2 DEF Ended
<1>4. t \in [1 .. n -> Seq(Piece)]
  BY <1>3
<1>5. \A k \in 1 .. n : g[k] = g[k - 1] \o t[k]
  BY <1>2
<1>6. \A k \in 0 .. n : b[k] = 2 + Len(g[k]) /\ Len(g[k]) \in Nat /\ g[k] \in Seq(Piece)
  BY <1>2
<1> HIDE DEF n, c, t
<1>7. /\ \A k \in 1 .. n : Len(g[k]) = Len(g[k - 1]) + Len(t[k])
      /\ \A k \in 0 .. n : Len(g[k]) <= Len(g[n]) /\ \A i \in 1 .. Len(g[k]) : g[n][i] = g[k][i]
      /\ \A k \in 1 .. n : \A i \in 1 .. Len(t[k]) : g[n][Len(g[k - 1]) + i] = t[k][i]
  <2>1. Grows(g, t, n)
    BY <1>5 DEF Grows
  <2>2. Grown(g, t, n)
    BY <1>1, <1>4, <2>1, Growing
  <2> QED
    BY <2>2 DEF Grown
<1>8. b \in [0 .. n -> Nat]
  BY <1>6
<1> DEFINE m == g[n]
           r == Len(g[n])
<1>9. n \in 0 .. n /\ 0 \in 0 .. n
  BY <1>1
<1>10. /\ r \in Nat /\ Len(c) = 2 + r + 2 /\ c[1] = Dashes /\ c[2] = Boundary
       /\ \A i \in 1 .. r : c[2 + i] = g[n][i]
       /\ c[2 + r + 1] = Dashes /\ c[2 + r + 2] = Crlf
  <2> DEFINE a == <<Dashes, Boundary>>
             z == <<Dashes, Crlf>>
  <2>1. /\ a \in Seq(Piece) /\ Len(a) = 2 /\ a[1] = Dashes /\ a[2] = Boundary
        /\ z \in Seq(Piece) /\ Len(z) = 2 /\ z[1] = Dashes /\ z[2] = Crlf
    BY DEF Piece, Tokens, Texts
  <2>2. m \in Seq(Piece) /\ c = a \o m \o z
    BY <1>2, <1>6, <1>9
  <2> HIDE DEF a, z, m
  <2>3. /\ Len(m) \in Nat /\ Len(c) = 2 + Len(m) + 2
        /\ c[1] = a[1] /\ c[2] = a[2]
        /\ \A i \in 1 .. Len(m) : c[2 + i] = m[i]
        /\ c[2 + Len(m) + 1] = z[1] /\ c[2 + Len(m) + 2] = z[2]
    <3>1. InBetween(a \o m \o z, a, m, z)
      BY <2>1, <2>2, Between
    <3> QED
      BY <2>2, <3>1 DEF InBetween
  <2> QED
    BY <2>1, <2>3 DEF m
<1> HIDE DEF b, r, m
<1>11. b[0] = 2 /\ b[n] = 2 + r
  <2>1. Len(g[0]) = 0
    BY <1>2
  <2> QED
    BY <1>6, <1>9, <2>1 DEF r
<1>12. \A k \in 0 .. n : 2 <= b[k] /\ b[k] <= b[n]
  <2> SUFFICES ASSUME NEW k \in 0 .. n PROVE 2 <= b[k] /\ b[k] <= b[n]
    OBVIOUS
  <2>1. b[k] = 2 + Len(g[k]) /\ Len(g[k]) \in Nat /\ Len(g[k]) <= r
    BY <1>6, <1>7 DEF r
  <2> DEFINE x == Len(g[k])
  <2>2. b[k] = 2 + x /\ x \in Nat /\ x <= r
    BY <2>1
  <2> HIDE DEF x
  <2> QED
    BY <1>10, <1>11, <2>2
<1>13. ASSUME NEW k \in 1 .. n
       PROVE  /\ b[k] = b[k - 1] + Len(Part(fields[k])) + 1
              /\ \A i \in 1 .. Len(Part(fields[k])) : c[b[k - 1] + i] = Part(fields[k])[i]
              /\ c[b[k]] = Boundary
  <2> DEFINE l == Len(Part(fields[k]))
             x == Len(g[k - 1])
             y == Len(g[k])
             p == Part(fields[k])
  <2>1. k \in 0 .. n /\ k - 1 \in 0 .. n
    BY <1>1
  <2>2. l \in Nat /\ x \in Nat /\ y \in Nat /\ b[k] = 2 + y /\ b[k - 1] = 2 + x /\ Len(t[k]) = l + 1
    BY <1>3, <1>6, <2>1
  <2>3. y = x + Len(t[k])
    BY <1>7
  <2>4. y <= r
    BY <1>7, <2>1 DEF r
  <2>5. \A i \in 1 .. Len(t[k]) : g[n][x + i] = t[k][i]
    BY <1>7
  <2>6. \A i \in 1 .. l : t[k][i] = p[i]
    BY <1>3
  <2>7. t[k][l + 1] = Boundary
    BY <1>3
  <2> HIDE DEF l, x, y, p
  <2>8. \A i \in 1 .. l + 1 : x + i \in 1 .. r /\ i \in 1 .. Len(t[k])
    BY <1>10, <2>2, <2>3, <2>4
  <2>9. \A i \in 1 .. l + 1 : c[2 + (x + i)] = t[k][i]
    BY <1>10, <2>5, <2>8
  <2>10. b[k] = b[k - 1] + l + 1
    BY <2>2, <2>3
  <2>11. ASSUME NEW i \in 1 .. l PROVE c[b[k - 1] + i] = p[i]
    <3>1. i \in 1 .. l + 1 /\ b[k - 1] + i = 2 + (x + i)
      BY <2>2
    <3> QED
      BY <2>6, <2>9, <3>1
  <2>12. c[b[k]] = Boundary
    <3>1. l + 1 \in 1 .. l + 1 /\ b[k] = 2 + (x + (l + 1))
      BY <2>2, <2>3
    <3> QED
      BY <2>7, <2>9, <3>1
  <2> QED
    BY <2>10, <2>11, <2>12 DEF l, p
<1>14. Len(c) = b[n] + 2 /\ c[b[n] + 1] = Dashes /\ c[b[n] + 2] = Crlf
  BY <1>10, <1>11
<1>15. Laid(fields, b)
  BY <1>10, <1>11, <1>12, <1>13, <1>14 DEF Laid, n, c
<1>16. \E d \in [0 .. Len(fields) -> Nat] : Laid(fields, d)
  BY <1>8, <1>15 DEF n
<1> HIDE DEF Laid
<1> QED
  BY <1>16, Zenon DEF Bounds

(* The fields among the first k that have a name of their own. *)
Fresh(fields, i) == \A j \in 1 .. i - 1 : ReadAs(fields[j]).name # ReadAs(fields[i]).name

FirstUpto(fields, k) == {ReadAs(fields[i]) : i \in {i \in 1 .. k : Fresh(fields, i)}}

LEMMA FirstsAll ==
    ASSUME NEW fields \in Seq(Fields)
    PROVE  FirstOf(fields) = FirstUpto(fields, Len(fields))
BY DEF FirstOf, FirstUpto, Fresh

LEMMA FirstsNone ==
    ASSUME NEW fields
    PROVE  FirstUpto(fields, 0) = {}
<1>1. \A i \in 1 .. 0 : FALSE
  OBVIOUS
<1> QED
  BY <1>1 DEF FirstUpto

LEMMA FirstsGrow ==
    ASSUME NEW fields \in Seq(Fields), NEW k \in 0 .. Len(fields)
    PROVE  FirstUpto(fields, k) \subseteq FirstOf(fields)
<1>1. \A i \in 1 .. k : i \in 1 .. Len(fields)
  OBVIOUS
<1> QED
  BY <1>1, FirstsAll DEF FirstUpto

(* Every name has its first field. *)
LEMMA NamesCovered ==
    ASSUME NEW fields, NEW k \in Nat, NEW j \in 1 .. k
    PROVE  \E i \in 1 .. j : Fresh(fields, i) /\ ReadAs(fields[i]).name = ReadAs(fields[j]).name
<1> DEFINE Same == {i \in 1 .. k : ReadAs(fields[i]).name = ReadAs(fields[j]).name}
<1>1. j \in Same /\ Same \in SUBSET Nat
  OBVIOUS
<1>2. Min(Same) \in Same /\ \A x \in Same : Min(Same) <= x
  <2> HIDE DEF Same
  <2> QED
    BY <1>1, LeastOf
<1>3. PICK i \in Same : \A x \in Same : i <= x
  BY <1>2
<1>4. i \in 1 .. k /\ ReadAs(fields[i]).name = ReadAs(fields[j]).name /\ i <= j
  BY <1>1, <1>3
<1>5. ASSUME NEW l \in 1 .. i - 1, ReadAs(fields[l]).name = ReadAs(fields[i]).name PROVE FALSE
  <2>1. l \in 1 .. k /\ l < i
    BY <1>4
  <2>2. l \in Same
    BY <1>4, <1>5, <2>1
  <2>3. i <= l
    BY <1>3, <2>2
  <2> QED
    BY <1>4, <2>1, <2>3
<1>6. Fresh(fields, i)
  BY <1>5 DEF Fresh
<1>7. i \in 1 .. j
  BY <1>4
<1> QED
  BY <1>4, <1>6, <1>7

(* A part behind the first k adds what the browser meant by it, if it is the
   first of its name.                                                         *)
LEMMA FreshHere ==
    ASSUME NEW fields, NEW k \in Nat, NEW l, l = k + 1
    PROVE  Fresh(fields, l) <=> \A b \in FirstUpto(fields, k) : b.name # ReadAs(fields[l]).name
<1>1. ASSUME Fresh(fields, l), NEW b \in FirstUpto(fields, k) PROVE b.name # ReadAs(fields[l]).name
  <2>1. PICK i \in 1 .. k : b = ReadAs(fields[i])
    BY DEF FirstUpto
  <2>2. i \in 1 .. l - 1
    OBVIOUS
  <2> QED
    BY <1>1, <2>1, <2>2 DEF Fresh
<1>2. ASSUME \A b \in FirstUpto(fields, k) : b.name # ReadAs(fields[l]).name PROVE Fresh(fields, l)
  <2> SUFFICES ASSUME NEW j \in 1 .. l - 1 PROVE ReadAs(fields[j]).name # ReadAs(fields[l]).name
    BY DEF Fresh
  <2>1. j \in 1 .. k
    OBVIOUS
  <2>2. PICK i \in 1 .. j : Fresh(fields, i) /\ ReadAs(fields[i]).name = ReadAs(fields[j]).name
    BY <2>1, NamesCovered
  <2>3. i \in 1 .. k
    BY <2>1
  <2>4. ReadAs(fields[i]) \in FirstUpto(fields, k)
    BY <2>2, <2>3 DEF FirstUpto
  <2> QED
    BY <1>2, <2>2, <2>4
<1> QED
  BY <1>1, <1>2

LEMMA FirstsStep ==
    ASSUME NEW fields, NEW k \in Nat, NEW l, l = k + 1
    PROVE  Emplace(FirstUpto(fields, k), {ReadAs(fields[l])}) = FirstUpto(fields, l)
<1>1. \A i : i \in 1 .. l <=> i \in 1 .. k \/ i = l
  OBVIOUS
<1> DEFINE here == {i \in 1 .. k : Fresh(fields, i)}
           then == {i \in 1 .. l : Fresh(fields, i)}
           F(i) == ReadAs(fields[i])
<1>2. CASE Fresh(fields, l)
  <2>1. Emplace(FirstUpto(fields, k), {F(l)}) = FirstUpto(fields, k) \cup {F(l)}
    BY <1>2, FreshHere DEF Emplace
  <2>2. then = here \cup {l}
    BY <1>1, <1>2
  <2>3. FirstUpto(fields, k) = {F(i) : i \in here} /\ FirstUpto(fields, l) = {F(i) : i \in then}
    BY DEF FirstUpto
  <2> HIDE DEF here, then, F
  <2>4. {F(i) : i \in then} = {F(i) : i \in here} \cup {F(l)}
    BY <2>2
  <2> QED
    BY <2>1, <2>3, <2>4 DEF F
<1>3. CASE ~Fresh(fields, l)
  <2>1. Emplace(FirstUpto(fields, k), {F(l)}) = FirstUpto(fields, k)
    BY <1>3, FreshHere DEF Emplace
  <2>2. then = here
    BY <1>1, <1>3
  <2> QED
    BY <2>1, <2>2 DEF FirstUpto
<1> QED
  BY <1>2, <1>3

(* Without a name nothing is read. *)
LEMMA Nameless ==
    ASSUME NEW s \in Seq(Piece), \A i \in 1 .. Len(s) : s[i] # NameIs
    PROVE  ~HasArg(s)
<1>1. Absent(s, 1, NameIs)
  BY DEF Absent
<1>2. NameAt(s) = Len(s) + 1
  BY <1>1, FoundNone DEF NameAt
<1> QED
  BY <1>2 DEF HasArg

(* There is no boundary in a part. *)
LEMMA Unbounded ==
    ASSUME NEW f \in Fields
    PROVE  \A i \in 1 .. Len(Part(f)) : Part(f)[i] # Boundary
<1>1. Part(f) \in Seq(Texts)
  BY PartHasTexts
<1>2. Boundary \notin Texts
  BY TokensDiffer DEF Texts
<1> QED
  BY <1>1, <1>2

(* How many tokens of a form came whole, what came of it, and what is left of
   that behind its first k parts.                                            *)
Cut == Min({limit, Len(Content(form))})

Came == Received(form, tail)

End == Len(Came)

Rest(k) == From(Came, Bounds(form)[k], End)

LEMMA CutIs ==
    ASSUME form \in Forms, limit \in Limits
    PROVE  /\ Cut \in 0 .. Len(Content(form)) /\ Len(Content(form)) \in Nat
           /\ Cut = Len(Content(form)) <=> Len(Content(form)) <= limit
           /\ limit < Len(Content(form)) => Cut = limit
           /\ Came = Upto(Content(form), Cut) \o tail
<1> DEFINE n == Len(Content(form))
<1>1. limit \in Nat /\ n \in Nat
  BY FormsAssumption, ContentIsSequence
<1>2. Cut = IF limit <= n THEN limit ELSE n
  BY <1>1, MinOfTwo DEF Cut
<1>3. Came = Upto(Content(form), Cut) \o tail
  BY DEF Came, Received, Cut
<1> HIDE DEF n
<1>4. Cut \in 0 .. n /\ (Cut = n <=> n <= limit) /\ (limit < n => Cut = limit)
  BY <1>1, <1>2
<1> QED
  BY <1>1, <1>3, <1>4 DEF n

(* What came is what was sent, but for what is left of the token it was cut in. *)
CameAs(w, e, c, n) ==
    /\ w \in Seq(Piece) /\ c \in Seq(Piece) /\ Len(c) \in Nat /\ n \in Nat /\ n <= Len(c)
    /\ Len(w) = e /\ e \in {n, n + 1}
    /\ \A i \in 1 .. n : w[i] = c[i]
    /\ e = n + 1 => n < Len(c) /\ w[e] \in Starts[c[e]] /\ w[e] \notin Tokens

LEMMA CameIs ==
    ASSUME form \in Forms, limit \in Limits, tail \in Tails(form)
    PROVE  CameAs(Came, End, Content(form), Cut) /\ (End = Cut => Came = Upto(Content(form), Cut))
<1> DEFINE c == Content(form)
           n == Cut
           u == Upto(c, n)
           w == Glue(u, tail)
<1>1. c \in Seq(Piece) /\ Len(c) \in Nat /\ n \in 0 .. Len(c) /\ Came = u \o tail
      /\ (limit < Len(c) => n = limit)
  <2>1. form \in Seq(Fields)
    BY FormsAssumption
  <2> QED
    BY <2>1, ContentIsSequence, CutIs
<1>2. /\ tail \in Seq(Stubs) /\ Len(tail) \in {0, 1}
      /\ Len(tail) = 0 => tail = <<>>
      /\ Len(tail) = 1 => limit < Len(c) /\ tail[1] \in Starts[c[limit + 1]]
  BY TailIs
<1>3. tail \in Seq(Piece) /\ \A i \in 1 .. Len(tail) : tail[i] \notin Tokens
  <2>1. \A x \in Stubs : x \in Piece /\ x \notin Tokens
    BY FormsAssumption DEF Piece
  <2>2. \A i \in 1 .. Len(tail) : tail[i] \in Stubs
    BY <1>2
  <2>3. \A i \in 1 .. Len(tail) : tail[i] \in Piece
    BY <2>1, <2>2
  <2> QED
    BY <1>2, <2>1, <2>2, <2>3
<1>4. w = Came /\ End = Len(Came)
  BY <1>1 DEF Glue, End
<1> HIDE DEF c, n
<1>5. u \in Seq(Piece) /\ Len(u) = n /\ \A i \in 1 .. n : u[i] = c[i]
  BY <1>1, UptoIs
<1> HIDE DEF u
<1>6. w \in Seq(Piece) /\ Follows(w, u, tail)
  BY <1>3, <1>5, Glued
<1> HIDE DEF w
<1>7. /\ n \in Nat /\ Len(w) = n + Len(tail) /\ \A i \in 1 .. n : w[i] = c[i]
  BY <1>1, <1>5, <1>6 DEF Follows
<1>8. \A i \in 1 .. Len(tail) : w[n + i] = tail[i]
  BY <1>5, <1>6 DEF Follows
<1>9. CASE Len(tail) = 0
  <2>1. Len(w) = n
    BY <1>7, <1>9
  <2>2. n # n + 1
    BY <1>7
  <2>3. CameAs(w, Len(w), c, n)
    BY <1>1, <1>6, <1>7, <2>1, <2>2 DEF CameAs
  <2>4. w = u
    <3>1. Len(w) = Len(u) /\ \A i \in 1 .. Len(w) : w[i] = u[i]
      BY <1>5, <1>7, <2>1
    <3> QED
      BY <1>5, <1>6, <3>1, SameSequence
  <2> QED
    BY <1>4, <2>3, <2>4 DEF c, n, u
<1>10. CASE Len(tail) = 1
  <2>1. Len(w) = n + 1 /\ w[n + 1] = tail[1] /\ 1 \in 1 .. Len(tail) /\ n # n + 1
    <3>1. 1 \in 1 .. Len(tail)
      BY <1>10
    <3> QED
      BY <1>7, <1>8, <1>10, <3>1
  <2>2. limit < Len(c) /\ n = limit /\ w[n + 1] \in Starts[c[n + 1]] /\ w[n + 1] \notin Tokens
    BY <1>1, <1>2, <1>3, <1>10, <2>1
  <2>3. CameAs(w, Len(w), c, n)
    BY <1>1, <1>6, <1>7, <2>1, <2>2 DEF CameAs
  <2> QED
    BY <1>4, <2>1, <2>3 DEF c, n
<1> QED
  BY <1>2, <1>9, <1>10

(* The bounds of the form that is posted. *)
LEMMA FormLaid ==
    ASSUME form \in Forms
    PROVE  /\ form \in Seq(Fields) /\ Len(form) \in Nat
           /\ Content(form) \in Seq(Piece)
           /\ Laid(form, Bounds(form)) /\ \A k \in 0 .. Len(form) : Bounds(form)[k] \in Nat
BY FormsAssumption, ContentIsSequence, ContentLaid

(* A turn of parse on what was received: there is nothing in front of the first
   boundary.                                                                  *)
LEMMA FirstTurn ==
    ASSUME form \in Forms, limit \in Limits, tail \in Tails(form), contentType = "told", rest = Came
    PROVE  /\ ~HasArg(Chunk)
           /\ BoundaryAt(rest) < Len(rest) => SubSeq(rest, BoundaryAt(rest) + 1, Len(rest)) = Rest(0) /\ 2 < End
           /\ ~(BoundaryAt(rest) < Len(rest)) => Cut <= 2
<1> DEFINE c == Content(form)
           n == Cut
           e == End
<1>1. CameAs(rest, e, c, n) /\ c[1] = Dashes /\ c[2] = Boundary /\ Bounds(form)[0] = 2
  <2>1. c[1] = Dashes /\ c[2] = Boundary /\ Bounds(form)[0] = 2
    BY FormLaid DEF Laid
  <2> QED
    BY <2>1, CameIs
<1> HIDE DEF c, n, e
<1>2. /\ rest \in Seq(Piece) /\ Len(rest) = e /\ n \in Nat /\ e \in Nat /\ e \in {n, n + 1}
      /\ \A i \in 1 .. n : rest[i] = c[i]
      /\ e = n + 1 => rest[e] \notin Tokens
  BY <1>1 DEF CameAs
<1>3. Dashes # Boundary /\ Dashes # NameIs /\ Boundary \in Tokens /\ NameIs \in Tokens
  BY TokensDiffer DEF Tokens, Texts
<1>4. \A i \in 1 .. e : i < 2 \/ n < 2 => rest[i] # Boundary /\ rest[i] # NameIs
  <2> SUFFICES ASSUME NEW i \in 1 .. e, i < 2 \/ n < 2 PROVE rest[i] # Boundary /\ rest[i] # NameIs
    OBVIOUS
  <2>1. (i = 1 /\ i \in 1 .. n) \/ (i = e /\ e = n + 1)
    BY <1>2
  <2>2. CASE i = 1 /\ i \in 1 .. n
    BY <1>1, <1>2, <1>3, <2>2
  <2>3. CASE i = e /\ e = n + 1
    BY <1>2, <1>3, <2>3
  <2> QED
    BY <2>1, <2>2, <2>3
<1>5. BoundaryAt(rest) = IF n < 2 THEN e + 1 ELSE 2
  <2>1. CASE n < 2
    <3>1. Absent(rest, 1, Boundary)
      BY <1>2, <1>4, <2>1 DEF Absent
    <3>2. Search(rest, 1, <<Boundary>>) = Len(rest) + 1
      BY <1>2, <3>1, FoundNone
    <3> QED
      BY <1>2, <2>1, <3>2 DEF BoundaryAt
  <2>2. CASE ~(n < 2)
    <3>1. 2 \in 1 .. n /\ 2 \in 1 .. Len(rest) /\ 1 \in Nat \ {0}
      BY <1>2, <2>2
    <3>2. rest[2] = Boundary
      BY <1>1, <1>2, <3>1
    <3>3. First(rest, 1, Boundary, 2)
      BY <1>2, <1>4, <3>1, <3>2 DEF First
    <3>4. Search(rest, 1, <<Boundary>>) = 2
      BY <1>2, <3>3, FoundFirst
    <3> QED
      BY <2>2, <3>4 DEF BoundaryAt
  <2> QED
    BY <2>1, <2>2
<1>6. ~HasArg(Chunk)
  <2> DEFINE m == BoundaryAt(rest) - 1
  <2>1. m \in 0 .. e /\ (m <= 1 \/ n < 2)
    BY <1>2, <1>5
  <2>2. Chunk = Upto(rest, m)
    BY DEF Chunk
  <2> HIDE DEF m
  <2>3. m \in 0 .. Len(rest)
    BY <1>2, <2>1
  <2>4. Chunk \in Seq(Piece) /\ Len(Chunk) = m /\ \A i \in 1 .. m : Chunk[i] = rest[i]
    BY <1>2, <2>2, <2>3, UptoIs
  <2>5. ASSUME NEW i \in 1 .. Len(Chunk) PROVE Chunk[i] # NameIs
    <3>1. i \in 1 .. m /\ i \in 1 .. e /\ (i < 2 \/ n < 2)
      BY <1>2, <2>1, <2>4
    <3> QED
      BY <1>4, <2>4, <3>1
  <2> QED
    BY <2>4, <2>5, Nameless
<1>7. ASSUME BoundaryAt(rest) < Len(rest)
      PROVE  SubSeq(rest, BoundaryAt(rest) + 1, Len(rest)) = Rest(0) /\ 2 < e
  <2>1. BoundaryAt(rest) = 2 /\ 2 < e
    BY <1>2, <1>5, <1>7
  <2>2. Rest(0) = From(Came, 2, e)
    BY <1>1 DEF Rest, e
  <2> QED
    BY <1>2, <2>1, <2>2 DEF From
<1>8. ~(BoundaryAt(rest) < Len(rest)) => n <= 2
  BY <1>2, <1>5
<1> QED
  BY <1>6, <1>7, <1>8 DEF n, e

(* A turn on what lies behind the last part. *)
LEMMA LastTurn ==
    ASSUME form \in Forms, limit \in Limits, tail \in Tails(form), contentType = "told",
           Bounds(form)[Len(form)] < End, rest = Rest(Len(form))
    PROVE  ~HasArg(Chunk) /\ ~(BoundaryAt(rest) < Len(rest))
<1> DEFINE c == Content(form)
           w == Came
           n == Cut
           e == End
           b == Bounds(form)[Len(form)]
<1>1. /\ CameAs(w, e, c, n) /\ b \in Nat /\ b < e
      /\ Len(c) = b + 2 /\ c[b + 1] = Dashes /\ c[b + 2] = Crlf /\ rest = From(w, b, e)
  <2>1. Len(c) = b + 2 /\ c[b + 1] = Dashes /\ c[b + 2] = Crlf
    BY FormLaid DEF Laid
  <2>2. CameAs(w, e, c, n)
    BY CameIs
  <2>3. b \in Nat
    BY FormLaid
  <2>4. rest = From(w, b, e)
    BY DEF Rest
  <2>5. b < e
    OBVIOUS
  <2> QED
    BY <2>1, <2>2, <2>3, <2>4, <2>5
<1> HIDE DEF c, w, n, e, b
<1>2. /\ w \in Seq(Piece) /\ Len(w) = e /\ n \in Nat /\ e \in Nat /\ e \in {n, n + 1} /\ n <= b + 2
      /\ \A i \in 1 .. n : w[i] = c[i]
      /\ e = n + 1 => n < b + 2 /\ w[e] \notin Tokens
  BY <1>1 DEF CameAs
<1>3. b \in 0 .. e /\ e \in 0 .. Len(w) /\ e - b <= 2 /\ e - b \in Nat
  BY <1>1, <1>2
<1>4. rest \in Seq(Piece) /\ Len(rest) = e - b /\ \A i \in 1 .. e - b : rest[i] = w[b + i]
  <2>1. w \in Seq(Piece) /\ e \in 0 .. Len(w) /\ b \in 0 .. e /\ rest = From(w, b, e)
    BY <1>1, <1>2, <1>3
  <2> QED
    BY <2>1, FromIs
<1>5. \A i \in 1 .. Len(rest) : rest[i] # Boundary /\ rest[i] # NameIs
  <2> SUFFICES ASSUME NEW i \in 1 .. Len(rest) PROVE rest[i] # Boundary /\ rest[i] # NameIs
    OBVIOUS
  <2>1. i \in 1 .. e - b /\ (i = 1 \/ i = 2) /\ (b + i \in 1 .. n \/ (b + i = e /\ e = n + 1))
    BY <1>1, <1>2, <1>3, <1>4
  <2>2. CASE b + i \in 1 .. n
    <3>1. rest[i] \in {Dashes, Crlf}
      BY <1>1, <1>2, <1>4, <2>1, <2>2
    <3> QED
      BY <3>1, TokensDiffer
  <2>3. CASE b + i = e /\ e = n + 1
    <3>1. rest[i] \notin Tokens
      BY <1>2, <1>4, <2>1, <2>3
    <3> QED
      BY <3>1 DEF Tokens, Texts
  <2> QED
    BY <2>1, <2>2, <2>3
<1>6. Absent(rest, 1, Boundary)
  BY <1>5 DEF Absent
<1>7. BoundaryAt(rest) = Len(rest) + 1
  BY <1>4, <1>6, FoundNone DEF BoundaryAt
<1>8. Len(rest) \in Nat
  BY <1>3, <1>4
<1>9. Chunk = rest
  <2>1. BoundaryAt(rest) - 1 = Len(rest)
    BY <1>7, <1>8
  <2> QED
    BY <1>4, <2>1, SubSeqFull DEF Chunk, Upto
<1>10. ~HasArg(Chunk)
  BY <1>4, <1>5, <1>9, Nameless
<1> QED
  BY <1>7, <1>8, <1>10

LEMMA BoundsFit ==
    ASSUME form \in Forms, NEW k \in 0 .. Len(form)
    PROVE  Bounds(form)[k] < Len(Content(form))
<1>1. /\ Bounds(form)[k] <= Bounds(form)[Len(form)]
      /\ Len(Content(form)) = Bounds(form)[Len(form)] + 2
  BY FormLaid DEF Laid
<1>2. Bounds(form)[k] \in Nat /\ Bounds(form)[Len(form)] \in Nat
  BY FormLaid
<1> QED
  BY <1>1, <1>2

(* A turn on a part that came whole, with the boundary behind it. *)
LEMMA PartTurn ==
    ASSUME form \in Forms, limit \in Limits, tail \in Tails(form), contentType = "told",
           NEW k \in 0 .. Len(form) - 1, NEW l, l = k + 1, Bounds(form)[k] < End, rest = Rest(k),
           Bounds(form)[l] <= Cut
    PROVE  /\ Chunk = Part(form[l])
           /\ BoundaryAt(rest) < Len(rest) => SubSeq(rest, BoundaryAt(rest) + 1, Len(rest)) = Rest(l) /\ Bounds(form)[l] < End
           /\ ~(BoundaryAt(rest) < Len(rest)) => Cut < Len(Content(form))
<1> DEFINE c == Content(form)
           w == Came
           n == Cut
           e == End
           b == Bounds(form)[k]
           d == Bounds(form)[l]
           p == Part(form[l])
           m == Len(Part(form[l]))
<1>1. k \in 0 .. Len(form) /\ l \in 0 .. Len(form) /\ l \in 1 .. Len(form) /\ l - 1 = k
  BY FormLaid
<1>2. /\ d = b + m + 1 /\ c[d] = Boundary /\ \A i \in 1 .. m : c[b + i] = p[i]
  BY <1>1, FormLaid DEF Laid
<1>3. CameAs(w, e, c, n)
  BY CameIs
<1>4. b \in Nat /\ d \in Nat /\ b < e /\ d <= n
  BY <1>1, FormLaid
<1>5. form[l] \in Fields
  BY <1>1, FormLaid
<1>6. p \in Seq(Piece) /\ m \in Nat /\ \A i \in 1 .. m : p[i] # Boundary
  BY <1>5, PartIsSequence, Unbounded
<1>7. rest = From(w, b, e)
  BY DEF Rest
<1>8. Len(p) = m
  OBVIOUS
<1>9. d < Len(c)
  BY <1>1, BoundsFit
<1> HIDE DEF c, w, n, e, b, d, p, m
<1>10. /\ w \in Seq(Piece) /\ Len(w) = e /\ n \in Nat /\ e \in Nat /\ n <= e /\ e <= n + 1 /\ n <= Len(c)
       /\ Len(c) \in Nat /\ \A i \in 1 .. n : w[i] = c[i]
  BY <1>3 DEF CameAs
<1>11. /\ b \in 0 .. e /\ e \in 0 .. Len(w) /\ m + 1 \in 1 .. e - b /\ b + (m + 1) = d /\ d \in 1 .. n
       /\ \A i \in 1 .. m : i \in 1 .. e - b /\ b + i \in 1 .. n
  BY <1>2, <1>4, <1>6, <1>10
<1>12. rest \in Seq(Piece) /\ Len(rest) = e - b /\ \A i \in 1 .. e - b : rest[i] = w[b + i]
  <2>1. w \in Seq(Piece) /\ e \in 0 .. Len(w) /\ b \in 0 .. e
    BY <1>10, <1>11
  <2> QED
    BY <1>7, <2>1, FromIs, ZenonT(30)
<1>13. \A i \in 1 .. m : rest[i] = p[i]
  BY <1>2, <1>10, <1>11, <1>12
<1>14. rest[m + 1] = Boundary
  BY <1>2, <1>10, <1>11, <1>12
<1>15. BoundaryAt(rest) = m + 1
  <2>1. m + 1 \in 1 .. Len(rest)
    BY <1>11, <1>12
  <2>2. \A i \in 1 .. Len(rest) : i < m + 1 => rest[i] # Boundary
    <3>1. \A i \in 1 .. Len(rest) : i < m + 1 => i \in 1 .. m
      BY <1>6
    <3> QED
      BY <1>6, <1>13, <3>1
  <2>3. First(rest, 1, Boundary, m + 1)
    BY <1>14, <2>1, <2>2 DEF First
  <2>4. Search(rest, 1, <<Boundary>>) = m + 1
    BY <1>12, <2>3, FoundFirst
  <2> QED
    BY <2>4 DEF BoundaryAt
<1>16. Chunk = p
  <2>1. BoundaryAt(rest) - 1 = m
    BY <1>6, <1>15
  <2>2. Chunk = Upto(rest, m)
    BY <2>1 DEF Chunk
  <2>3. rest \in Seq(Piece) /\ m \in 0 .. Len(rest)
    BY <1>4, <1>6, <1>10, <1>11, <1>12
  <2>4. /\ Upto(rest, m) \in Seq(Piece) /\ Len(Upto(rest, m)) = m
        /\ \A i \in 1 .. m : Upto(rest, m)[i] = rest[i]
    BY <2>3, UptoIs
  <2>5. Len(Upto(rest, m)) = Len(p) /\ \A i \in 1 .. Len(Upto(rest, m)) : Upto(rest, m)[i] = p[i]
    BY <1>8, <1>13, <2>4
  <2>6. Upto(rest, m) = p
    BY <1>6, <2>4, <2>5, SameSequence
  <2> QED
    BY <2>2, <2>6
<1>17. BoundaryAt(rest) < Len(rest) <=> d < e
  <2>1. Len(rest) = e - b /\ BoundaryAt(rest) = m + 1 /\ d = b + (m + 1)
    BY <1>11, <1>12, <1>15
  <2> QED
    BY <1>4, <1>6, <1>10, <2>1
<1>18. ASSUME BoundaryAt(rest) < Len(rest)
       PROVE  SubSeq(rest, BoundaryAt(rest) + 1, Len(rest)) = Rest(l) /\ d < e
  <2> DEFINE x == m + 1
             r == e - b
  <2>1. b \in 0 .. e /\ x \in 0 .. e - b /\ d = b + x /\ r = e - b /\ BoundaryAt(rest) = x /\ Len(rest) = r
    BY <1>11, <1>12, <1>15
  <2> HIDE DEF x, r
  <2>2. From(From(w, b, e), x, r) = From(w, d, e)
    <3>1. w \in Seq(Piece) /\ e \in 0 .. Len(w)
      BY <1>10, <1>11
    <3> QED
      BY <2>1, <3>1, FromFrom
  <2>3. SubSeq(rest, BoundaryAt(rest) + 1, Len(rest)) = From(rest, x, r)
    BY <2>1 DEF From
  <2>4. Rest(l) = From(w, d, e)
    BY DEF Rest, w, d, e
  <2> QED
    BY <1>7, <1>17, <1>18, <2>2, <2>3, <2>4
<1>19. ~(BoundaryAt(rest) < Len(rest)) => n < Len(c)
  BY <1>4, <1>9, <1>10, <1>17
<1> QED
  BY <1>16, <1>18, <1>19 DEF c, d, n, e, p

(* What was cut off at the m-th token of a part, or in the token behind it. *)
LeftOf(part, f, m) == part = Upto(Part(f), m) \/ Stubbed(part, f, m)

(* A turn on a part that was cut, or has lost its boundary. *)
LEMMA CutTurn ==
    ASSUME form \in Forms, limit \in Limits, tail \in Tails(form), contentType = "told",
           NEW k \in 0 .. Len(form) - 1, NEW l, l = k + 1, Bounds(form)[k] < End, rest = Rest(k),
           Cut < Bounds(form)[l]
    PROVE  /\ \E m \in 0 .. Len(Part(form[l])) : LeftOf(Chunk, form[l], m)
           /\ ~(BoundaryAt(rest) < Len(rest))
           /\ Cut < Len(Content(form))
<1> DEFINE f == form[l]
           c == Content(form)
           w == Came
           n == Cut
           e == End
           b == Bounds(form)[k]
           d == Bounds(form)[l]
           p == Part(f)
           m == n - b
<1>1. k \in 0 .. Len(form) /\ l \in 0 .. Len(form) /\ l \in 1 .. Len(form) /\ l - 1 = k
  BY FormLaid
<1>2. d = b + Len(p) + 1 /\ c[d] = Boundary /\ \A i \in 1 .. Len(p) : c[b + i] = p[i]
  BY <1>1, FormLaid DEF Laid
<1>3. CameAs(w, e, c, n)
  BY CameIs
<1>4. b \in Nat /\ d \in Nat /\ b < e /\ n < d
  BY <1>1, FormLaid
<1>5. f \in Fields
  BY <1>1, FormLaid
<1>6. p \in Seq(Piece) /\ Len(p) \in Nat /\ \A i \in 1 .. Len(p) : p[i] # Boundary
  BY <1>5, PartIsSequence, Unbounded
<1>7. rest = From(w, b, e)
  BY DEF Rest
<1>8. d < Len(c)
  BY <1>1, BoundsFit
<1>9. \A i : Token(f, i) = IF i <= Len(p) THEN p[i] ELSE Boundary
  BY DEF Token
<1> HIDE DEF f, c, w, n, e, b, d, p
<1>10. /\ w \in Seq(Piece) /\ Len(w) = e /\ n \in Nat /\ e \in Nat /\ e \in {n, n + 1}
       /\ \A i \in 1 .. n : w[i] = c[i]
       /\ e = n + 1 => w[e] \in Starts[c[e]] /\ w[e] \notin Tokens
  BY <1>3 DEF CameAs
<1>11. /\ b \in 0 .. e /\ e \in 0 .. Len(w) /\ m \in 0 .. Len(p) /\ m \in Nat
       /\ e - b \in {m, m + 1} /\ (e - b = m + 1 <=> e = n + 1) /\ b + (m + 1) = n + 1
       /\ \A i \in 1 .. m : i \in 1 .. e - b /\ i \in 1 .. Len(p) /\ b + i \in 1 .. n
  BY <1>2, <1>4, <1>6, <1>10
<1> HIDE DEF m
<1>12. rest \in Seq(Piece) /\ Len(rest) = e - b /\ \A i \in 1 .. e - b : rest[i] = w[b + i]
  <2>1. w \in Seq(Piece) /\ e \in 0 .. Len(w) /\ b \in 0 .. e
    BY <1>10, <1>11
  <2> QED
    BY <1>7, <2>1, FromIs, ZenonT(30)
<1>13. \A i \in 1 .. m : rest[i] = p[i]
  BY <1>2, <1>10, <1>11, <1>12
<1>14. e = n + 1 => Len(rest) = m + 1 /\ rest[m + 1] = w[e]
  <2> SUFFICES ASSUME e = n + 1 PROVE Len(rest) = m + 1 /\ rest[m + 1] = w[e]
    OBVIOUS
  <2>1. e - b = m + 1 /\ m + 1 \in 1 .. m + 1 /\ b + (m + 1) = e
    BY <1>11
  <2> QED
    BY <1>12, <2>1
<1>15. \A i \in 1 .. Len(rest) : rest[i] # Boundary
  <2> SUFFICES ASSUME NEW i \in 1 .. Len(rest) PROVE rest[i] # Boundary
    OBVIOUS
  <2>1. i \in 1 .. m \/ (i = m + 1 /\ e = n + 1)
    BY <1>11, <1>12
  <2>2. CASE i \in 1 .. m
    BY <1>6, <1>11, <1>13, <2>2
  <2>3. CASE i = m + 1 /\ e = n + 1
    BY <1>10, <1>14, <2>3 DEF Tokens
  <2> QED
    BY <2>1, <2>2, <2>3
<1>16. BoundaryAt(rest) = Len(rest) + 1
  <2>1. Absent(rest, 1, Boundary)
    BY <1>15 DEF Absent
  <2> QED
    BY <1>12, <2>1, FoundNone DEF BoundaryAt
<1>17. Chunk = rest
  <2>1. Len(rest) \in Nat
    BY <1>11, <1>12
  <2>2. BoundaryAt(rest) - 1 = Len(rest)
    BY <1>16, <2>1
  <2> QED
    BY <1>12, <2>2, SubSeqFull DEF Chunk, Upto
<1>18. Upto(p, m) \in Seq(Piece) /\ Len(Upto(p, m)) = m /\ \A i \in 1 .. m : Upto(p, m)[i] = p[i]
  BY <1>6, <1>11, UptoIs
<1>19. ASSUME e = n PROVE LeftOf(Chunk, f, m)
  <2>1. Len(rest) = m
    <3>1. n # n + 1
      BY <1>10
    <3> QED
      BY <1>11, <1>12, <1>19, <3>1
  <2>2. Len(rest) = Len(Upto(p, m)) /\ \A i \in 1 .. Len(rest) : rest[i] = Upto(p, m)[i]
    BY <1>13, <1>18, <2>1
  <2>3. rest = Upto(p, m)
    BY <1>12, <1>18, <2>2, SameSequence
  <2> QED
    BY <1>17, <2>3 DEF LeftOf, p
<1>20. ASSUME e = n + 1 PROVE LeftOf(Chunk, f, m)
  <2>1. Capped(rest, Upto(p, m))
    <3>1. Len(rest) = m + 1 /\ rest[m + 1] \notin Tokens
      BY <1>10, <1>14, <1>20
    <3>2. \A i \in 1 .. m : rest[i] = Upto(p, m)[i]
      BY <1>13, <1>18
    <3> HIDE DEF p
    <3> QED
      BY <1>12, <1>18, <3>1, <3>2 DEF Capped
  <2>2. c[e] = Token(f, m + 1)
    <3>1. CASE m + 1 <= Len(p)
      <4>1. m + 1 \in 1 .. Len(p) /\ b + (m + 1) = e
        BY <1>11, <1>20, <3>1
      <4> QED
        BY <1>2, <1>9, <3>1, <4>1
    <3>2. CASE ~(m + 1 <= Len(p))
      <4>1. e = d
        BY <1>2, <1>4, <1>6, <1>11, <1>20, <3>2
      <4> QED
        BY <1>2, <1>9, <3>2, <4>1
    <3> QED
      BY <3>1, <3>2
  <2>3. rest[m + 1] \in Starts[Token(f, m + 1)]
    BY <1>10, <1>14, <1>20, <2>2
  <2> QED
    BY <1>17, <2>1, <2>3 DEF LeftOf, Stubbed, p
<1>21. \E x \in 0 .. Len(p) : LeftOf(Chunk, f, x)
  BY <1>10, <1>11, <1>19, <1>20
<1>22. ~(BoundaryAt(rest) < Len(rest)) /\ n < Len(c)
  <2>1. Len(rest) \in Nat
    BY <1>11, <1>12
  <2>2. Len(c) \in Nat
    BY <1>3 DEF CameAs
  <2> QED
    BY <1>4, <1>8, <1>10, <1>16, <2>1, <2>2
<1> QED
  BY <1>21, <1>22 DEF c, n, p, f

LEMMA PlainFields ==
    ASSUME NEW fields \in Seq(Fields), Plain(fields), NEW i \in 1 .. Len(fields)
    PROVE  fields[i] \in Fields /\ PlainField(fields[i])
<1>1. i \in DOMAIN fields /\ fields[i] \in Fields
  OBVIOUS
<1>2. ReadAs(fields[i]).value = fields[i].value
  BY <1>1, ReadValue
<1> QED
  BY <1>1, <1>2 DEF Plain, PlainField

(* A value that came whole remains as it is. *)
LEMMA OwnValue ==
    ASSUME NEW f \in Fields
    PROVE  f.value \in Remains(f.value)
<1> DEFINE v == f.value
           n == Len(f.value)
           z == <<Crlf, Dashes, Boundary>>
           w == Glue(v, z)
           u == Upto(w, n)
<1>1. v \in Seq(Texts) /\ n \in Nat /\ Len(v) = n
  BY FieldFacts
<1>2. z \in Seq(Tokens) /\ v \in Seq(Tokens)
  <2>1. z \in Seq(Tokens)
    BY DEF Tokens, Texts
  <2>2. \A x \in Texts : x \in Tokens
    BY DEF Tokens
  <2>3. \A i \in 1 .. Len(v) : v[i] \in Tokens
    BY <1>1, <2>2
  <2> HIDE DEF v
  <2> QED
    BY <1>1, <2>1, <2>3
<1>3. Len(z) = 3 /\ w = v \o z
  BY DEF Glue
<1> HIDE DEF v, n, z
<1>4. w \in Seq(Tokens) /\ Follows(w, v, z)
  BY <1>2, Glued
<1> HIDE DEF w
<1>5. Len(w) = n + 3 /\ n \in 0 .. Len(w) /\ \A i \in 1 .. n : w[i] = v[i]
  BY <1>1, <1>3, <1>4 DEF Follows
<1>6. u \in Seq(Tokens) /\ Len(u) = n /\ \A i \in 1 .. n : u[i] = w[i]
  BY <1>4, <1>5, UptoIs
<1>7. u = v
  <2>1. Len(u) = Len(v) /\ \A i \in 1 .. Len(u) : u[i] = v[i]
    BY <1>1, <1>5, <1>6
  <2> QED
    BY <1>2, <1>6, <2>1, SameSequence
<1>8. n \in 0 .. n + 1
  BY <1>1
<1>9. u \in Remains(v)
  <2>1. u \in {Upto(v \o z, k) : k \in 0 .. n + 1}
    BY <1>3, <1>8 DEF u
  <2> HIDE DEF u
  <2> QED
    BY <2>1 DEF Remains, n, z, v
<1> QED
  BY <1>7, <1>9 DEF v

LEMMA PartRead ==
    ASSUME NEW f \in Fields, PlainField(f), NEW m \in 0 .. Len(Part(f)), ~Reversed(Upto(Part(f), m))
    PROVE  \/ ParseArg(Upto(Part(f), m)) = {}
           \/ \E a : ParseArg(Upto(Part(f), m)) = {a} /\ AsSent(a, f)
<1>1. CASE m = Len(Part(f))
  <2>1. Upto(Part(f), m) = Part(f)
    BY <1>1, PartIsSequence, SubSeqFull DEF Upto
  <2>2. ParseArg(Part(f)) = {ReadAs(f)}
    BY WholePartRead
  <2>3. ReadAs(f).value = f.value
    BY ReadValue
  <2>4. AsSent(ReadAs(f), f)
    BY <2>3, OwnValue DEF AsSent
  <2> QED
    BY <2>1, <2>2, <2>4
<1>2. CASE m # Len(Part(f))
  <2>1. Len(Part(f)) \in Nat
    BY PartIsSequence
  <2>2. m \in 0 .. Len(Part(f)) - 1
    BY <1>2, <2>1
  <2> QED
    BY <2>2, CutPartRead
<1> QED
  BY <1>1, <1>2

-----------------------------------------------------------------------------
(* What was found of a form that was cut: what the browser meant by its first
   fields, and something of the next.                                         *)
Partly(found) ==
    \E k \in 0 .. Len(form) :
        \/ found = FirstUpto(form, k)
        \/ \E l \in 1 .. Len(form) : \E a : /\ l = k + 1 /\ AsSent(a, form[l])
                                               /\ found = Emplace(FirstUpto(form, k), {a})

Found(found) == IF Whole(form) THEN found = FirstOf(form) ELSE Partly(found)

(* Between two turns of parse. *)
Parsed(left, found) ==
    \/ left = Came /\ found = {}
    \/ \E k \in 0 .. Len(form) :
          Bounds(form)[k] < End /\ left = Rest(k) /\ found = FirstUpto(form, k)

LEMMA WholeIs ==
    ASSUME form \in Forms, limit \in Limits, contentType = "told"
    PROVE  Whole(form) <=> Cut = Len(Content(form))
BY CutIs DEF Whole

LEMMA EmplaceNone == ASSUME NEW old PROVE Emplace(old, {}) = old
BY DEF Emplace

NextRest == SubSeq(rest, BoundaryAt(rest) + 1, Len(rest))

LEMMA ToldTurn ==
    ASSUME form \in Forms, limit \in Limits, tail \in Tails(form), contentType = "told", Plain(form),
           Parsed(rest, args)
    PROVE  /\ ~Reversed(Chunk) /\ BoundaryAt(rest) < Len(rest) =>
                Parsed(NextRest, Emplace(args, ParseArg(Chunk)))
           /\ ~Reversed(Chunk) /\ ~(BoundaryAt(rest) < Len(rest)) => Found(Emplace(args, ParseArg(Chunk)))
           /\ Reversed(Chunk) => ~Whole(form) /\ Partly(args)
<1> DEFINE n == Len(form)
           after == Emplace(args, ParseArg(Chunk))
           more == BoundaryAt(rest) < Len(rest)
<1>1. /\ form \in Seq(Fields) /\ n \in Nat /\ 0 \in 0 .. n /\ n \in 0 .. n
      /\ \A k \in 0 .. n : Bounds(form)[k] \in Nat /\ Bounds(form)[k] < Len(Content(form))
      /\ Bounds(form)[0] = 2
  <2>1. form \in Seq(Fields) /\ n \in Nat
    BY FormLaid
  <2>2. \A k \in 0 .. n : Bounds(form)[k] \in Nat /\ Bounds(form)[k] < Len(Content(form))
    BY FormLaid, BoundsFit
  <2>3. Bounds(form)[0] = 2
    BY FormLaid DEF Laid
  <2> QED
    BY <2>1, <2>2, <2>3
<1>2. Cut \in Nat /\ Len(Content(form)) \in Nat /\ (Whole(form) <=> Cut = Len(Content(form)))
  BY CutIs, WholeIs
<1>3. NextRest = SubSeq(rest, BoundaryAt(rest) + 1, Len(rest))
  BY DEF NextRest
<1>4. ~HasArg(Chunk) => ParseArg(Chunk) = {} /\ ~Reversed(Chunk)
  BY DEF ParseArg, Reversed
<1> HIDE DEF n, after, more
<1> USE DEF n
<1>5. CASE rest = Came /\ args = {}
  <2>1. /\ ~HasArg(Chunk) /\ (more => NextRest = Rest(0) /\ 2 < End) /\ (~more => Cut <= 2)
    BY <1>3, <1>5, FirstTurn DEF more
  <2>2. after = FirstUpto(form, 0)
    BY <1>4, <1>5, <2>1, EmplaceNone, FirstsNone DEF after
  <2>3. more => Parsed(NextRest, after)
    BY <1>1, <2>1, <2>2 DEF Parsed
  <2>4. ~more => ~Whole(form)
    BY <1>1, <1>2, <2>1
  <2>5. Partly(after)
    BY <1>1, <2>2 DEF Partly
  <2> QED
    BY <1>4, <2>1, <2>3, <2>4, <2>5 DEF Found, after, more
<1>6. ASSUME NEW k \in 0 .. n, Bounds(form)[k] < End, rest = Rest(k), args = FirstUpto(form, k), k = n
      PROVE  ~Reversed(Chunk) /\ ~more /\ Found(after)
  <2>1. ~HasArg(Chunk) /\ ~more
    BY <1>6, LastTurn DEF more
  <2>2. after = FirstUpto(form, n)
    BY <1>4, <1>6, <2>1, EmplaceNone DEF after
  <2>3. Partly(after) /\ after = FirstOf(form)
    BY <1>1, <2>2, FirstsAll DEF Partly
  <2> QED
    BY <1>4, <2>1, <2>3 DEF Found
<1>7. ASSUME NEW k \in 0 .. n - 1, NEW l \in 1 .. n, l = k + 1, Bounds(form)[k] < End, rest = Rest(k),
             args = FirstUpto(form, k), Bounds(form)[l] <= Cut
      PROVE  ~Reversed(Chunk) /\ (more => Parsed(NextRest, after)) /\ (~more => Found(after))
  <2>1. /\ Chunk = Part(form[l]) /\ (more => NextRest = Rest(l) /\ Bounds(form)[l] < End)
        /\ (~more => Cut < Len(Content(form)))
    BY <1>3, <1>7, PartTurn DEF more
  <2>2. form[l] \in Fields /\ PlainField(form[l])
    BY <1>1, PlainFields
  <2>3. ParseArg(Chunk) = {ReadAs(form[l])} /\ ~Reversed(Chunk)
    BY <2>1, <2>2, WholePartRead
  <2>4. k \in Nat /\ l \in 0 .. n
    BY <1>1
  <2>5. after = FirstUpto(form, l)
    BY <1>7, <2>3, <2>4, FirstsStep DEF after
  <2>6. more => Parsed(NextRest, after)
    BY <2>1, <2>4, <2>5 DEF Parsed
  <2>7. Partly(after)
    BY <2>4, <2>5 DEF Partly
  <2>8. ~more => ~Whole(form)
    BY <1>2, <2>1
  <2> QED
    BY <2>3, <2>6, <2>7, <2>8 DEF Found
<1>8. ASSUME NEW k \in 0 .. n - 1, NEW l \in 1 .. n, l = k + 1, Bounds(form)[k] < End, rest = Rest(k),
             args = FirstUpto(form, k), Cut < Bounds(form)[l]
      PROVE  ~Whole(form) /\ Partly(args) /\ ~more /\ (~Reversed(Chunk) => Found(after))
  <2>1. PICK m \in 0 .. Len(Part(form[l])) : LeftOf(Chunk, form[l], m)
    BY <1>8, CutTurn
  <2>2. ~more /\ Cut < Len(Content(form))
    BY <1>8, CutTurn DEF more
  <2>3. form[l] \in Fields /\ PlainField(form[l])
    BY <1>1, PlainFields
  <2>4. k \in 0 .. n
    BY <1>1
  <2>5. ~Whole(form) /\ Partly(args)
    BY <1>2, <1>8, <2>2, <2>4 DEF Partly
  <2>6. ASSUME ~Reversed(Chunk) PROVE Partly(after)
    <3>1. ParseArg(Chunk) = {} \/ \E a : ParseArg(Chunk) = {a} /\ AsSent(a, form[l])
      BY <2>1, <2>3, <2>6, PartRead, StubPartRead DEF LeftOf
    <3>2. CASE ParseArg(Chunk) = {}
      BY <2>5, <3>2, EmplaceNone DEF after
    <3>3. ASSUME NEW a, ParseArg(Chunk) = {a}, AsSent(a, form[l]) PROVE Partly(after)
      <4>1. after = Emplace(FirstUpto(form, k), {a})
        BY <1>8, <3>3 DEF after
      <4> QED
        BY <1>8, <2>4, <3>3, <4>1 DEF Partly
    <3> QED
      BY <3>1, <3>2, <3>3
  <2> QED
    BY <2>2, <2>5, <2>6 DEF Found
<1>9. ASSUME NEW k \in 0 .. n, Bounds(form)[k] < End, rest = Rest(k), args = FirstUpto(form, k)
      PROVE  /\ ~Reversed(Chunk) /\ more => Parsed(NextRest, after)
             /\ ~Reversed(Chunk) /\ ~more => Found(after)
             /\ Reversed(Chunk) => ~Whole(form) /\ Partly(args)
  <2>1. CASE k = n
    BY <1>6, <1>9, <2>1
  <2>2. CASE k # n
    <3> DEFINE l == k + 1
    <3>1. k \in 0 .. n - 1 /\ l \in 1 .. n /\ l = k + 1 /\ l \in 0 .. n
      BY <1>1, <2>2
    <3> HIDE DEF l
    <3>2. Bounds(form)[l] <= Cut \/ Cut < Bounds(form)[l]
      BY <1>1, <1>2, <3>1
    <3> QED
      BY <1>7, <1>8, <1>9, <3>1, <3>2
  <2> QED
    BY <2>1, <2>2
<1> QED
  BY <1>5, <1>9 DEF Parsed, after, more

(* Behind whose boundary stands a parameter, a form is taken for one part. *)
LEMMA TrailedTurn ==
    ASSUME form \in Forms, limit \in Limits, tail \in Tails(form), contentType = "trailed", rest = Came
    PROVE  /\ ~(BoundaryAt(rest) < Len(rest))
           /\ \A a \in ParseArg(Chunk) : ParseArg(Chunk) = {a} /\ a.name = ReadAs(form[1]).name
<1> DEFINE c == Content(form)
           n == Cut
           e == End
           s == Upto(c, n)
<1>1. CameAs(rest, e, c, n) /\ (e = n => rest = s)
  BY CameIs
<1>2. form \in Seq(Fields) /\ Len(form) \in Nat
  BY FormLaid
<1>3. c[1] = Dashes /\ c[2] = Boundary /\ Bounds(form)[0] = 2
  BY FormLaid DEF Laid
<1> HIDE DEF c, n, e
<1>5. /\ rest \in Seq(Piece) /\ c \in Seq(Piece) /\ Len(c) \in Nat /\ n \in Nat /\ n <= Len(c) /\ n \in 0 .. Len(c)
      /\ e \in Nat /\ Len(rest) = e /\ e \in {n, n + 1} /\ \A i \in 1 .. n : rest[i] = c[i]
      /\ e = n + 1 => rest[e] \notin Tokens
  BY <1>1 DEF CameAs
<1>4. s \in Seq(Piece) /\ Len(s) = n /\ \A i \in 1 .. n : s[i] = c[i]
  BY <1>5, UptoIs
<1> HIDE DEF s
<1>6. BoundaryAt(rest) = e + 1
  BY <1>5 DEF BoundaryAt
<1>7. Chunk = rest
  <2>1. BoundaryAt(rest) - 1 = Len(rest)
    BY <1>5, <1>6
  <2> QED
    BY <1>5, <2>1, SubSeqFull DEF Chunk, Upto
<1>8. ASSUME HasArg(s)
      PROVE  SubSeq(s, NameAt(s) + 1, NameEnd(s) - 1) = ReadAs(form[1]).name
  <2>1. (Len(s) >= 1 => s[1] = Dashes) /\ (Len(s) >= 2 => s[2] = Boundary)
    BY <1>3, <1>4, <1>5
  <2>2. CASE Len(form) = 0
    <3>1. Len(c) = 4 /\ c[3] = Dashes /\ c[4] = Crlf
      <4>1. Len(Content(form)) = Bounds(form)[0] + 2 /\ Content(form)[Bounds(form)[0] + 1] = Dashes
            /\ Content(form)[Bounds(form)[0] + 2] = Crlf
        BY <2>2, FormLaid DEF Laid
      <4> QED
        BY <1>3, <4>1 DEF c
    <3>2. ASSUME NEW i \in 1 .. Len(s) PROVE s[i] # NameIs
      <4>1. i \in 1 .. n /\ i \in {1, 2, 3, 4}
        BY <1>4, <1>5, <3>1
      <4>2. c[i] \in {Dashes, Boundary, Crlf}
        BY <1>3, <3>1, <4>1
      <4> QED
        BY <1>4, <4>1, <4>2, TokensDiffer
    <3> QED
      BY <1>4, <1>8, <3>2, Nameless
  <2>3. CASE Len(form) # 0
    <3> DEFINE f == form[1]
               p == Part(form[1])
    <3>1. 1 \in 1 .. Len(form) /\ f \in Fields /\ 1 - 1 = 0
      BY <1>2, <2>3
    <3>2. \A i \in 1 .. Len(p) : c[2 + i] = p[i]
      <4>1. \A i \in 1 .. Len(Part(form[1])) : Content(form)[Bounds(form)[0] + i] = Part(form[1])[i]
        BY <3>1, FormLaid DEF Laid
      <4> QED
        BY <1>3, <4>1 DEF c
    <3>3. Len(p) \in Nat /\ Len(p) >= 8
      <4>1. Len(p) = HeadLen(f) + Len(f.value) + 2 /\ Len(f.value) \in Nat
        BY <3>1, PartLaid
      <4>2. HeadLen(f) \in {6, 10}
        BY DEF HeadLen
      <4> QED
        BY <4>1, <4>2
    <3> HIDE DEF f, p
    <3>4. \A i \in 1 .. Len(s) : i \in 3 .. 10 => s[i] = p[i - 2]
      <4> SUFFICES ASSUME NEW i \in 1 .. Len(s), i \in 3 .. 10 PROVE s[i] = p[i - 2]
        OBVIOUS
      <4>1. i - 2 \in 1 .. Len(p) /\ 2 + (i - 2) = i /\ i \in 1 .. n
        BY <1>4, <3>3
      <4>2. c[2 + (i - 2)] = p[i - 2]
        BY <3>2, <4>1
      <4> QED
        BY <1>4, <4>1, <4>2
    <3>5. p = Part(f)
      BY DEF p, f
    <3>6. SubSeq(s, NameAt(s) + 1, NameEnd(s) - 1) = ReadAs(f).name
      BY <1>4, <1>8, <2>1, <3>1, <3>4, <3>5, TrailedName
    <3> QED
      BY <3>6 DEF f
  <2> QED
    BY <2>2, <2>3
<1>10. /\ HasArg(rest) => HasArg(s)
       /\ HasArg(rest) => SubSeq(rest, NameAt(rest) + 1, NameEnd(rest) - 1) = SubSeq(s, NameAt(s) + 1, NameEnd(s) - 1)
  <2>1. CASE e = n
    BY <1>1, <2>1
  <2>2. CASE e = n + 1
    <3>1. Capped(rest, s)
      BY <1>4, <1>5, <2>2 DEF Capped
    <3> QED
      BY <3>1, CappedRead
  <2> QED
    BY <1>5, <2>1, <2>2
<1>9. ASSUME NEW a \in ParseArg(Chunk)
      PROVE  ParseArg(Chunk) = {a} /\ a.name = ReadAs(form[1]).name
  <2>1. HasArg(rest)
    BY <1>7, <1>9 DEF ParseArg
  <2> DEFINE r == [name  |-> SubSeq(rest, NameAt(rest) + 1, NameEnd(rest) - 1),
                   file  |-> IF IsFile(rest) THEN SubSeq(rest, FileAt(rest) + 2, FileEnd(rest) - 1) ELSE Nil,
                   value |-> SubSeq(rest, ValueAt(rest) + 2, ValueEnd(rest))]
  <2>2. ParseArg(rest) = {r}
    BY <2>1 DEF ParseArg
  <2>3. r.name = SubSeq(rest, NameAt(rest) + 1, NameEnd(rest) - 1)
    OBVIOUS
  <2> HIDE DEF r
  <2> QED
    BY <1>7, <1>8, <1>9, <1>10, <2>1, <2>2, <2>3
<1> QED
  BY <1>5, <1>6, <1>9

-----------------------------------------------------------------------------
LEMMA SubSeqType ==
    ASSUME NEW S, NEW s \in Seq(S), NEW a \in Nat \ {0}, NEW b \in Int, b <= Len(s)
    PROVE  SubSeq(s, a, b) \in Seq(S)
<1>1. \A i \in a .. b : s[i] \in S
  OBVIOUS
<1>2. a \in Int /\ b \in Int
  OBVIOUS
<1> QED
  BY <1>1, <1>2, SubSeqProperties

(* What is read of a part is of pieces of it. *)
LEMMA ArgumentsTyped ==
    ASSUME NEW part \in Seq(Piece)
    PROVE  ParseArg(part) \subseteq Arguments
<1> DEFINE n == Len(part)
<1>1. n \in Nat
  OBVIOUS
<1>2. Len(<<Quote>>) \in Nat \ {0} /\ Len(<<NameIs>>) \in Nat \ {0} /\ Len(<<File, NameIs>>) \in Nat \ {0}
      /\ Len(<<Crlf, Crlf>>) \in Nat \ {0}
  OBVIOUS
<1>3. NameAt(part) \in 1 .. n + 1
  BY <1>2, SearchRange DEF NameAt
<1>4. NameEnd(part) \in 1 .. n + 1
  <2>1. NameAt(part) + 1 \in Nat \ {0}
    BY <1>3
  <2> QED
    BY <1>2, <2>1, SearchRange DEF NameEnd
<1>5. FileAt(part) \in 1 .. n + 1
  <2>1. NameEnd(part) \in Nat \ {0}
    BY <1>4
  <2> QED
    BY <1>2, <2>1, SearchRange DEF FileAt
<1>6. FileEnd(part) \in 1 .. n + 1
  <2>1. FileAt(part) + 2 \in Nat \ {0}
    BY <1>5
  <2> QED
    BY <1>2, <2>1, SearchRange DEF FileEnd
<1>7. ValueAt(part) \in 1 .. n + 1
  <2>1. (IF IsFile(part) THEN FileEnd(part) ELSE NameEnd(part)) \in Nat \ {0}
    BY <1>4, <1>6
  <2> QED
    BY <1>2, <2>1, SearchRange DEF ValueAt
<1>8. ValueEnd(part) \in Int /\ ValueEnd(part) <= n
  BY <1>1 DEF ValueEnd
<1>9. SubSeq(part, NameAt(part) + 1, NameEnd(part) - 1) \in Seq(Piece)
  <2>1. NameAt(part) + 1 \in Nat \ {0} /\ NameEnd(part) - 1 \in Int /\ NameEnd(part) - 1 <= n
    BY <1>1, <1>3, <1>4
  <2> QED
    BY <2>1, SubSeqType
<1>10. SubSeq(part, FileAt(part) + 2, FileEnd(part) - 1) \in Seq(Piece)
  <2>1. FileAt(part) + 2 \in Nat \ {0} /\ FileEnd(part) - 1 \in Int /\ FileEnd(part) - 1 <= n
    BY <1>1, <1>5, <1>6
  <2> QED
    BY <2>1, SubSeqType
<1>11. SubSeq(part, ValueAt(part) + 2, ValueEnd(part)) \in Seq(Piece)
  <2>1. ValueAt(part) + 2 \in Nat \ {0} /\ ValueEnd(part) \in Int /\ ValueEnd(part) <= n
    BY <1>1, <1>7, <1>8
  <2> QED
    BY <2>1, SubSeqType
<1> DEFINE name == SubSeq(part, NameAt(part) + 1, NameEnd(part) - 1)
           file == IF IsFile(part) THEN SubSeq(part, FileAt(part) + 2, FileEnd(part) - 1) ELSE Nil
           value == SubSeq(part, ValueAt(part) + 2, ValueEnd(part))
<1>12. name \in Seq(Piece) /\ file \in Seq(Piece) \cup {Nil} /\ value \in Seq(Piece)
  BY <1>9, <1>10, <1>11
<1>13. HasArg(part) => ParseArg(part) = {[name |-> name, file |-> file, value |-> value]}
  BY DEF ParseArg
<1>14. ~HasArg(part) => ParseArg(part) = {}
  BY DEF ParseArg
<1> HIDE DEF name, file, value
<1> QED
  BY <1>12, <1>13, <1>14 DEF Arguments

(* What was found of the form that is posted, while it is parsed and after. *)
FormInv ==
    /\ phase = "idle" => args = {}
    /\ phase \in {"parse", "judge", "judged"} =>
        /\ form \in Forms /\ limit \in Limits /\ tail \in Tails(form) /\ contentType \in ContentTypes
        /\ contentType = "other" => args = {} /\ phase # "parse"
        /\ contentType = "trailed" =>
             /\ phase = "parse" => rest = Came /\ args = {}
             /\ \A a \in args : args = {a} /\ a.name = ReadAs(form[1]).name
        /\ (contentType = "told" /\ Plain(form)) =>
             IF phase = "parse" THEN Parsed(rest, args) ELSE Found(args)

Asked == <<limit, form, contentType, tail>>

LEMMA AskedSame ==
    ASSUME UNCHANGED Asked
    PROVE  /\ Came' = Came /\ \A s : (Whole(s))' <=> Whole(s)
           /\ (tail \in Tails(form))' <=> tail \in Tails(form)
           /\ \A s, t : (Parsed(s, t))' <=> Parsed(s, t)
           /\ \A s : (Found(s))' <=> Found(s)
<1>1. limit' = limit /\ form' = form /\ contentType' = contentType /\ tail' = tail
  BY DEF Asked
<1>2. Came' = Came
  BY <1>1 DEF Came, Received
<1>3. \A s : (Whole(s))' <=> Whole(s)
  BY <1>1 DEF Whole
<1>4. Cut' = Cut /\ End' = End
  BY <1>1, <1>2 DEF Cut, End
<1>5. \A k : (Rest(k))' = Rest(k)
  BY <1>1, <1>2, <1>4 DEF Rest
<1>6. \A s, t : (Parsed(s, t))' <=> Parsed(s, t)
  BY <1>1, <1>2, <1>4, <1>5 DEF Parsed
<1>7. \A s : (Partly(s))' <=> Partly(s)
  BY <1>1 DEF Partly
<1>8. \A s : (Found(s))' <=> Found(s)
  BY <1>1, <1>3, <1>7 DEF Found
<1>9. (tail \in Tails(form))' <=> tail \in Tails(form)
  BY <1>1 DEF Tails
<1> QED
  BY <1>2, <1>3, <1>6, <1>8, <1>9

LEMMA FormInductive ==
    ASSUME FormInv, limit \in Limits, [Next]_vars
    PROVE  FormInv'
<1>1. ASSUME NEW f \in Forms, NEW type \in ContentTypes, Post(f, type) PROVE FormInv'
  <2>1. /\ form' = f /\ contentType' = type /\ args' = {} /\ limit' = limit
        /\ phase' = IF type = "other" THEN "judge" ELSE "parse"
        /\ tail' \in Tails(f) /\ rest' = Received(f, tail')
    BY <1>1 DEF Post, FormInv
  <2>2. rest' = Came' /\ (tail \in Tails(form))'
    BY <2>1 DEF Came, Received, Tails
  <2>3. (Parsed(rest, args))'
    BY <2>1, <2>2 DEF Parsed
  <2> QED
    BY <2>1, <2>2, <2>3 DEF FormInv
<1>2. CASE ParsePart
  <2>1. /\ phase = "parse" /\ ~Reversed(Chunk) /\ UNCHANGED Asked
        /\ args' = Emplace(args, ParseArg(Chunk)) /\ rest' = NextRest
        /\ phase' = IF BoundaryAt(rest) < Len(rest) THEN "parse" ELSE "judge"
    BY <1>2 DEF ParsePart, NextRest, Asked
  <2>2. form \in Forms /\ contentType # "other" /\ tail \in Tails(form) /\ (tail \in Tails(form))'
    BY <2>1, AskedSame DEF FormInv
  <2>3. form' = form /\ contentType' = contentType /\ limit' = limit
    BY <2>1 DEF Asked
  <2>4. CASE contentType = "trailed"
    <3>1. rest = Came /\ args = {}
      BY <2>1, <2>4 DEF FormInv
    <3>2. /\ ~(BoundaryAt(rest) < Len(rest))
          /\ \A a \in ParseArg(Chunk) : ParseArg(Chunk) = {a} /\ a.name = ReadAs(form[1]).name
      BY <2>2, <2>4, <3>1, TrailedTurn
    <3>3. args' = ParseArg(Chunk)
      BY <2>1, <3>1 DEF Emplace
    <3> QED
      BY <2>1, <2>2, <2>3, <2>4, <3>2, <3>3 DEF FormInv
  <2>5. CASE contentType = "told" /\ Plain(form)
    <3>1. Parsed(rest, args)
      BY <2>1, <2>2, <2>5 DEF FormInv
    <3>2. CASE BoundaryAt(rest) < Len(rest)
      <4>1. Parsed(NextRest, args')
        BY <2>1, <2>2, <2>5, <3>1, <3>2, ToldTurn
      <4>2. (Parsed(rest, args))'
        BY <2>1, <4>1, AskedSame
      <4> QED
        BY <2>1, <2>2, <2>3, <2>5, <3>2, <4>2 DEF FormInv
    <3>3. CASE ~(BoundaryAt(rest) < Len(rest))
      <4>1. Found(args')
        BY <2>1, <2>2, <2>5, <3>1, <3>3, ToldTurn
      <4>2. (Found(args))'
        BY <2>1, <4>1, AskedSame
      <4> QED
        BY <2>1, <2>2, <2>3, <2>5, <3>3, <4>2 DEF FormInv
    <3> QED
      BY <3>2, <3>3
  <2>6. CASE contentType = "told" /\ ~Plain(form)
    BY <2>1, <2>2, <2>3, <2>6 DEF FormInv
  <2> QED
    BY <2>1, <2>2, <2>3, <2>4, <2>5, <2>6 DEF FormInv
<1>3. CASE ParseFails
  <2>1. phase = "parse" /\ Reversed(Chunk) /\ UNCHANGED Asked /\ args' = args /\ phase' = "judged"
    BY <1>3 DEF ParseFails, Asked
  <2>2. form \in Forms /\ contentType # "other" /\ tail \in Tails(form) /\ (tail \in Tails(form))'
    BY <2>1, AskedSame DEF FormInv
  <2>3. form' = form /\ contentType' = contentType /\ limit' = limit
    BY <2>1 DEF Asked
  <2>4. ASSUME contentType = "told", Plain(form) PROVE (Found(args))'
    <3>1. Parsed(rest, args)
      BY <2>1, <2>2, <2>4 DEF FormInv
    <3>2. Found(args)
      BY <2>1, <2>2, <2>4, <3>1, ToldTurn DEF Found
    <3> QED
      BY <2>1, <3>2, AskedSame
  <2> QED
    BY <2>1, <2>2, <2>3, <2>4 DEF FormInv
<1>4. CASE RenderPost
  <2>1. phase = "judge" /\ phase' = "judged" /\ UNCHANGED Asked /\ args' = args
    BY <1>4 DEF RenderPost, Asked
  <2>2. form' = form /\ contentType' = contentType /\ limit' = limit
    BY <2>1 DEF Asked
  <2>3. (Found(args) <=> (Found(args))') /\ ((tail \in Tails(form))' <=> tail \in Tails(form))
    BY <2>1, AskedSame
  <2> QED
    BY <2>1, <2>2, <2>3 DEF FormInv
<1>5. ASSUME NEW p \in Payloads, SendUrl(p) PROVE FormInv'
  BY <1>5 DEF FormInv, SendUrl
<1>6. ASSUME NEW p \in Payloads, ImageResponse(p) PROVE FormInv'
  BY <1>6 DEF FormInv, ImageResponse
<1>7. ASSUME NEW max \in 1 .. MaxPiece, SendNextPart(max) PROVE FormInv'
  BY <1>7 DEF FormInv, SendNextPart
<1>8. CASE EndOfStream
  BY <1>8 DEF FormInv, EndOfStream
<1>9. CASE Finish
  BY <1>9 DEF FormInv, Finish
<1>10. CASE UNCHANGED vars
  <2>1. UNCHANGED Asked /\ args' = args /\ rest' = rest /\ phase' = phase
    BY <1>10 DEF vars, uploadVars, Asked
  <2>2. form' = form /\ contentType' = contentType /\ limit' = limit
    BY <2>1 DEF Asked
  <2>3. Found(args) <=> (Found(args))'
    BY <2>1, AskedSame
  <2>4. Parsed(rest, args) <=> (Parsed(rest, args))'
    BY <2>1, AskedSame
  <2>5. Came' = Came /\ ((tail \in Tails(form))' <=> tail \in Tails(form))
    BY <2>1, AskedSame
  <2> QED
    BY <2>1, <2>2, <2>3, <2>4, <2>5 DEF FormInv
<1> QED
  BY <1>1, <1>2, <1>3, <1>4, <1>5, <1>6, <1>7, <1>8, <1>9, <1>10 DEF Next, Upload, Download

LEMMA AtMostOne ==
    ASSUME NEW S, NEW a, S \subseteq {a}
    PROVE  Cardinality(S) <= 1
<1>1. S = {} \/ S = {a}
  OBVIOUS
<1>2. CASE S = {}
  BY <1>2, FS_EmptySet
<1>3. CASE S = {a}
  <2>1. Cardinality({a}) = 1
    BY FS_Singleton
  <2> QED
    BY <1>3, <2>1
<1> QED
  BY <1>1, <1>2, <1>3

(* What was found of a form that was cut is, but for one argument, what the
   browser meant.                                                            *)
LEMMA PartlyMeant ==
    ASSUME NEW found, form \in Seq(Fields), Partly(found)
    PROVE  \/ found \subseteq FirstOf(form)
           \/ \E l \in 1 .. Len(form) : \E a :
                /\ AsSent(a, form[l]) /\ ReadAs(form[l]) \in FirstOf(form)
                /\ found \ {a} \subseteq FirstUpto(form, l - 1)
                /\ FirstUpto(form, l - 1) \subseteq FirstOf(form)
<1>1. PICK k \in 0 .. Len(form) :
        \/ found = FirstUpto(form, k)
        \/ \E l \in 1 .. Len(form) : \E a : /\ l = k + 1 /\ AsSent(a, form[l])
                                               /\ found = Emplace(FirstUpto(form, k), {a})
  BY DEF Partly
<1>2. FirstUpto(form, k) \subseteq FirstOf(form)
  BY FirstsGrow
<1>3. CASE found = FirstUpto(form, k)
  BY <1>2, <1>3
<1>4. ASSUME NEW l \in 1 .. Len(form), NEW a, l = k + 1, AsSent(a, form[l]),
             found = Emplace(FirstUpto(form, k), {a})
      PROVE  \/ found \subseteq FirstOf(form)
             \/ /\ AsSent(a, form[l]) /\ ReadAs(form[l]) \in FirstOf(form)
                /\ found \ {a} \subseteq FirstUpto(form, l - 1)
                /\ FirstUpto(form, l - 1) \subseteq FirstOf(form)
  <2>1. k \in Nat /\ l - 1 = k /\ l \in 0 .. Len(form)
    BY <1>4
  <2>2. CASE \E b \in FirstUpto(form, k) : b.name = a.name
    <3>1. found = FirstUpto(form, k)
      BY <1>4, <2>2 DEF Emplace
    <3> QED
      BY <1>2, <3>1
  <2>3. CASE \A b \in FirstUpto(form, k) : b.name # a.name
    <3>1. \A b \in FirstUpto(form, k) : b.name # ReadAs(form[l]).name
      BY <1>4, <2>3 DEF AsSent
    <3>2. Fresh(form, l)
      BY <1>4, <2>1, <3>1, FreshHere
    <3>3. ReadAs(form[l]) \in FirstUpto(form, l)
      BY <2>1, <3>2 DEF FirstUpto
    <3>4. ReadAs(form[l]) \in FirstOf(form)
      BY <2>1, <3>3, FirstsGrow
    <3>5. found \ {a} \subseteq FirstUpto(form, k)
      BY <1>4 DEF Emplace
    <3> QED
      BY <1>2, <1>4, <2>1, <3>4, <3>5
  <2> QED
    BY <2>2, <2>3
<1> QED
  BY <1>1, <1>3, <1>4

LEMMA Understood ==
    ASSUME FormInv
    PROVE  FormUnderstood
<1> SUFFICES ASSUME phase \in {"judge", "judged"}, Plain(form)
    PROVE  CASE contentType = "other"   -> args = {}
             [] contentType = "trailed" -> \A a \in args : args = {a} /\ a.name = ReadAs(form[1]).name
             [] Whole(form)             -> args = FirstOf(form)
             [] contentType = "told" /\ ~Whole(form) ->
                  LET changed == args \ FirstOf(form)
                  IN  /\ Cardinality(changed) <= 1
                      /\ \A a \in changed : \E m \in FirstOf(form) :
                           /\ a.name = m.name /\ a.file = m.file
                           /\ a.value \in Remains(m.value)
  BY DEF FormUnderstood
<1> DEFINE changed == args \ FirstOf(form)
<1>1. form \in Seq(Fields)
  BY FormsAssumption DEF FormInv
<1>2. contentType = "other" => args = {}
  BY DEF FormInv
<1>3. contentType = "trailed" => \A a \in args : args = {a} /\ a.name = ReadAs(form[1]).name
  BY DEF FormInv
<1>4. contentType = "told" => Found(args)
  BY DEF FormInv
<1>5. Whole(form) => contentType = "told" /\ args = FirstOf(form)
  BY <1>4 DEF Found, Whole
<1>6. ASSUME contentType = "told", ~Whole(form)
      PROVE  /\ Cardinality(changed) <= 1
             /\ \A a \in changed : \E m \in FirstOf(form) :
                  /\ a.name = m.name /\ a.file = m.file
                  /\ a.value \in Remains(m.value)
  <2>1. Partly(args)
    BY <1>4, <1>6 DEF Found
  <2>2. CASE args \subseteq FirstOf(form)
    <3>1. changed = {}
      BY <2>2
    <3> QED
      BY <3>1, FS_EmptySet
  <2>3. ASSUME NEW l \in 1 .. Len(form), NEW a, AsSent(a, form[l]), ReadAs(form[l]) \in FirstOf(form),
               args \ {a} \subseteq FirstUpto(form, l - 1), FirstUpto(form, l - 1) \subseteq FirstOf(form)
        PROVE  /\ Cardinality(changed) <= 1
               /\ \A b \in changed : \E m \in FirstOf(form) :
                    /\ b.name = m.name /\ b.file = m.file
                    /\ b.value \in Remains(m.value)
    <3>1. changed \subseteq {a}
      BY <2>3
    <3>2. \A b \in changed : b = a
      BY <3>1
    <3> HIDE DEF changed
    <3>3. Cardinality(changed) <= 1
      BY <3>1, AtMostOne
    <3> QED
      BY <2>3, <3>2, <3>3 DEF AsSent
  <2> QED
    BY <1>1, <2>1, <2>2, <2>3, PartlyMeant
<1> HIDE DEF changed
<1>7. contentType # "told" => ~Whole(form)
  BY DEF Whole
<1>8. contentType \in {"told", "trailed", "other"}
  BY DEF FormInv, ContentTypes
<1> DEFINE T == \A a \in args : args = {a} /\ a.name = ReadAs(form[1]).name
           C == /\ Cardinality(changed) <= 1
                /\ \A a \in changed : \E m \in FirstOf(form) :
                     /\ a.name = m.name /\ a.file = m.file
                     /\ a.value \in Remains(m.value)
<1>9. (contentType = "trailed" => T) /\ (contentType = "told" /\ ~Whole(form) => C)
  BY <1>3, <1>6
<1> HIDE DEF T, C
<1>10. (CASE contentType = "other" -> args = {}
          [] contentType = "trailed" -> T
          [] Whole(form) -> args = FirstOf(form)
          [] contentType = "told" /\ ~Whole(form) -> C)
  <2>1. CASE contentType = "other"
    BY <1>2, <1>7, <2>1
  <2>2. CASE contentType = "trailed"
    BY <1>7, <1>9, <2>2
  <2>3. CASE contentType = "told" /\ Whole(form)
    BY <1>5, <2>3
  <2>4. CASE contentType = "told" /\ ~Whole(form)
    BY <1>9, <2>4
  <2> QED
    BY <1>8, <2>1, <2>2, <2>3, <2>4
<1> QED
  BY <1>10 DEF T, C, changed

Apart == \A a \in args : \A b \in args \ {a} : a.name # b.name

(* What newImage was given is of the arguments, and they fit. *)
Taken(image, width, height, mime) ==
    /\ image \in Named("image") /\ width \in Text("width") /\ height \in Text("height")
    /\ mime \in Text("mime_type")
    /\ image.file # Nil /\ IsNumber(width.value) /\ IsNumber(height.value)
    /\ handed = [name |-> image.file, data |-> image.value, width |-> Head(width.value),
                 height |-> Head(height.value), mime |-> mime.value]

(* The answer is for what was found. *)
VerdictInv ==
    /\ phase # "judged" => answer = Nil /\ handed = Nil
    /\ phase = "judged" =>
        \/ Named("image") = {} /\ answer = 400 /\ handed = Nil
        \/ Named("image") # {} /\ ~CanUpload /\ answer = 500 /\ handed = Nil
        \/ answer = Nil /\ \E image, width, height, mime \in args : Taken(image, width, height, mime)
        \/ answer = 500 /\ handed = Nil /\ (contentType = "told" /\ Plain(form) => ~Whole(form))

LEMMA Only ==
    ASSUME Apart, NEW n, NEW b \in Named(n)
    PROVE  Named(n) = {b} /\ (CHOOSE a \in Named(n) : TRUE) = b
<1>1. \A a \in Named(n) : a = b
  BY DEF Named, Apart
<1>2. (CHOOSE a \in Named(n) : TRUE) \in Named(n)
  BY Zenon
<1> QED
  BY <1>1, <1>2

(* What fits is of the types that newImage takes. *)
LEMMA FitTyped ==
    ASSUME NEW image \in Arguments, NEW width \in Arguments, NEW height \in Arguments, NEW mime \in Arguments,
           image.file # Nil, IsNumber(width.value), IsNumber(height.value)
    PROVE  [name |-> image.file, data |-> image.value, width |-> Head(width.value),
            height |-> Head(height.value), mime |-> mime.value] \in Handed
<1>1. image.file \in Seq(Piece) /\ image.value \in Seq(Piece) /\ mime.value \in Seq(Piece)
  BY DEF Arguments
<1>2. width.value \in Seq(Piece) /\ width.value # <<>> /\ height.value \in Seq(Piece) /\ height.value # <<>>
  BY DEF IsNumber, Arguments
<1>3. Head(width.value) \in Piece /\ Head(height.value) \in Piece
  BY <1>2
<1> QED
  BY <1>1, <1>3 DEF Handed

LEMMA HandedTyped ==
    ASSUME args \subseteq Arguments, NEW image, NEW width, NEW height, NEW mime, Taken(image, width, height, mime)
    PROVE  handed \in Handed
<1>1. image \in Arguments /\ width \in Arguments /\ height \in Arguments /\ mime \in Arguments
  BY DEF Taken, Named, Text
<1> QED
  BY <1>1, FitTyped DEF Taken

(* RenderPost hands over what fits. *)
LEMMA Judges ==
    ASSUME Apart, RenderPost, handed' = NewImage, Named("image") # {}, CanUpload
    PROVE  \E image, width, height, mime \in args :
             /\ image \in Named("image") /\ width \in Text("width") /\ height \in Text("height")
             /\ mime \in Text("mime_type")
             /\ image.file # Nil /\ IsNumber(width.value) /\ IsNumber(height.value)
             /\ handed' = [name |-> image.file, data |-> image.value, width |-> Head(width.value),
                           height |-> Head(height.value), mime |-> mime.value]
<1>1. PICK image \in args : image \in Named("image")
  BY DEF Named
<1>2. PICK width \in args : width \in Text("width")
  BY DEF CanUpload, Text
<1>3. PICK height \in args : height \in Text("height")
  BY DEF CanUpload, Text
<1>4. PICK mime \in args : mime \in Text("mime_type")
  BY DEF CanUpload, Text
<1>5. image.file # Nil /\ IsNumber(width.value) /\ IsNumber(height.value)
  BY <1>1, <1>2, <1>3 DEF CanUpload, Text, Named
<1>6. width \in Named("width") /\ height \in Named("height") /\ mime \in Named("mime_type")
  BY <1>2, <1>3, <1>4 DEF Text, Named
<1>7. /\ (CHOOSE a \in Named("image") : TRUE) = image /\ (CHOOSE a \in Named("width") : TRUE) = width
      /\ (CHOOSE a \in Named("height") : TRUE) = height /\ (CHOOSE a \in Named("mime_type") : TRUE) = mime
  BY <1>1, <1>6, Only
<1>8. NewImage = [name |-> image.file, data |-> image.value, width |-> Head(width.value),
                  height |-> Head(height.value), mime |-> mime.value]
  BY <1>7, Zenon DEF NewImage, ValueOf
<1> QED
  BY <1>1, <1>2, <1>3, <1>4, <1>5, <1>8

LEMMA VerdictInductive ==
    ASSUME VerdictInv, FormInv, Apart, limit \in Limits, [Next]_vars
    PROVE  VerdictInv'
<1>1. ASSUME NEW f \in Forms, NEW type \in ContentTypes, Post(f, type) PROVE VerdictInv'
  BY <1>1 DEF VerdictInv, Post
<1>2. CASE ParsePart
  BY <1>2 DEF VerdictInv, ParsePart
<1>3. CASE ParseFails
  <2>1. /\ phase = "parse" /\ Reversed(Chunk) /\ UNCHANGED Asked /\ phase' = "judged" /\ answer' = 500
        /\ handed' = handed /\ form' = form /\ contentType' = contentType
    BY <1>3 DEF ParseFails, Asked
  <2>2. handed' = Nil
    BY <2>1 DEF VerdictInv
  <2>3. ASSUME contentType = "told", Plain(form) PROVE ~Whole(form)
    BY <2>1, <2>3, ToldTurn DEF FormInv
  <2>4. (Whole(form))' <=> Whole(form)
    BY <2>1 DEF Asked, Whole
  <2> QED
    BY <2>1, <2>2, <2>3, <2>4 DEF VerdictInv
<1>4. CASE RenderPost
  <2>1. phase = "judge" /\ phase' = "judged" /\ args' = args /\ handed = Nil /\ answer = Nil
    BY <1>4 DEF RenderPost, VerdictInv
  <2>2. (Named("image"))' = Named("image") /\ (CanUpload' <=> CanUpload)
    BY <2>1 DEF Named, CanUpload, Text
  <2>3. CASE args = {} \/ Named("image") = {}
    <3>1. Named("image") = {}
      BY <2>3 DEF Named
    <3>2. answer' = 400 /\ handed' = handed
      BY <1>4, <3>1 DEF RenderPost
    <3> QED
      BY <2>1, <2>2, <3>1, <3>2 DEF VerdictInv
  <2>4. CASE Named("image") # {} /\ ~CanUpload
    <3>1. args # {}
      BY <2>4 DEF Named
    <3>2. answer' = 500 /\ handed' = handed
      BY <1>4, <2>4, <3>1 DEF RenderPost
    <3> QED
      BY <2>1, <2>2, <2>4, <3>2 DEF VerdictInv
  <2>5. CASE Named("image") # {} /\ CanUpload
    <3>1. args # {}
      BY <2>5 DEF Named
    <3>2. handed' = NewImage /\ answer' = answer
      BY <1>4, <2>5, <3>1 DEF RenderPost
    <3>3. \E image, width, height, mime \in args' : (Taken(image, width, height, mime))'
      BY <1>4, <2>1, <2>5, <3>2, Judges DEF Taken, Named, Text
    <3> QED
      BY <2>1, <3>2, <3>3 DEF VerdictInv
  <2> QED
    BY <2>3, <2>4, <2>5
<1>5. ASSUME NEW p \in Payloads, SendUrl(p) PROVE VerdictInv'
  BY <1>5 DEF VerdictInv, SendUrl, uploadVars
<1>6. ASSUME NEW p \in Payloads, ImageResponse(p) PROVE VerdictInv'
  BY <1>6 DEF VerdictInv, ImageResponse, uploadVars
<1>7. ASSUME NEW max \in 1 .. MaxPiece, SendNextPart(max) PROVE VerdictInv'
  BY <1>7 DEF VerdictInv, SendNextPart, uploadVars
<1>8. CASE EndOfStream
  BY <1>8 DEF VerdictInv, EndOfStream, uploadVars
<1>9. CASE Finish
  BY <1>9 DEF VerdictInv, Finish
<1>10. CASE UNCHANGED vars
  <2>1. /\ phase' = phase /\ args' = args /\ answer' = answer /\ handed' = handed /\ form' = form
        /\ contentType' = contentType /\ limit' = limit
    BY <1>10 DEF vars, uploadVars
  <2>2. (Named("image"))' = Named("image") /\ (CanUpload' <=> CanUpload)
    BY <2>1 DEF Named, CanUpload, Text
  <2>3. (Whole(form))' <=> Whole(form)
    BY <2>1 DEF Whole
  <2>4. \A image, width, height, mime \in args :
          Taken(image, width, height, mime) => (Taken(image, width, height, mime))'
    BY <2>1 DEF Taken, Named, Text
  <2> QED
    BY <2>1, <2>2, <2>3, <2>4 DEF VerdictInv
<1> QED
  BY <1>1, <1>2, <1>3, <1>4, <1>5, <1>6, <1>7, <1>8, <1>9, <1>10 DEF Next, Upload, Download

(* The fields of the form that is posted. *)
Given(n) == {a \in FirstOf(form) : a.name = <<n>>}
TextOf(n) == {a \in Given(n) : a.file = Nil}
NumberOf(n) == {a \in TextOf(n) : IsNumber(a.value)}

Complete ==
    /\ Given("image") # {} /\ TextOf("image") = {}
    /\ NumberOf("width") # {} /\ NumberOf("height") # {} /\ TextOf("mime_type") # {}

(* The picture is what was sent, or came last. *)
Fits(image) ==
    /\ handed.name = image.file
    /\ Whole(form) =>
         /\ handed.data = image.value
         /\ \A a \in Given("width") : handed.width = Head(a.value)
         /\ \A a \in Given("height") : handed.height = Head(a.value)
         /\ \A a \in Given("mime_type") : handed.mime = a.value
    /\ \/ handed.data = image.value
       \/ \E i \in DOMAIN form :
            /\ ReadAs(form[i]) = image
            /\ \A n \in {"width", "height", "mime_type"} :
                 \E j \in 1 .. i - 1 : ReadAs(form[j]).name = <<n>>

LEMMA WordsDiffer ==
    <<"image">> # <<"width">> /\ <<"image">> # <<"height">> /\ <<"image">> # <<"mime_type">>
<1>1. "image" # "width" /\ "image" # "height" /\ "image" # "mime_type"
  OBVIOUS
<1>2. \A x, y : <<x>> = <<y>> => x = y
  <2> SUFFICES ASSUME NEW x, NEW y, <<x>> = <<y>> PROVE x = y
    OBVIOUS
  <2>1. <<x>>[1] = x /\ <<y>>[1] = y
    OBVIOUS
  <2> QED
    BY <2>1
<1> QED
  BY <1>1, <1>2

LEMMA TakenFits ==
    ASSUME Apart, NEW image, NEW width, NEW height, NEW mime, Taken(image, width, height, mime)
    PROVE  Named("image") # {} /\ CanUpload
<1>1. Named("image") = {image}
  BY Only DEF Taken
<1>2. width \in Named("width") /\ height \in Named("height")
  BY DEF Taken, Text, Named
<1>3. Named("width") = {width} /\ Named("height") = {height}
  BY <1>2, Only
<1>4. Text("image") = {}
  BY <1>1 DEF Text, Named, Taken
<1>5. Text("width") # {} /\ Text("height") # {} /\ Text("mime_type") # {}
  BY DEF Taken
<1>6. \A a \in Text("width") : IsNumber(a.value)
  BY <1>3 DEF Text, Named, Taken
<1>7. \A a \in Text("height") : IsNumber(a.value)
  BY <1>3 DEF Text, Named, Taken
<1> QED
  BY <1>1, <1>4, <1>5, <1>6, <1>7 DEF CanUpload

LEMMA WholeComplete ==
    ASSUME Apart, args = FirstOf(form)
    PROVE  /\ \A n : Given(n) = Named(n) /\ TextOf(n) = Text(n)
           /\ Complete <=> Named("image") # {} /\ CanUpload
<1>1. \A n : Given(n) = Named(n)
  BY DEF Given, Named
<1>2. \A n : TextOf(n) = Text(n)
  BY DEF Given, Text, TextOf
<1>3. ASSUME NEW n, NEW b \in NumberOf(n), NEW a \in Text(n) PROVE IsNumber(a.value)
  <2>1. b \in Text(n) /\ IsNumber(b.value)
    BY <1>2 DEF NumberOf
  <2>2. a = b
    BY <2>1 DEF Text, Apart
  <2> QED
    BY <2>1, <2>2
<1>4. ASSUME Complete PROVE Named("image") # {} /\ CanUpload
  <2>1. \A n \in {"width", "height"} : NumberOf(n) # {}
    BY <1>4 DEF Complete
  <2>2. \A n \in {"width", "height"} : Text(n) # {} /\ \A a \in Text(n) : IsNumber(a.value)
    BY <1>2, <1>3, <2>1 DEF NumberOf
  <2>3. Text("mime_type") # {} /\ Text("image") = {} /\ Named("image") # {}
    BY <1>1, <1>2, <1>4 DEF Complete
  <2> QED
    BY <2>2, <2>3 DEF CanUpload
<1>5. ASSUME Named("image") # {}, CanUpload PROVE Complete
  <2>1. \A n \in {"width", "height"} : NumberOf(n) # {}
    BY <1>2, <1>5 DEF CanUpload, NumberOf
  <2> QED
    BY <1>1, <1>2, <1>5, <2>1 DEF Complete, CanUpload
<1> QED
  BY <1>1, <1>2, <1>4, <1>5

(* Of a form that was cut the picture came last, if it is not what was sent. *)
LEMMA CutFits ==
    ASSUME form \in Seq(Fields), ~Whole(form), Partly(args),
           NEW image, NEW width, NEW height, NEW mime, Taken(image, width, height, mime)
    PROVE  \E m \in Given("image") : Fits(m)
<1>1. /\ image \in args /\ image.name = <<"image">> /\ handed.name = image.file /\ handed.data = image.value
      /\ width \in args /\ width.name = <<"width">> /\ height \in args /\ height.name = <<"height">>
      /\ mime \in args /\ mime.name = <<"mime_type">>
  BY DEF Taken, Named, Text
<1>2. ASSUME image \in FirstOf(form) PROVE image \in Given("image") /\ Fits(image)
  BY <1>1, <1>2 DEF Given, Fits
<1>3. ASSUME NEW l \in 1 .. Len(form), AsSent(image, form[l]), ReadAs(form[l]) \in FirstOf(form),
             args \ {image} \subseteq FirstUpto(form, l - 1)
      PROVE  ReadAs(form[l]) \in Given("image") /\ Fits(ReadAs(form[l]))
  <2>1. ReadAs(form[l]) \in Given("image") /\ handed.name = ReadAs(form[l]).file
    BY <1>1, <1>3 DEF AsSent, Given
  <2>2. ASSUME NEW c \in args, c.name # image.name PROVE \E j \in 1 .. l - 1 : ReadAs(form[j]).name = c.name
    <3>1. c \in FirstUpto(form, l - 1)
      BY <1>3, <2>2
    <3> QED
      BY <3>1 DEF FirstUpto
  <2>3. \A n \in {"width", "height", "mime_type"} : \E j \in 1 .. l - 1 : ReadAs(form[j]).name = <<n>>
    BY <1>1, <2>2, WordsDiffer
  <2>4. l \in DOMAIN form
    OBVIOUS
  <2> QED
    BY <2>1, <2>3, <2>4 DEF Fits
<1>4. CASE args \subseteq FirstOf(form)
  BY <1>1, <1>2, <1>4
<1>5. ASSUME NEW l \in 1 .. Len(form), NEW a,
             AsSent(a, form[l]), ReadAs(form[l]) \in FirstOf(form),
             args \ {a} \subseteq FirstUpto(form, l - 1), FirstUpto(form, l - 1) \subseteq FirstOf(form)
      PROVE  \E m \in Given("image") : Fits(m)
  <2>1. CASE image = a
    BY <1>3, <1>5, <2>1
  <2>2. CASE image # a
    BY <1>1, <1>2, <1>5, <2>2
  <2> QED
    BY <2>1, <2>2
<1> QED
  BY <1>4, <1>5, PartlyMeant

LEMMA WholeFits ==
    ASSUME Apart, args = FirstOf(form),
           NEW image, NEW width, NEW height, NEW mime, Taken(image, width, height, mime)
    PROVE  \E m \in Given("image") : Fits(m)
<1>1. \A n : Given(n) = Named(n)
  BY WholeComplete
<1>2. image \in Named("image") /\ width \in Named("width") /\ height \in Named("height") /\ mime \in Named("mime_type")
  BY DEF Taken, Text, Named
<1>3. Named("width") = {width} /\ Named("height") = {height} /\ Named("mime_type") = {mime}
  BY <1>2, Only
<1>4. /\ handed.name = image.file /\ handed.data = image.value /\ handed.width = Head(width.value)
      /\ handed.height = Head(height.value) /\ handed.mime = mime.value
  BY DEF Taken
<1> QED
  BY <1>1, <1>2, <1>3, <1>4 DEF Fits

LEMMA Judged ==
    ASSUME FormInv, VerdictInv, Apart, args \subseteq Arguments
    PROVE  UploadsJudged
<1>1. ASSUME phase = "judged", Plain(form)
      PROVE  /\ Whole(form) =>
                  /\ answer = IF Given("image") = {} THEN 400 ELSE IF Complete THEN Nil ELSE 500
                  /\ handed # Nil <=> Complete
             /\ (contentType = "told" /\ handed # Nil) => \E m \in Given("image") : Fits(m)
  <2>1. form \in Seq(Fields)
    BY <1>1, FormsAssumption DEF FormInv
  <2>2. contentType = "told" => Found(args)
    BY <1>1 DEF FormInv
  <2>3. Whole(form) => contentType = "told" /\ args = FirstOf(form)
    BY <2>2 DEF Found, Whole
  <2>4. ASSUME NEW image \in args, NEW width \in args, NEW height \in args, NEW mime \in args,
               Taken(image, width, height, mime)
        PROVE  handed # Nil
    <3>1. handed \in Handed
      BY <2>4, HandedTyped
    <3> QED
      BY <3>1, TransfersAssumption
  <2>5. ASSUME Whole(form)
        PROVE  /\ answer = IF Given("image") = {} THEN 400 ELSE IF Complete THEN Nil ELSE 500
               /\ handed # Nil <=> Complete
    <3>1. /\ \A n : Given(n) = Named(n)
          /\ Complete <=> Named("image") # {} /\ CanUpload
      BY <2>3, <2>5, WholeComplete
    <3>2. CASE Named("image") = {} /\ answer = 400 /\ handed = Nil
      BY <3>1, <3>2
    <3>3. CASE Named("image") # {} /\ ~CanUpload /\ answer = 500 /\ handed = Nil
      BY <3>1, <3>3
    <3>4. ASSUME answer = Nil, NEW image \in args, NEW width \in args, NEW height \in args, NEW mime \in args,
                 Taken(image, width, height, mime)
          PROVE  /\ answer = IF Given("image") = {} THEN 400 ELSE IF Complete THEN Nil ELSE 500
                 /\ handed # Nil <=> Complete
      <4>1. Named("image") # {} /\ CanUpload
        BY <3>4, TakenFits
      <4>2. Complete /\ Given("image") # {}
        BY <3>1, <4>1
      <4>3. handed # Nil
        BY <2>4, <3>4
      <4> QED
        BY <3>4, <4>2, <4>3
    <3> QED
      BY <1>1, <2>3, <2>5, <3>2, <3>3, <3>4 DEF VerdictInv
  <2>6. ASSUME contentType = "told", handed # Nil PROVE \E m \in Given("image") : Fits(m)
    <3>1. PICK image \in args, width \in args, height \in args, mime \in args :
            Taken(image, width, height, mime)
      BY <1>1, <2>6 DEF VerdictInv
    <3>2. CASE Whole(form)
      BY <2>3, <3>1, <3>2, WholeFits
    <3>3. CASE ~Whole(form)
      BY <2>1, <2>2, <2>6, <3>1, <3>3, CutFits DEF Found
    <3> QED
      BY <3>2, <3>3
  <2> QED
    BY <2>5, <2>6
<1> QED
  BY <1>1 DEF UploadsJudged, Complete, Fits, Given, TextOf, NumberOf

-----------------------------------------------------------------------------
(* The position is inside the picture that is being sent, and what was sent is
   what lies before it.                                                       *)
StreamInv ==
    phase \in {"send", "sent"} =>
        /\ payload \in Payloads
        /\ position \in 0 .. Len(payload)
        /\ received = Upto(payload, position)
        /\ phase = "sent" => position = Len(payload)

LEMMA PayloadsAreSequences == \A p \in Payloads : p \in Seq(0 .. 255) /\ Len(p) \in Nat
<1> QED
  BY TransfersAssumption

(* What sendNextPart copies is no more than the web server asks for, and no more
   than is left.                                                              *)
LEMMA CountFits ==
    ASSUME payload \in Payloads, position \in 0 .. Len(payload), NEW max \in 1 .. MaxPiece
    PROVE  position + Count(max) \in position .. Len(payload)
<1>1. Len(payload) \in Nat /\ max \in Nat /\ position \in Nat
  BY PayloadsAreSequences, TransfersAssumption
<1>2. Len(payload) - position \in Nat
  BY <1>1
<1>3. Count(max) = IF Len(payload) - position <= max THEN Len(payload) - position ELSE max
  BY <1>1, <1>2, MinOfTwo DEF Count
<1> QED
  BY <1>1, <1>2, <1>3

LEMMA InitStream == Init => StreamInv
<1> QED
  BY DEF Init, StreamInv

LEMMA StreamInductive == StreamInv /\ [Next]_vars => StreamInv'
<1> SUFFICES ASSUME StreamInv, [Next]_vars PROVE StreamInv'
  OBVIOUS
<1>1. ASSUME NEW f \in Forms, NEW type \in ContentTypes, Post(f, type) PROVE StreamInv'
  BY <1>1 DEF StreamInv, Post
<1>2. CASE ParsePart
  BY <1>2 DEF StreamInv, ParsePart
<1>10. CASE ParseFails
  BY <1>10 DEF StreamInv, ParseFails
<1>3. CASE RenderPost
  BY <1>3 DEF StreamInv, RenderPost
<1>4. ASSUME NEW p \in Payloads, SendUrl(p) PROVE StreamInv'
  BY <1>4 DEF StreamInv, SendUrl
<1>5. ASSUME NEW p \in Payloads, ImageResponse(p) PROVE StreamInv'
  <2>1. payload' \in Payloads /\ position' = 0 /\ received' = <<>> /\ phase' = "send"
    BY <1>5 DEF ImageResponse
  <2>2. Upto(payload', 0) = <<>>
    BY SubSeqEmpty DEF Upto
  <2>3. 0 \in 0 .. Len(payload')
    BY <2>1, PayloadsAreSequences
  <2> QED
    BY <2>1, <2>2, <2>3 DEF StreamInv
<1>6. ASSUME NEW max \in 1 .. MaxPiece, SendNextPart(max) PROVE StreamInv'
  <2> DEFINE next == position + Count(max)
  <2>1. /\ phase = "send" /\ phase' = "send" /\ payload' = payload
        /\ position' = next
        /\ received' = received \o SubSeq(payload, position + 1, next)
    BY <1>6 DEF SendNextPart
  <2>2. /\ payload \in Payloads /\ position \in 0 .. Len(payload)
        /\ received = Upto(payload, position)
    BY <2>1 DEF StreamInv
  <2>3. next \in position .. Len(payload)
    BY <2>2, CountFits
  <2>4. payload \in Seq(0 .. 255) /\ Len(payload) \in Nat
    BY <2>2, PayloadsAreSequences
  <2> HIDE DEF next
  <2>5. SubSeq(payload, 1, position) \o SubSeq(payload, position + 1, next)
          = SubSeq(payload, 1, next)
    BY <2>2, <2>3, <2>4, ConcatAdjacentSubSeq
  <2>6. received' = Upto(payload', position')
    BY <2>1, <2>2, <2>5 DEF Upto
  <2>7. position' \in 0 .. Len(payload')
    BY <2>1, <2>2, <2>3, <2>4
  <2> QED
    BY <2>1, <2>2, <2>6, <2>7 DEF StreamInv
<1>7. CASE EndOfStream
  <2>1. /\ phase = "send" /\ position >= Len(payload)
        /\ payload' = payload /\ position' = position /\ received' = received
    BY <1>7 DEF EndOfStream, NothingLeft, downloadVars
  <2>2. Len(payload) \in Nat
    BY <2>1, PayloadsAreSequences DEF StreamInv
  <2> QED
    BY <2>1, <2>2 DEF StreamInv, Upto
<1>8. CASE Finish
  BY <1>8 DEF StreamInv, Finish
<1>9. CASE UNCHANGED vars
  BY <1>9 DEF StreamInv, vars, downloadVars, Upto
<1> QED
  BY <1>1, <1>2, <1>3, <1>4, <1>5, <1>6, <1>7, <1>8, <1>9, <1>10 DEF Next, Upload, Download

(* ImageResponse sends every picture whole and unchanged, whatever pieces the
   web server asks for (ImageResponse.cpp:33-46).                            *)
THEOREM SentWhole == Spec => []StreamWhole
<1>1. StreamInv => StreamWhole
  <2> SUFFICES ASSUME StreamInv, phase \in {"send", "sent"} PROVE StreamWhole
    BY DEF StreamWhole
  <2>1. /\ payload \in Seq(0 .. 255) /\ received = Upto(payload, position)
        /\ phase = "sent" => position = Len(payload)
    BY PayloadsAreSequences DEF StreamInv
  <2>2. Upto(payload, Len(payload)) = payload
    BY <2>1, SubSeqFull DEF Upto
  <2> QED
    BY <2>1, <2>2 DEF StreamWhole
<1> QED
  BY <1>1, InitStream, StreamInductive, PTL DEF Spec

-----------------------------------------------------------------------------
(* A data URL is made of a picture. *)
UrlInv == phase = "url" => payload \in Payloads /\ received = Encode(payload)

LEMMA UrlInductive == UrlInv /\ [Next]_vars => UrlInv'
<1> SUFFICES ASSUME UrlInv, [Next]_vars PROVE UrlInv'
  OBVIOUS
<1>1. ASSUME NEW f \in Forms, NEW type \in ContentTypes, Post(f, type) PROVE UrlInv'
  BY <1>1 DEF UrlInv, Post
<1>2. CASE ParsePart
  BY <1>2 DEF UrlInv, ParsePart
<1>10. CASE ParseFails
  BY <1>10 DEF UrlInv, ParseFails
<1>3. CASE RenderPost
  BY <1>3 DEF UrlInv, RenderPost
<1>4. ASSUME NEW p \in Payloads, SendUrl(p) PROVE UrlInv'
  BY <1>4 DEF UrlInv, SendUrl
<1>5. ASSUME NEW p \in Payloads, ImageResponse(p) PROVE UrlInv'
  BY <1>5 DEF UrlInv, ImageResponse
<1>6. ASSUME NEW max \in 1 .. MaxPiece, SendNextPart(max) PROVE UrlInv'
  BY <1>6 DEF UrlInv, SendNextPart
<1>7. CASE EndOfStream
  BY <1>7 DEF UrlInv, EndOfStream
<1>8. CASE Finish
  BY <1>8 DEF UrlInv, Finish
<1>9. CASE UNCHANGED vars
  BY <1>9 DEF UrlInv, vars, downloadVars
<1> QED
  BY <1>1, <1>2, <1>3, <1>4, <1>5, <1>6, <1>7, <1>8, <1>9, <1>10 DEF Next, Upload, Download

(* A data URL is, by the meaning of base64, the picture it was made of, and from
   one to four blanks; Base64::decode gives the picture back with a zero for
   every mark of padding (ImageController.cpp:29, base64.cpp:37-117).           *)
THEOREM UrlsDecode == Spec => []UrlDecodes
<1>1. Init => UrlInv
  BY DEF Init, UrlInv
<1>2. UrlInv => UrlDecodes
  <2> SUFFICES ASSUME UrlInv, phase = "url" PROVE UrlDecodes
    BY DEF UrlDecodes
  <2> DEFINE n == Len(payload)
             m == Blocks(n)
  <2>1. payload \in Seq(Byte) /\ received = Encode(payload) /\ n \in Nat
    BY PayloadsAreSequences DEF UrlInv, Byte
  <2> HIDE DEF n
  <2>2. m \in Nat
    BY <2>1, BlockCount
  <2> HIDE DEF m
  <2>3. BytesOf(At(received, {i \in DOMAIN received : received[i] < Pad})) = payload
    BY <2>1, MeaningKept
  <2>4. Decode(received) = payload \o Zeros(Cardinality(Marks(received)))
    BY <2>1, DecodesBack
  <2>5. /\ {i \in DOMAIN received : received[i] = Blank} = 4 * m + 1 .. Room(n)
        /\ Room(n) \in Nat /\ Room(n) - 4 * m \in 1 .. 4
    BY <2>1, <2>2, Counted DEF n, m
  <2>6. Len(received) = Room(n)
    BY <2>1, <2>2, Encoded DEF n, m
  <2> DEFINE blanks == Cardinality({i \in DOMAIN received : received[i] = Blank})
  <2>7. blanks = Room(n) - 4 * m
    <3> DEFINE r == Room(n)
               f == 4 * m
    <3>1. r \in Nat /\ f \in Nat /\ r - f \in 1 .. 4 /\ blanks = Cardinality(f + 1 .. r)
      <4>1. r \in Nat /\ r - f \in 1 .. 4
        BY <2>5
      <4>2. f \in Nat
        BY <2>2
      <4>3. blanks = Cardinality(f + 1 .. r)
        BY <2>5
      <4> QED
        BY <4>1, <4>2, <4>3
    <3> HIDE DEF r, f, blanks
    <3>2. f + 1 \in Int /\ r \in Int /\ ~(f + 1 > r) /\ r - (f + 1) + 1 = r - f
      BY <3>1
    <3>3. Cardinality(f + 1 .. r) = r - f
      BY <3>2, FS_Interval
    <3>4. blanks = r - f
      BY <3>1, <3>3
    <3> QED
      BY <3>4 DEF r, f
  <2> HIDE DEF blanks
  <2>8. (Len(received) - blanks) % 4 = 0 /\ blanks \in 1 .. 4
    <3>1. Len(received) - blanks = 4 * m
      BY <2>2, <2>5, <2>6, <2>7
    <3>2. (4 * m) % 4 = 0
      BY <2>2
    <3> QED
      BY <2>5, <2>7, <3>1, <3>2
  <2> QED
    BY <2>3, <2>4, <2>8 DEF UrlDecodes, blanks
<1> QED
  BY <1>1, <1>2, UrlInductive, PTL DEF Spec

-----------------------------------------------------------------------------
(* Besides the types: what is left of a content is one, a picture that is not
   being sent has no position, and what was sent is a part of the picture.    *)
TypeInv ==
    /\ TypeOK
    /\ rest \in Seq(Piece)
    /\ phase \notin {"send", "sent"} => position = 0
    /\ StreamInv

LEMMA ElementsOf ==
    ASSUME NEW S, NEW s \in Seq(S)
    PROVE  \A i \in DOMAIN s : s[i] \in S
<1> QED
  OBVIOUS

LEMMA InitTypes == Init => TypeInv
<1> SUFFICES ASSUME Init PROVE TypeInv
  OBVIOUS
<1>1. limit \in Nat
  BY FormsAssumption DEF Init
<1>2. Len(rest) <= limit + Len(tail) /\ rest \in Seq(Piece)
  BY <1>1 DEF Init
<1>3. \A i \in DOMAIN received : received[i] \in 0 .. 255
  BY DEF Init
<1> QED
  BY <1>2, <1>3, InitStream DEF Init, TypeInv, TypeOK

(* Of two arguments of one name, which parse never keeps, the first stays. *)
LEMMA NamesStayApart ==
    ASSUME NEW old, NEW part, \A a \in old : \A b \in old \ {a} : a.name # b.name
    PROVE  \A a \in Emplace(old, ParseArg(part)) :
             \A b \in Emplace(old, ParseArg(part)) \ {a} : a.name # b.name
<1>1. ParseArg(part) = {} \/ \E r : ParseArg(part) = {r}
  BY Zenon DEF ParseArg
<1> QED
  BY <1>1 DEF Emplace

LEMMA RestShrinks ==
    ASSUME rest \in Seq(Piece), NEW n \in Nat, Len(rest) <= n, NEW k \in 1 .. Len(rest) + 1
    PROVE  /\ SubSeq(rest, k + 1, Len(rest)) \in Seq(Piece)
           /\ Len(SubSeq(rest, k + 1, Len(rest))) <= n
<1>1. Len(rest) \in Nat /\ k + 1 \in Int /\ Len(rest) \in Int
  OBVIOUS
<1>2. \A i \in k + 1 .. Len(rest) : rest[i] \in Piece
  OBVIOUS
<1>3. /\ SubSeq(rest, k + 1, Len(rest)) \in Seq(Piece)
      /\ Len(SubSeq(rest, k + 1, Len(rest))) =
           IF k + 1 <= Len(rest) THEN Len(rest) - (k + 1) + 1 ELSE 0
  BY <1>1, <1>2, SubSeqProperties
<1> QED
  BY <1>1, <1>3

LEMMA BoundaryRange ==
    ASSUME rest \in Seq(Piece)
    PROVE  BoundaryAt(rest) \in 1 .. Len(rest) + 1
<1>1. Len(rest) + 1 \in 1 .. Len(rest) + 1
  OBVIOUS
<1>2. Len(<<Boundary>>) \in Nat \ {0} /\ 1 \in Nat \ {0}
  OBVIOUS
<1>3. Search(rest, 1, <<Boundary>>) \in 1 .. Len(rest) + 1
  BY <1>2, SearchRange
<1> QED
  BY <1>1, <1>3 DEF BoundaryAt

HasBytes(s) == \A i \in DOMAIN s : s[i] \in 0 .. 255

LEMMA UrlBytes ==
    ASSUME NEW p \in Payloads
    PROVE  HasBytes(Encode(p))
<1>1. p \in Seq(Byte) /\ Len(p) \in Nat
  BY PayloadsAreSequences DEF Byte
<1>2. Blocks(Len(p)) \in Nat
  BY <1>1, BlockCount
<1>3. Encode(p) \in Seq(0 .. 65)
  BY <1>1, <1>2, Encoded
<1> DEFINE e == Encode(p)
           S == 0 .. 65
<1>4. e \in Seq(S)
  BY <1>3
<1>5. \A x \in S : x \in 0 .. 255
  OBVIOUS
<1> HIDE DEF e, S
<1>6. \A i \in DOMAIN e : e[i] \in S
  BY <1>4, ElementsOf
<1>7. \A i \in DOMAIN e : e[i] \in 0 .. 255
  BY <1>5, <1>6
<1> QED
  BY <1>7 DEF e, HasBytes

LEMMA TypesInductive == TypeInv /\ [Next]_vars => TypeInv'
<1> SUFFICES ASSUME TypeInv, [Next]_vars PROVE TypeInv'
  OBVIOUS
<1>1. StreamInv'
  BY StreamInductive DEF TypeInv
<1> USE DEF TypeInv, TypeOK
<1>2. ASSUME NEW f \in Forms, NEW type \in ContentTypes, Post(f, type) PROVE TypeInv'
  <2>1. PICK end \in Tails(f) : tail' = end /\ rest' = Received(f, end)
    BY <1>2 DEF Post
  <2>2. /\ Received(f, end) \in Seq(Piece) /\ Len(Received(f, end)) <= limit + Len(end)
        /\ end \in {<<>>} \cup {<<b>> : b \in Stubs}
    BY ReceivedFits, TailIs
  <2>3. rest' \in Seq(Piece) /\ Len(rest') <= limit + Len(tail') /\ tail' \in {<<>>} \cup {<<b>> : b \in Stubs}
    BY <2>1, <2>2
  <2> QED
    BY <1>1, <1>2, <2>3 DEF Post, downloadVars
<1>3. CASE ParsePart
  <2>1. /\ args' = Emplace(args, ParseArg(Chunk))
        /\ rest' = SubSeq(rest, BoundaryAt(rest) + 1, Len(rest))
        /\ phase = "parse" /\ phase' \in {"parse", "judge"}
        /\ UNCHANGED <<limit, form, contentType, tail, answer, handed, downloadVars>>
    BY <1>3 DEF ParsePart
  <2>2. BoundaryAt(rest) \in 1 .. Len(rest) + 1
    BY BoundaryRange
  <2>3. limit + Len(tail) \in Nat
    <3>1. limit \in Nat
      BY FormsAssumption
    <3>2. Len(tail) \in {0, 1}
      <4>1. tail = <<>> \/ \E b \in Stubs : tail = <<b>>
        OBVIOUS
      <4> QED
        BY <4>1
    <3> QED
      BY <3>1, <3>2
  <2>4. rest' \in Seq(Piece) /\ Len(rest') <= limit + Len(tail)
    BY <2>1, <2>2, <2>3, RestShrinks
  <2>5. \A a \in args' : \A b \in args' \ {a} : a.name # b.name
    BY <2>1, NamesStayApart
  <2>6. args' \subseteq Arguments
    <3>1. BoundaryAt(rest) - 1 \in 0 .. Len(rest)
      BY <2>2
    <3>2. Chunk \in Seq(Piece)
      BY <3>1, UptoFits DEF Chunk
    <3>3. ParseArg(Chunk) \subseteq Arguments
      BY <3>2, ArgumentsTyped
    <3> QED
      BY <2>1, <3>3 DEF Emplace
  <2> QED
    BY <1>1, <2>1, <2>4, <2>5, <2>6 DEF downloadVars
<1>11. CASE ParseFails
  BY <1>1, <1>11 DEF ParseFails, downloadVars
<1>4. CASE RenderPost
  <2>1. /\ phase = "judge" /\ phase' = "judged" /\ answer' \in {answer, 400, 500}
        /\ UNCHANGED <<limit, form, contentType, tail, rest, args, downloadVars>>
    BY <1>4 DEF RenderPost
  <2>2. handed' \in Handed \cup {Nil}
    <3>1. CASE handed' = handed
      BY <3>1
    <3>2. CASE Named("image") # {} /\ CanUpload /\ handed' = NewImage
      <4>1. Apart
        BY DEF Apart
      <4>2. PICK image \in args, width \in args, height \in args, mime \in args :
              /\ image.file # Nil /\ IsNumber(width.value) /\ IsNumber(height.value)
              /\ handed' = [name |-> image.file, data |-> image.value, width |-> Head(width.value),
                            height |-> Head(height.value), mime |-> mime.value]
        BY <1>4, <3>2, <4>1, Judges
      <4>3. image \in Arguments /\ width \in Arguments /\ height \in Arguments /\ mime \in Arguments
        OBVIOUS
      <4> QED
        BY <4>2, <4>3, FitTyped
    <3> QED
      BY <1>4, <3>1, <3>2 DEF RenderPost
  <2> QED
    BY <1>1, <2>1, <2>2 DEF downloadVars
<1>5. ASSUME NEW p \in Payloads, SendUrl(p) PROVE TypeInv'
  <2>1. Len(p) \in Nat
    BY PayloadsAreSequences
  <2>5. /\ payload' = p /\ position = 0 /\ position' = 0 /\ received' = Encode(p) /\ phase' = "url"
        /\ UNCHANGED <<limit, form, contentType, tail, rest, args, answer, handed>>
    BY <1>5 DEF SendUrl, uploadVars
  <2>2. position' \in 0 .. (IF payload' = Nil THEN 0 ELSE Len(payload'))
    BY <2>1, <2>5
  <2>3. HasBytes(Encode(p))
    BY UrlBytes
  <2>4. \A i \in DOMAIN received' : received'[i] \in 0 .. 255
    BY <2>3, <2>5 DEF HasBytes
  <2> QED
    BY <1>1, <2>2, <2>4, <2>5
<1>6. ASSUME NEW p \in Payloads, ImageResponse(p) PROVE TypeInv'
  <2>1. Len(p) \in Nat
    BY PayloadsAreSequences
  <2>2. /\ payload' = p /\ position' = 0 /\ received' = <<>> /\ phase' = "send"
        /\ UNCHANGED <<limit, form, contentType, tail, rest, args, answer, handed>>
    BY <1>6 DEF ImageResponse, uploadVars
  <2>3. position' \in 0 .. (IF payload' = Nil THEN 0 ELSE Len(payload'))
    BY <2>1, <2>2
  <2>4. \A i \in DOMAIN received' : received'[i] \in 0 .. 255
    BY <2>2
  <2> QED
    BY <1>1, <2>2, <2>3, <2>4
<1>7. ASSUME NEW max \in 1 .. MaxPiece, SendNextPart(max) PROVE TypeInv'
  <2>1. /\ phase = "send" /\ phase' = "send" /\ payload' = payload
        /\ UNCHANGED <<limit, form, contentType, tail, rest, args, answer, handed>>
    BY <1>7 DEF SendNextPart, uploadVars
  <2>2. /\ payload' \in Payloads /\ position' \in 0 .. Len(payload')
        /\ received' = Upto(payload', position')
    BY <1>1, <2>1 DEF StreamInv
  <2>3. payload' # Nil /\ payload' \in Seq(Byte)
    BY <2>2, TransfersAssumption DEF Byte
  <2>4. received' \in Seq(Byte)
    BY <2>2, <2>3, UptoFits
  <2>5. \A i \in DOMAIN received' : received'[i] \in 0 .. 255
    <3>1. \A i \in DOMAIN received' : received'[i] \in Byte
      BY <2>4, ElementsOf
    <3> QED
      BY <3>1 DEF Byte
  <2> QED
    BY <1>1, <2>1, <2>2, <2>3, <2>5
<1>8. CASE EndOfStream
  BY <1>1, <1>8 DEF EndOfStream, downloadVars, uploadVars
<1>9. CASE Finish
  <2>1. limit \in Nat
    BY FormsAssumption
  <2>2. rest' = <<>> /\ tail' = <<>> /\ received' = <<>> /\ limit' = limit
    BY <1>9 DEF Finish
  <2>3. rest' \in Seq(Piece) /\ Len(rest') <= limit' + Len(tail') /\ \A i \in DOMAIN received' : received'[i] \in 0 .. 255
    BY <2>1, <2>2
  <2> QED
    BY <1>1, <1>9, <2>3 DEF Finish
<1>10. CASE UNCHANGED vars
  BY <1>1, <1>10 DEF vars, downloadVars, uploadVars
<1> QED
  BY <1>2, <1>3, <1>4, <1>5, <1>6, <1>7, <1>8, <1>9, <1>10, <1>11 DEF Next, Upload, Download

(* Every variable of uploads and downloads keeps its type: of a content no more
   is kept than maxRequestBytes has room for, no two arguments have one name, a
   position is inside its picture and only bytes are sent.                     *)
THEOREM TypeCorrect == Spec => []TypeOK
<1>1. TypeInv => TypeOK
  BY DEF TypeInv
<1> QED
  BY <1>1, InitTypes, TypesInductive, PTL DEF Spec

-----------------------------------------------------------------------------
(* The types, what was found of a form and the answer to it, together. *)
UploadInv == TypeInv /\ FormInv /\ VerdictInv

LEMMA InitUpload == Init => UploadInv
<1> SUFFICES ASSUME Init PROVE UploadInv
  OBVIOUS
<1>1. FormInv
  BY DEF Init, FormInv
<1>2. VerdictInv
  BY DEF Init, VerdictInv
<1> QED
  BY <1>1, <1>2, InitTypes DEF UploadInv

LEMMA UploadInductive == UploadInv /\ [Next]_vars => UploadInv'
<1> SUFFICES ASSUME UploadInv, [Next]_vars PROVE UploadInv'
  OBVIOUS
<1>1. limit \in Limits /\ Apart
  BY DEF UploadInv, TypeInv, TypeOK, Apart
<1>2. TypeInv'
  BY TypesInductive DEF UploadInv
<1>3. FormInv'
  BY <1>1, FormInductive DEF UploadInv
<1>4. VerdictInv'
  BY <1>1, VerdictInductive DEF UploadInv
<1> QED
  BY <1>2, <1>3, <1>4 DEF UploadInv

(* MultiPartForm::parse finds the fields of every form, whatever their number
   and whatever line ends and dashes their values hold; of a form that was cut at
   maxRequestBytes, between two tokens or inside one, all that it finds but the
   last is what was sent, and the last is a beginning of its value or the value
   with a beginning of the next boundary (MultiPartForm.h:48-121).              *)
THEOREM FormsUnderstood == Spec => []FormUnderstood
<1>1. UploadInv => FormUnderstood
  BY Understood DEF UploadInv
<1> QED
  BY <1>1, InitUpload, UploadInductive, PTL DEF Spec

(* ImageUpload::render_POST hands newImage what the browser sent if the form has
   all of it, refuses any other form, and is given a picture that was cut short
   only if the other fields came before it (ImageUpload.cpp:47-80).             *)
THEOREM UploadsAreJudged == Spec => []UploadsJudged
<1>1. UploadInv => UploadsJudged
  <2> SUFFICES ASSUME UploadInv PROVE UploadsJudged
    OBVIOUS
  <2>1. Apart /\ args \subseteq Arguments
    BY DEF UploadInv, TypeInv, TypeOK, Apart
  <2> QED
    BY <2>1, Judged DEF UploadInv
<1> QED
  BY <1>1, InitUpload, UploadInductive, PTL DEF Spec

==============================================================================
