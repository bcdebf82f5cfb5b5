-------------------------- MODULE SpriteStylesProofs --------------------------
(***************************************************************************)
(* Theorems about SpriteStyles, for sprites of any tiles that name any     *)
(* images.  The layout goes as in SpritePacking, whose theorems hold here  *)
(* too; what is drawn, saved and sent is read off the layout when it is    *)
(* done, and does not change after that.                                   *)
(***************************************************************************)
EXTENDS SpriteStyles, SpritePackingProofs, FiniteSetTheorems

(* Every turn of the loop makes the sheet longer by one tile at most. *)
Measured ==
    \A n \in 1 .. MaxTiles : Tile = 1 .. n =>
        /\ Scale * (MaxTiles + 1) * root.w + Word * Cardinality(todo) < Word * (n + 1)
        /\ Scale * (MaxTiles + 1) * root.h + Word * Cardinality(todo) < Word * (n + 1)

(* What one call of saveSprite left behind. *)
SavedBy(engine) ==
    /\ todo = {}
    /\ engine = "opencv" => \A t \in Tile : CanBlend(t)
    /\ drawing = [engine |-> engine,
                  bounds |-> [t \in Tile |-> IF engine = "magick" THEN MagickBounds(t)
                                                                 ELSE OpenCVBounds(t)]]
    /\ document = [entries |-> SpriteSheetImages, images |-> <<3, 2, 1>>]

(* The page of the document. *)
SentFor(prefix) ==
    page = [prefix |-> prefix, boxes |-> document.entries,
            media |-> <<Rule(1, {prefix}, 1), Rule(2, {prefix}, 2), Rule(3, FinePrefixes, 3)>>]

(* The drawing, the document and the page agree with the layout. *)
Described ==
    /\ drawing # Nil \/ document # Nil \/ page # Nil => \E engine \in Engines : SavedBy(engine)
    /\ page # Nil => \E prefix \in ClassPrefixes : SentFor(prefix)

StylesInv ==
    /\ IInv
    /\ imageKey \in [Tile -> ImageKeys]
    /\ Measured
    /\ Described

-----------------------------------------------------------------------------
(* Numbers. *)
LEMMA Times ==
    ASSUME NEW a \in Int, NEW b \in Int, NEW c \in Int
    PROVE  /\ a * b \in Int /\ a * b = b * a
           /\ a * (b + c) = a * b + a * c /\ a * (b - c) = a * b - a * c
           /\ a >= 0 /\ b >= c => a * b >= a * c
           /\ a > 0 /\ a * b < a * c => b < c
  OBVIOUS

(* A product divided by one of its factors. *)
LEMMA DivExact ==
    ASSUME NEW a \in Nat \ {0}, NEW b \in Int
    PROVE  (a * b) \div a = b
  OBVIOUS

LEMMA DivAtMost ==
    ASSUME NEW a \in Nat, NEW b \in Nat \ {0}, NEW c \in Nat, a <= b * c
    PROVE  a \div b \in Nat /\ a \div b <= c
  OBVIOUS

(* What B parts of a bound leave of it. *)
LEMMA Bounded ==
    ASSUME NEW B \in Nat \ {0}, NEW len \in Nat, NEW W \in Nat, NEW c \in Nat, NEW m \in 0 .. B,
           3 * B * len + W * c < W * m
    PROVE  3 * len < W
<1>1. W * c >= 0 /\ W * m <= W * B
  OBVIOUS
<1>2. 3 * B * len = B * (3 * len)
  OBVIOUS
<1>3. B * (3 * len) < B * W
  BY <1>1, <1>2
<1>4. ASSUME 3 * len >= W PROVE FALSE
  <2>1. B * (3 * len) >= B * W
    BY <1>4
  <2> QED
    BY <2>1, <1>3
<1> QED
  BY <1>4

(* An offset to the left comes back from the right. *)
LEMMA NegMod ==
    ASSUME NEW w \in Nat \ {0}, NEW o \in 1 .. w - 1
    PROVE  (-o) % w = w - o
  OBVIOUS

LEMMA ModSmall ==
    ASSUME NEW w \in Nat, NEW x \in 0 .. w - 1
    PROVE  x % w = x
  OBVIOUS

(* A place on the sheet is what it is meant to be; the padding taken from an
   origin of zero wraps.                                                      *)
LEMMA PositionFacts ==
    ASSUME NEW c \in Nat, Word \in Nat, Word > Scale * Padding, Scale * c < Word
    PROVE  /\ SheetPosition(c + Padding) = Scale * c
           /\ SheetPosition(0) = Word - Scale * Padding
<1>1. c + 1 - 1 = c /\ c % Word = c /\ (3 * c) % Word = 3 * c
  BY ModSmall DEF Scale
<1>2. (0 - 1) % Word = Word - 1
  BY DEF Scale, Padding
<1>3. 3 * (Word - 1) = Word - 3 + 2 * Word /\ (3 * (Word - 1)) % Word = Word - 3
  BY DEF Scale, Padding
<1> QED
  BY <1>1, <1>2, <1>3 DEF SheetPosition, Scale, Padding

(* What lies on the sheet does so when both are enlarged. *)
LEMMA Enlarged ==
    ASSUME NEW x \in Nat, NEW y \in Nat, NEW w \in Nat, NEW h \in Nat,
           NEW ww \in Nat, NEW hh \in Nat, x + w <= ww, y + h <= hh
    PROVE  Within([x |-> 3 * x, y |-> 3 * y, w |-> 3 * w, h |-> 3 * h],
                  [x |-> 0, y |-> 0, w |-> 3 * ww, h |-> 3 * hh])
  BY DEF Within

(* A picture fitted into a box lies in it; one of the size of the box fills it. *)
LEMMA FitFacts ==
    ASSUME NEW size \in Size, NEW box \in Size
    PROVE  /\ AspectFit(box, box) = box
           /\ AspectFit(size, box) \in [w : Nat, h : Nat]
           /\ AspectFit(size, box).w <= box.w /\ AspectFit(size, box).h <= box.h
<1>1. size.w \in Nat \ {0} /\ size.h \in Nat \ {0} /\ box.w \in Nat \ {0} /\ box.h \in Nat \ {0}
  BY DEF Size
<1>2. AspectFit(box, box) = box
  <2>1. box.w * box.h <= box.h * box.w /\ box.h * box.w = box.w * box.h
    BY <1>1, Times
  <2>2. (box.h * box.w) \div box.w = box.h
    BY <1>1, <2>1, DivExact
  <2> QED
    BY <2>1, <2>2 DEF AspectFit, Size
<1>3. CASE box.w * size.h <= box.h * size.w
  <2>1. size.h * box.w <= size.w * box.h /\ size.h * box.w \in Nat
    BY <1>1, <1>3, Times
  <2>2. (size.h * box.w) \div size.w \in Nat /\ (size.h * box.w) \div size.w <= box.h
    BY <1>1, <2>1, DivAtMost
  <2>3. AspectFit(size, box) = [w |-> box.w, h |-> (size.h * box.w) \div size.w]
    BY <1>3 DEF AspectFit
  <2> QED
    BY <1>1, <1>2, <2>2, <2>3
<1>4. CASE ~(box.w * size.h <= box.h * size.w)
  <2>1. size.w * box.h <= size.h * box.w /\ size.w * box.h \in Nat
    BY <1>1, <1>4, Times
  <2>2. (size.w * box.h) \div size.h \in Nat /\ (size.w * box.h) \div size.h <= box.w
    BY <1>1, <2>1, DivAtMost
  <2>3. AspectFit(size, box) = [w |-> (size.w * box.h) \div size.h, h |-> box.h]
    BY <1>4 DEF AspectFit
  <2> QED
    BY <1>1, <1>2, <2>2, <2>3
<1> QED
  BY <1>3, <1>4

(* Where a box shows the sheet from, for a tile at o of a size within whole: the
   sign of the percentage puts it as far from the other end of the sheet.        *)
LEMMA ShownFacts ==
    ASSUME NEW size \in Nat, NEW whole \in Nat, NEW o \in Nat \ {0}, size < whole, o < whole
    PROVE  /\ PositionRatio(o, size, whole).under > 0
           /\ ShownFrom(PositionRatio(o, size, whole), size, whole) = whole - o
<1>1. whole - size \in Nat \ {0} /\ size - whole = -(whole - size)
  OBVIOUS
<1>2. (size - whole) * (-o) = (whole - size) * o
  <2> DEFINE d == whole - size
  <2>1. d \in Int /\ (-d) * (-o) = d * o
    BY <1>1
  <2> QED
    BY <1>1, <2>1
<1>3. ((size - whole) * (-o)) \div (whole - size) = o
  BY <1>1, <1>2, DivExact
<1>4. o \in 1 .. whole - 1 /\ whole \in Nat \ {0}
  OBVIOUS
<1>5. (-o) % whole = whole - o
  BY <1>4, NegMod
<1> QED
  BY <1>1, <1>3, <1>5 DEF PositionRatio, ShownFrom

-----------------------------------------------------------------------------
(* Sequences. *)

(* The images saved from the largest are taken from the smallest. *)
LEMMA ThreeSorted == BgScales(<<3, 2, 1>>) = <<1, 2, 3>>
<1> DEFINE saved == <<3, 2, 1>>
           Sorts(s) == s \in [1 .. 3 -> {1, 2, 3}] /\ \A i, j \in 1 .. 3 : i < j => s[i] < s[j]
<1>1. Len(saved) = 3 /\ Range(saved) = {1, 2, 3}
  <2>1. DOMAIN saved = 1 .. 3 /\ saved[1] = 3 /\ saved[2] = 2 /\ saved[3] = 1
    OBVIOUS
  <2> QED
    BY <2>1 DEF Range
<1>2. BgScales(saved) = CHOOSE s \in [1 .. 3 -> {1, 2, 3}] :
                             \A i, j \in DOMAIN s : i < j => s[i] < s[j]
  BY <1>1 DEF BgScales
<1>3. Sorts(<<1, 2, 3>>)
  OBVIOUS
<1>4. ASSUME NEW s, Sorts(s) PROVE s = <<1, 2, 3>>
  <2>1. s[1] \in {1, 2, 3} /\ s[2] \in {1, 2, 3} /\ s[3] \in {1, 2, 3}
    BY <1>4
  <2>2. s[1] < s[2] /\ s[2] < s[3]
    BY <1>4
  <2>3. s[1] = 1 /\ s[2] = 2 /\ s[3] = 3
    BY <2>1, <2>2
  <2> QED
    BY <1>4, <2>3
<1>5. \A s : Sorts(s) <=> s \in [1 .. 3 -> {1, 2, 3}]
                           /\ \A i, j \in DOMAIN s : i < j => s[i] < s[j]
  OBVIOUS
<1> HIDE DEF Sorts
<1> QED
  BY <1>2, <1>3, <1>4, <1>5

(* The last rule that applies: the finest screens have one of their own, which
   not every box obeys.                                                        *)
LEMMA LastRule ==
    ASSUME NEW prefix \in ClassPrefixes, SentFor(prefix), NEW screen \in 1 .. 3
    PROVE  Background(screen) = IF screen = 3 /\ prefix \notin FinePrefixes THEN 2 ELSE screen
<1> DEFINE Applies(r) == r.screen <= screen /\ page.prefix \in r.prefixes
           I == {i \in 1 .. Len(page.media) : Applies(page.media[i])}
           last == IF screen = 3 /\ prefix \notin FinePrefixes THEN 2 ELSE screen
<1>1. /\ page.prefix = prefix /\ Len(page.media) = 3
      /\ page.media[1] = [screen |-> 1, prefixes |-> {prefix}, image |-> 1]
      /\ page.media[2] = [screen |-> 2, prefixes |-> {prefix}, image |-> 2]
      /\ page.media[3] = [screen |-> 3, prefixes |-> FinePrefixes, image |-> 3]
  BY DEF SentFor, Rule
<1>2. \A i \in 1 .. 3 : i \in I <=> i <= last
  <2>1. 1 \in I <=> 1 <= screen
    BY <1>1
  <2>2. 2 \in I <=> 2 <= screen
    BY <1>1
  <2>3. 3 \in I <=> 3 <= screen /\ prefix \in FinePrefixes
    BY <1>1
  <2> QED
    BY <2>1, <2>2, <2>3
<1>3. last \in 1 .. 3 /\ I \subseteq 1 .. 3
  BY <1>1
<1>4. I # {} /\ Max(I) = last
  <2>1. last \in I /\ \A i \in I : i <= last
    BY <1>2, <1>3
  <2> HIDE DEF I, last
  <2>2. \A m \in I : (\A i \in I : m >= i) => m = last
    BY <2>1, <1>3
  <2> QED
    BY <2>1, <2>2, <1>3 DEF Max
<1>5. SelectLastInSeq(page.media, LAMBDA r : r.screen <= screen /\ page.prefix \in r.prefixes) = last
  BY <1>4 DEF SelectLastInSeq
<1>6. page.media[last].image = last
  BY <1>1, <1>3
<1> QED
  BY <1>5, <1>6 DEF Background

(* A set of positions that is not empty has a last one. *)
LEMMA Greatest ==
    ASSUME NEW n \in Nat, NEW S \in SUBSET (1 .. n), S # {}
    PROVE  \E m \in S : \A x \in S : x <= m
<1> DEFINE T == {s .. n : s \in S}
           R == StrictSubsetOrdering(Nat)
<1>1. T # {} /\ T \subseteq FiniteSubsetsOf(Nat)
  <2>1. ASSUME NEW s \in S PROVE IsFiniteSet(s .. n) /\ s .. n \subseteq Nat
    BY FS_Interval
  <2> QED
    BY <2>1 DEF FiniteSubsetsOf
<1>2. \E x \in T : \A y \in T : ~(<<y, x>> \in R)
  <2> HIDE DEF T, R
  <2>1. IsWellFoundedOn(R, FiniteSubsetsOf(Nat))
    BY FS_StrictSubsetOrderingWellFounded DEF R
  <2> QED
    BY <1>1, <2>1, WFMin
<1>3. PICK m \in S : \A y \in S : ~(<<y .. n, m .. n>> \in R)
  BY <1>2
<1>4. ASSUME NEW y \in S, y > m PROVE FALSE
  <2>1. y .. n \subseteq m .. n /\ m \in m .. n /\ m \notin y .. n
    BY <1>4
  <2>2. y .. n \in SUBSET Nat /\ m .. n \in SUBSET Nat
    OBVIOUS
  <2>3. <<y .. n, m .. n>> \in R
    BY <2>1, <2>2 DEF StrictSubsetOrdering
  <2> QED
    BY <1>3, <2>3
<1> QED
  BY <1>4

-----------------------------------------------------------------------------
(* What the types and the assumptions say of the tiles. *)
LEMMA TileFacts ==
    ASSUME PackingAssumption, StylesAssumption, TypeOK
    PROVE  /\ \E n \in 1 .. MaxTiles : Tile = 1 .. n
           /\ \A t \in Tile : /\ tiles[t] \in Size /\ NetSize(t) \in Size
                             /\ NetSize(t) = [w |-> tiles[t].w - 2, h |-> tiles[t].h - 2]
                             /\ Scaled(NetSize(t)) \in Size
           /\ \A t \in Placed : /\ taken[t] \in Rect
                               /\ Origin(t) = [x |-> taken[t].x + 1, y |-> taken[t].y + 1]
<1>1. PICK n \in 1 .. MaxTiles : tiles \in [1 .. n -> Sizes]
  BY DEF TypeOK
<1>2. Tile = 1 .. n
  BY <1>1 DEF Tile
<1>3. ASSUME NEW t \in Tile
      PROVE  /\ tiles[t] \in Size /\ NetSize(t) \in Size
             /\ NetSize(t) = [w |-> tiles[t].w - 2, h |-> tiles[t].h - 2]
             /\ Scaled(NetSize(t)) \in Size
  <2>1. tiles[t] \in Size /\ tiles[t].w > 2 /\ tiles[t].h > 2
    BY <1>1, <1>2 DEF PackingAssumption, StylesAssumption, Padding
  <2>2. NetSize(t) = [w |-> tiles[t].w - 2, h |-> tiles[t].h - 2]
    BY <2>1 DEF NetSize, Padding, Size
  <2>3. tiles[t].w - 2 \in Nat \ {0} /\ tiles[t].h - 2 \in Nat \ {0}
    BY <2>1 DEF Size
  <2> QED
    BY <2>1, <2>2, <2>3, SMTT(20) DEF Size, Scaled, Scale
<1>4. ASSUME NEW t \in Placed
      PROVE  taken[t] \in Rect /\ Origin(t) = [x |-> taken[t].x + 1, y |-> taken[t].y + 1]
  BY <1>4 DEF Placed, TypeOK, Origin, Padding
<1> QED
  BY <1>2, <1>3, <1>4

(* An image of the sprite has a last tile. *)
LEMMA LastFacts ==
    ASSUME PackingAssumption, TypeOK, NEW k \in {imageKey[t] : t \in Tile}
    PROVE  LastOf(k) \in Tile /\ imageKey[LastOf(k)] = k
<1> DEFINE S == {t \in Tile : imageKey[t] = k}
<1>1. PICK n \in 1 .. MaxTiles : tiles \in [1 .. n -> Sizes]
  BY DEF TypeOK
<1>2. n \in Nat /\ S \in SUBSET (1 .. n) /\ S # {}
  BY <1>1 DEF Tile, PackingAssumption
<1>3. PICK m \in S : \A x \in S : x <= m
  BY <1>2, Greatest
<1>4. m \in Tile /\ imageKey[m] = k /\ \A u \in Tile : imageKey[u] = k => u <= m
  BY <1>3
<1> QED
  BY <1>4 DEF LastOf

(* The image of a tile that shares it with no other is that of the tile. *)
LEMMA AloneFacts ==
    ASSUME PackingAssumption, TypeOK, NEW t \in Tile, Alone(t)
    PROVE  LastOf(imageKey[t]) = t /\ FirstOf(imageKey[t]) = t
<1>1. LastOf(imageKey[t]) \in Tile /\ imageKey[LastOf(imageKey[t])] = imageKey[t]
  BY LastFacts
<1>2. FirstOf(imageKey[t]) = t
  <2>1. PICK n \in 1 .. MaxTiles : tiles \in [1 .. n -> Sizes]
    BY DEF TypeOK
  <2>2. t \in Nat
    BY <2>1 DEF Tile, PackingAssumption
  <2> DEFINE k == imageKey[t]
  <2>3. \A u \in Tile : imageKey[u] = k => u = t
    BY DEF Alone
  <2>4. imageKey[t] = k /\ \A u \in Tile : imageKey[u] = k => t <= u
    BY <2>2, <2>3
  <2> HIDE DEF k
  <2>5. FirstOf(k) \in Tile /\ imageKey[FirstOf(k)] = k
    BY <2>4 DEF FirstOf
  <2> QED
    BY <2>3, <2>5 DEF k
<1> QED
  BY <1>1, <1>2 DEF Alone

(* When the layout is done, the sheet at its scale can be counted. *)
LEMMA SheetCounted ==
    ASSUME PackingAssumption, StylesAssumption, TypeOK, Measured
    PROVE  Scale * root.w < Word /\ Scale * root.h < Word
<1>1. PICK n \in 1 .. MaxTiles : tiles \in [1 .. n -> Sizes]
  BY DEF TypeOK
<1>2. Tile = 1 .. n /\ n \in Nat /\ MaxTiles \in Nat /\ Word \in Nat /\ root.w \in Nat /\ root.h \in Nat
  BY <1>1 DEF Tile, PackingAssumption, StylesAssumption, TypeOK, Size
<1>3. Cardinality(todo) \in Nat
  <2>1. IsFiniteSet(1 .. n) /\ todo \in SUBSET (1 .. n)
    BY <1>2, FS_Interval DEF TypeOK
  <2> QED
    BY <2>1, FS_Subset, FS_CardinalityType
<1>4. ASSUME NEW len \in Nat,
             Scale * (MaxTiles + 1) * len + Word * Cardinality(todo) < Word * (n + 1)
      PROVE  Scale * len < Word
  <2>1. MaxTiles + 1 \in Nat \ {0} /\ n + 1 \in 0 .. MaxTiles + 1
    BY <1>2
  <2>2. 3 * (MaxTiles + 1) * len + Word * Cardinality(todo) < Word * (n + 1)
    BY <1>4 DEF Scale
  <2> QED
    BY <1>2, <1>3, <2>1, <2>2, Bounded DEF Scale
<1> QED
  BY <1>2, <1>4 DEF Measured

-----------------------------------------------------------------------------
LEMMA MeasuredFirst ==
    ASSUME PackingAssumption, StylesAssumption, Init
    PROVE  Measured
<1> SUFFICES ASSUME NEW n \in 1 .. MaxTiles, Tile = 1 .. n
             PROVE  /\ Scale * (MaxTiles + 1) * root.w + Word * Cardinality(todo) < Word * (n + 1)
                    /\ Scale * (MaxTiles + 1) * root.h + Word * Cardinality(todo) < Word * (n + 1)
  BY DEF Measured
<1>1. n \in Nat /\ 1 \in Tile /\ Word \in Nat /\ MaxTiles \in Nat
  BY DEF PackingAssumption, StylesAssumption
<1>2. root \in Sizes /\ root.w \in Nat /\ root.h \in Nat
  BY <1>1 DEF Init, Tile, PackingAssumption, Size
<1>3. Cardinality(todo) = n
  <2>1. todo = 1 .. n /\ n - 1 + 1 = n
    BY <1>1 DEF Init
  <2> QED
    BY <1>1, <2>1, FS_Interval
<1>4. Word * (n + 1) = Word * n + Word
  BY <1>1, Times
<1> QED
  BY <1>1, <1>2, <1>3, <1>4, Times DEF StylesAssumption, Countable, Scale

(* A tile is placed, and the sheet grew by it at most. *)
LEMMA MeasuredStep ==
    ASSUME PackingAssumption, StylesAssumption, TypeOK, Measured, NEW t \in Tile, Place(t)
    PROVE  Measured'
<1> SUFFICES ASSUME NEW n \in 1 .. MaxTiles, Tile' = 1 .. n
             PROVE  /\ Scale * (MaxTiles + 1) * root'.w + Word * Cardinality(todo') < Word * (n + 1)
                    /\ Scale * (MaxTiles + 1) * root'.h + Word * Cardinality(todo') < Word * (n + 1)
  BY DEF Measured
<1>1. Tile = 1 .. n /\ todo' = todo \ {t} /\ t \in todo
  BY StepShape DEF IsNext
<1>2. /\ n \in Nat /\ Word \in Nat /\ MaxTiles \in Nat
      /\ root \in Size /\ root.w \in Nat /\ root.h \in Nat
  BY DEF PackingAssumption, StylesAssumption, TypeOK, Size
<1>3. tiles[t] \in Sizes /\ tiles[t].w \in Nat /\ tiles[t].h \in Nat
  BY DEF TypeOK, Tile, PackingAssumption, Size
<1>4. Cardinality(todo) \in Nat /\ Cardinality(todo') = Cardinality(todo) - 1
  <2>1. IsFiniteSet(1 .. n) /\ todo \in SUBSET (1 .. n)
    BY <1>1, <1>2, FS_Interval DEF TypeOK
  <2>2. IsFiniteSet(todo)
    BY <2>1, FS_Subset
  <2> QED
    BY <1>1, <2>2, FS_CardinalityType, FS_RemoveElement
<1>5. /\ root'.w \in Nat /\ root'.w <= root.w + tiles[t].w
      /\ root'.h \in Nat /\ root'.h <= root.h + tiles[t].h
  <2>1. CASE root' = root
    BY <2>1, <1>2, <1>3
  <2>2. ASSUME NEW e, Extended(t, e)
        PROVE  /\ root'.w \in Nat /\ root'.w <= root.w + tiles[t].w
               /\ root'.h \in Nat /\ root'.h <= root.h + tiles[t].h
    <3>1. /\ root'.w = e.x + e.w /\ root'.h = e.y + e.h
          /\ \/ e = [x |-> root.w, y |-> 0, w |-> tiles[t].w, h |-> root.h]
             \/ e = [x |-> 0, y |-> root.h, w |-> root.w, h |-> tiles[t].h]
      BY <2>2 DEF Extended, Extension
    <3>2. \/ root'.w = root.w + tiles[t].w /\ root'.h = 0 + root.h
          \/ root'.w = 0 + root.w /\ root'.h = root.h + tiles[t].h
      BY <3>1
    <3>3. root.w \in Nat /\ root.h \in Nat /\ tiles[t].w \in Nat /\ tiles[t].h \in Nat
      BY <1>2, <1>3
    <3>4. CASE root'.w = root.w + tiles[t].w /\ root'.h = 0 + root.h
      BY <3>3, <3>4
    <3>5. CASE root'.w = 0 + root.w /\ root'.h = root.h + tiles[t].h
      BY <3>3, <3>5
    <3> QED
      BY <3>2, <3>4, <3>5
  <2>3. root' = root \/ \E e : Extended(t, e)
    BY StepShape DEF InRoot, InNode
  <2> QED
    BY <2>1, <2>2, <2>3
<1>6. ASSUME NEW old \in Nat, NEW new \in Nat, NEW s \in Nat,
             new <= old + s, Scale * (MaxTiles + 1) * s < Word,
             Scale * (MaxTiles + 1) * old + Word * Cardinality(todo) < Word * (n + 1)
      PROVE  Scale * (MaxTiles + 1) * new + Word * Cardinality(todo') < Word * (n + 1)
  <2> DEFINE a == Scale * (MaxTiles + 1)
  <2>1. a \in Nat
    BY <1>2 DEF Scale
  <2> HIDE DEF a
  <2>2. a * new <= a * old + a * s
    BY <1>6, <2>1, Times
  <2>3. Word * Cardinality(todo') = Word * Cardinality(todo) - Word
    BY <1>2, <1>4, Times
  <2>4. /\ a * new \in Int /\ a * old \in Int /\ a * s \in Int
        /\ Word * Cardinality(todo) \in Int /\ Word * (n + 1) \in Int
    BY <1>2, <1>4, <2>1, Times
  <2>5. a * s < Word /\ a * old + Word * Cardinality(todo) < Word * (n + 1)
    BY <1>6 DEF a
  <2>6. a * new + Word * Cardinality(todo') < Word * (n + 1)
    BY <1>2, <2>2, <2>3, <2>4, <2>5
  <2> QED
    BY <2>6 DEF a
<1> QED
  BY <1>1, <1>2, <1>3, <1>5, <1>6 DEF Measured, StylesAssumption, Countable

-----------------------------------------------------------------------------
(* A sprite that is made, described and delivered is laid out as Sprite::build
   lays it out: whatever holds of every run of SpritePacking holds here.        *)
THEOREM StylesImplementPacking == StylesSpec => Spec
<1>1. StylesInit => Init
  BY DEF StylesInit
<1>2. [StylesNext]_stylesVars => [Next]_vars
  BY DEF StylesNext, stylesVars, Build, SaveSprite, SpriteCSS
<1> QED
  BY <1>1, <1>2, PTL DEF StylesSpec, Spec

(* So the tiles of every sprite that is delivered stay on its sheet, one of them
   at most is lost, and they meet only as the splits of Sprite::build let them.  *)
THEOREM StylesKeepLayout ==
    ASSUME PackingAssumption
    PROVE  StylesSpec => [](TypeOK /\ OnSheet /\ OnlyFirstLost /\ ApartUnlessSplit /\ SameSizeApart)
BY StylesImplementPacking, TypeCorrect, StaysOnSheet, OnlyFirstIsLost, TilesApart, TilesOfOneSize,
   PTL

LEMMA StylesInitial ==
    ASSUME PackingAssumption, StylesAssumption, StylesInit
    PROVE  StylesInv
<1>1. Init /\ IInv
  BY Initial DEF StylesInit
<1>2. imageKey \in [Tile -> ImageKeys]
  <2>1. PICK n \in 1 .. MaxTiles : tiles \in [1 .. n -> Sizes]
    BY <1>1 DEF Init
  <2>2. PICK names \in Namings : imageKey = [t \in Tile |-> names[t]]
    BY DEF StylesInit
  <2>3. names \in Seq(ImageKeys) /\ Len(names) >= MaxTiles /\ MaxTiles \in Nat
    BY DEF StylesAssumption, PackingAssumption
  <2>4. \A t \in Tile : t \in 1 .. Len(names)
    BY <2>1, <2>3 DEF Tile
  <2>5. \A i \in 1 .. Len(names) : names[i] \in ImageKeys
    BY <2>3
  <2> QED
    BY <2>2, <2>4, <2>5
<1>3. Described
  BY DEF StylesInit, Described
<1> QED
  BY <1>1, <1>2, <1>3, MeasuredFirst DEF StylesInv

(* A tile is placed only before anything is saved. *)
LEMMA DescribedBuild ==
    ASSUME Described, Build
    PROVE  Described'
<1>1. todo # {}
  BY DEF Build, Next, Place, IsNext
<1>2. drawing = Nil /\ document = Nil /\ page = Nil
  BY <1>1 DEF Described, SavedBy
<1> QED
  BY <1>2 DEF Build, Described

(* What is saved is read off the layout and the naming of the images. *)
LEMMA LayoutStays ==
    ASSUME UNCHANGED <<vars, imageKey, exact>>
    PROVE  /\ todo' = todo /\ Tile' = Tile
           /\ \A t : /\ CanBlend(t)' = CanBlend(t)
                    /\ MagickBounds(t)' = MagickBounds(t) /\ OpenCVBounds(t)' = OpenCVBounds(t)
           /\ SpriteSheetImages' = SpriteSheetImages
<1>1. /\ tiles' = tiles /\ todo' = todo /\ root' = root /\ taken' = taken
      /\ imageKey' = imageKey /\ exact' = exact
  BY DEF vars
<1>2. Tile' = Tile /\ Canvas' = Canvas
  BY <1>1 DEF Tile, Canvas
<1>3. ASSUME NEW t PROVE NetSize(t)' = NetSize(t) /\ Origin(t)' = Origin(t)
  BY <1>1 DEF NetSize, Origin
<1>4. ASSUME NEW k PROVE LastOf(k)' = LastOf(k) /\ FirstOf(k)' = FirstOf(k)
  BY <1>1, <1>2 DEF LastOf, FirstOf
<1>5. ASSUME NEW t PROVE Picture(t)' = Picture(t)
  BY <1>1, <1>3, <1>4 DEF Picture
<1>6. ASSUME NEW t
      PROVE  MagickBounds(t)' = MagickBounds(t) /\ OpenCVBounds(t)' = OpenCVBounds(t)
  BY <1>1, <1>3, <1>5 DEF MagickBounds, OpenCVBounds
<1>7. ASSUME NEW t PROVE CanBlend(t)' = CanBlend(t)
  BY <1>2, <1>5, <1>6 DEF CanBlend
<1>8. SpriteSheetImages' = SpriteSheetImages
  BY <1>1, <1>2, <1>3, <1>4 DEF SpriteSheetImages
<1> QED
  BY <1>1, <1>2, <1>6, <1>7, <1>8

LEMMA SavedStays ==
    ASSUME NEW engine, SavedBy(engine), UNCHANGED <<vars, imageKey, exact, drawing, document>>
    PROVE  SavedBy(engine)'
BY LayoutStays DEF SavedBy

(* Saving a second time would save the same. *)
LEMMA DescribedSave ==
    ASSUME Described, NEW engine \in Engines, SaveSprite(engine)
    PROVE  Described'
<1>1. UNCHANGED <<vars, imageKey, exact>> /\ page' = page
  BY DEF SaveSprite
<1>2. SavedBy(engine)'
  BY <1>1, LayoutStays DEF SaveSprite, SavedBy
<1>3. page # Nil => \E prefix \in ClassPrefixes : SentFor(prefix)'
  BY <1>1, LayoutStays DEF Described, SavedBy, SentFor, SaveSprite
<1> QED
  BY <1>1, <1>2, <1>3 DEF Described

(* Sending the page changes nothing but the page. *)
LEMMA DescribedSend ==
    ASSUME Described, NEW prefix \in ClassPrefixes, SpriteCSS(prefix)
    PROVE  Described'
<1>1. document # Nil /\ UNCHANGED <<vars, imageKey, exact, drawing, document>>
  BY DEF SpriteCSS
<1>2. PICK engine \in Engines : SavedBy(engine)
  BY <1>1 DEF Described
<1>3. BgScales(document.images) = <<1, 2, 3>>
  BY <1>2, ThreeSorted DEF SavedBy
<1>4. SentFor(prefix)'
  BY <1>1, <1>3 DEF SpriteCSS, SentFor
<1>5. SavedBy(engine)'
  BY <1>1, <1>2, SavedStays
<1> QED
  BY <1>4, <1>5 DEF Described

(* Every step of a sprite preserves the invariant. *)
THEOREM StylesInductive ==
    ASSUME PackingAssumption, StylesAssumption, StylesInv, [StylesNext]_stylesVars
    PROVE  StylesInv'
<1>1. CASE UNCHANGED stylesVars
  <2>1. UNCHANGED vars /\ UNCHANGED <<imageKey, exact, drawing, document, page>>
    BY <1>1 DEF stylesVars
  <2>2. IInv' /\ Tile' = Tile
    BY <2>1, Inductive DEF StylesInv, vars, Tile
  <2>3. Measured'
    BY <2>1, <2>2 DEF StylesInv, Measured, vars
  <2>4. \A engine : SavedBy(engine) => SavedBy(engine)'
    BY <2>1, SavedStays
  <2>5. Described'
    BY <2>1, <2>4 DEF StylesInv, Described, SentFor
  <2> QED
    BY <2>1, <2>2, <2>3, <2>5 DEF StylesInv
<1>2. CASE Build
  <2>1. PICK t \in Tile : Place(t)
    BY <1>2 DEF Build, Next
  <2>2. IInv' /\ Tile' = Tile /\ imageKey' = imageKey
    BY <1>2, <2>1, Inductive DEF StylesInv, Build, Place, Tile
  <2>3. Measured'
    BY <2>1, MeasuredStep DEF StylesInv, IInv
  <2>4. Described'
    BY <1>2, DescribedBuild DEF StylesInv
  <2> QED
    BY <2>2, <2>3, <2>4 DEF StylesInv
<1>3. ASSUME UNCHANGED <<vars, imageKey, exact>>, Described' PROVE StylesInv'
  <2>1. IInv' /\ Tile' = Tile
    BY <1>3, Inductive DEF StylesInv, vars, Tile
  <2>2. Measured'
    BY <1>3, <2>1 DEF StylesInv, Measured, vars
  <2> QED
    BY <1>3, <2>1, <2>2 DEF StylesInv
<1>4. ASSUME NEW engine \in Engines, SaveSprite(engine) PROVE StylesInv'
  BY <1>4, <1>3, DescribedSave DEF SaveSprite, StylesInv
<1>5. ASSUME NEW prefix \in ClassPrefixes, SpriteCSS(prefix) PROVE StylesInv'
  BY <1>5, <1>3, DescribedSend DEF SpriteCSS, StylesInv
<1> QED
  BY <1>1, <1>2, <1>4, <1>5 DEF StylesNext

(* The invariant holds throughout the life of every sprite. *)
THEOREM StylesInvariance ==
    ASSUME PackingAssumption, StylesAssumption
    PROVE  StylesSpec => []StylesInv
BY StylesInitial, StylesInductive, PTL DEF StylesSpec

-----------------------------------------------------------------------------
(* Where a tile lies on the sheet, in the numbers of the sheet. *)
LEMMA PlacedFacts ==
    ASSUME PackingAssumption, StylesAssumption, StylesInv, NEW t \in Placed
    PROVE  /\ t \in Tile
           /\ tiles[t].w \in Nat /\ tiles[t].h \in Nat /\ tiles[t].w > 2 /\ tiles[t].h > 2
           /\ taken[t].x \in Nat /\ taken[t].y \in Nat
           /\ root.w \in Nat /\ root.h \in Nat
           /\ taken[t].x + tiles[t].w <= root.w /\ taken[t].y + tiles[t].h <= root.h
           /\ Origin(t).x = taken[t].x + 1 /\ Origin(t).y = taken[t].y + 1
           /\ NetSize(t).w = tiles[t].w - 2 /\ NetSize(t).h = tiles[t].h - 2
           /\ Area(t) = [x |-> taken[t].x, y |-> taken[t].y, w |-> tiles[t].w, h |-> tiles[t].h]
<1>1. TypeOK /\ Within(Area(t), RootBounds) /\ t \in Tile
  BY DEF StylesInv, IInv, OnSheet, Placed
<1>2. tiles[t] \in Size /\ NetSize(t) \in Size /\ taken[t] \in Rect
  BY <1>1, TileFacts
<1>3. /\ NetSize(t) = [w |-> tiles[t].w - 2, h |-> tiles[t].h - 2]
      /\ Origin(t) = [x |-> taken[t].x + 1, y |-> taken[t].y + 1]
  BY <1>1, TileFacts
<1>4. /\ Origin(t).x = taken[t].x + 1 /\ Origin(t).y = taken[t].y + 1
      /\ NetSize(t).w = tiles[t].w - 2 /\ NetSize(t).h = tiles[t].h - 2
  BY <1>3
<1>5. /\ tiles[t].w \in Nat /\ tiles[t].h \in Nat /\ taken[t].x \in Nat /\ taken[t].y \in Nat
      /\ tiles[t].w > 2 /\ tiles[t].h > 2
  BY <1>2, <1>4, SMTT(20) DEF Size, Rect
<1>6. root.w \in Nat /\ root.h \in Nat
  BY <1>1 DEF TypeOK, Size
<1>7. taken[t].x + tiles[t].w <= root.w /\ taken[t].y + tiles[t].h <= root.h
  BY <1>1, <1>5, <1>6 DEF Within, Area, RootBounds
<1> QED
  BY <1>1, <1>4, <1>5, <1>6, <1>7 DEF Area

(* ImageMagick fills the box of the tile. *)
LEMMA MagickFacts ==
    ASSUME PackingAssumption, StylesAssumption, TypeOK, NEW t \in Tile,
           Origin(t).x \in Nat, Origin(t).y \in Nat
    PROVE  MagickBounds(t) = [x |-> 3 * Origin(t).x, y |-> 3 * Origin(t).y,
                              w |-> 3 * NetSize(t).w, h |-> 3 * NetSize(t).h]
<1> DEFINE box == Scaled(NetSize(t))
<1>1. box \in Size /\ box.w = 3 * NetSize(t).w /\ box.h = 3 * NetSize(t).h
  BY TileFacts DEF Scaled, Scale
<1>2. AspectFit(box, box) = box /\ box.w \in Nat /\ box.h \in Nat
  BY <1>1, FitFacts DEF Size
<1>3. (box.w - box.w) \div 2 = 0 /\ (box.h - box.h) \div 2 = 0
  BY <1>2
<1>4. MagickBounds(t) = [x |-> 3 * Origin(t).x + 0, y |-> 3 * Origin(t).y + 0,
                         w |-> box.w, h |-> box.h]
  <2> HIDE DEF box
  <2>1. MagickBounds(t) = [x |-> Scale * Origin(t).x + (box.w - box.w) \div 2,
                           y |-> Scale * Origin(t).y + (box.h - box.h) \div 2,
                           w |-> box.w, h |-> box.h]
    BY <1>2 DEF MagickBounds, box
  <2> QED
    BY <2>1, <1>3 DEF Scale
<1> QED
  BY <1>1, <1>4

(* OpenCV draws the picture of a tile that shares its image with no other in the
   box of the tile, at the lower left of it, counted from below.                 *)
LEMMA OpenCVFacts ==
    ASSUME PackingAssumption, StylesAssumption, StylesInv, NEW t \in Placed, Alone(t)
    PROVE  LET b == OpenCVBounds(t)
           IN  /\ b.x = 3 * Origin(t).x
               /\ b.y = 3 * root.h - 3 * (Origin(t).y + NetSize(t).h)
               /\ b.w \in Nat /\ b.w <= 3 * NetSize(t).w
               /\ b.h \in Nat /\ b.h <= 3 * NetSize(t).h
<1> DEFINE box == Scaled(NetSize(t))
<1>1. TypeOK /\ t \in Tile /\ imageKey[t] \in ImageKeys
  BY DEF StylesInv, IInv, Placed
<1>2. box \in Size /\ box.w = 3 * NetSize(t).w /\ box.h = 3 * NetSize(t).h
  BY <1>1, TileFacts DEF Scaled, Scale
<1>3. Original[imageKey[t]] \in Size
  BY <1>1 DEF StylesAssumption
<1>4. Picture(t) = AspectFit(Original[imageKey[t]], box)
  BY <1>1, AloneFacts DEF Picture
<1>5. /\ Picture(t).w \in Nat /\ Picture(t).w <= box.w
      /\ Picture(t).h \in Nat /\ Picture(t).h <= box.h
  <2> HIDE DEF box
  <2> QED
    BY <1>2, <1>3, <1>4, FitFacts
<1> QED
  BY <1>2, <1>5 DEF OpenCVBounds, Scale

(* The entry of an image, in the numbers of the sheet. *)
LEMMA EntryFacts ==
    ASSUME PackingAssumption, StylesAssumption, StylesInv,
           NEW k \in {imageKey[t] : t \in Tile}, NEW t, t = LastOf(k)
    PROVE  /\ t \in Tile /\ imageKey[t] = k
           /\ LET e == SpriteSheetImages[k]
              IN  /\ e.width = 3 * tiles[t].w /\ e.height = 3 * tiles[t].h
                  /\ taken[t] = None => e.x = Word - 3 /\ e.y = Word - 3
                  /\ t \in Placed => e.x = 3 * taken[t].x /\ e.y = 3 * taken[t].y
                  /\ e.img = NetSize(t)
                  /\ e.bgPosX = PositionRatio(Origin(t).x, NetSize(t).w, root.w)
                  /\ e.bgPosY = PositionRatio(Origin(t).y, NetSize(t).h, root.h)
<1> DEFINE e == SpriteSheetImages[k]
<1>1. TypeOK /\ Measured
  BY DEF StylesInv, IInv
<1>2. t \in Tile /\ imageKey[t] = k
  BY <1>1, LastFacts
<1>3. e = [width |-> Scale * tiles[t].w, height |-> Scale * tiles[t].h,
           x |-> SheetPosition(Origin(t).x), y |-> SheetPosition(Origin(t).y),
           img |-> NetSize(t),
           bgPosX |-> PositionRatio(Origin(t).x, NetSize(t).w, root.w),
           bgPosY |-> PositionRatio(Origin(t).y, NetSize(t).h, root.h)]
  BY DEF SpriteSheetImages
<1>4. Scale * root.w < Word /\ Scale * root.h < Word
  BY <1>1, SheetCounted
<1>5. Word \in Nat /\ root.w \in Nat \ {0} /\ root.h \in Nat \ {0} /\ Word > Scale * Padding
  BY <1>1, <1>4 DEF StylesAssumption, TypeOK, Size, Scale, Padding
<1>6. ASSUME taken[t] = None PROVE e.x = Word - 3 /\ e.y = Word - 3
  <2>1. Scale * 0 < Word
    BY <1>5 DEF Scale, Padding
  <2>2. SheetPosition(0) = Word - Scale * Padding
    BY <1>5, <2>1, PositionFacts
  <2> QED
    BY <1>3, <1>6, <2>2 DEF Origin, Scale, Padding
<1>7. ASSUME t \in Placed PROVE e.x = 3 * taken[t].x /\ e.y = 3 * taken[t].y
  <2>1. /\ taken[t].x \in Nat /\ taken[t].y \in Nat
        /\ Origin(t).x = taken[t].x + Padding /\ Origin(t).y = taken[t].y + Padding
        /\ taken[t].x < root.w /\ taken[t].y < root.h
    <3>1. /\ taken[t].x \in Nat /\ taken[t].y \in Nat
          /\ Origin(t).x = taken[t].x + 1 /\ Origin(t).y = taken[t].y + 1
      BY <1>7, PlacedFacts
    <3>2. /\ taken[t].x + tiles[t].w <= root.w /\ taken[t].y + tiles[t].h <= root.h
          /\ tiles[t].w \in Nat /\ tiles[t].h \in Nat /\ tiles[t].w > 2 /\ tiles[t].h > 2
      BY <1>7, PlacedFacts
    <3>3. taken[t].x < root.w
      BY <3>1, <3>2, <1>5
    <3>4. taken[t].y < root.h
      BY <3>1, <3>2, <1>5, SMTT(20)
    <3> QED
      BY <3>1, <3>3, <3>4 DEF Padding
  <2>2. Scale * taken[t].x < Word /\ Scale * taken[t].y < Word
    BY <1>4, <1>5, <2>1 DEF Scale
  <2>3. /\ SheetPosition(taken[t].x + Padding) = Scale * taken[t].x
        /\ SheetPosition(taken[t].y + Padding) = Scale * taken[t].y
    BY <1>5, <2>1, <2>2, PositionFacts
  <2> QED
    BY <1>3, <2>1, <2>3 DEF Scale
<1> QED
  BY <1>2, <1>3, <1>6, <1>7 DEF Scale

(* Whatever draws it, a tile is drawn within three times its area: in the middle
   of it, or at the same place counted from below.                             *)
DrawnIn(b, t) ==
    /\ b.x = 3 * (taken[t].x + 1)
    /\ b.w \in Nat /\ b.w <= 3 * (tiles[t].w - 2)
    /\ b.h \in Nat /\ b.h <= 3 * (tiles[t].h - 2)

FromAbove(b, t) == b.y = 3 * (taken[t].y + 1)

FromBelow(b, t) == b.y = 3 * root.h - 3 * (taken[t].y + tiles[t].h - 1)

LEMMA DrawnFacts ==
    ASSUME PackingAssumption, StylesAssumption, StylesInv, NEW engine \in Engines, SavedBy(engine),
           engine = "opencv" => \A t \in Tile : Alone(t), NEW t \in Placed
    PROVE  /\ DrawnIn(drawing.bounds[t], t)
           /\ IF engine = "magick" THEN FromAbove(drawing.bounds[t], t)
                                    ELSE FromBelow(drawing.bounds[t], t)
<1>1. /\ t \in Tile
      /\ tiles[t].w \in Nat /\ tiles[t].h \in Nat /\ tiles[t].w > 2 /\ tiles[t].h > 2
      /\ taken[t].x \in Nat /\ taken[t].y \in Nat
      /\ Origin(t).x = taken[t].x + 1 /\ Origin(t).y = taken[t].y + 1
      /\ NetSize(t).w = tiles[t].w - 2 /\ NetSize(t).h = tiles[t].h - 2
  BY PlacedFacts
<1>2. CASE engine = "magick"
  <2>1. drawing.bounds[t] = MagickBounds(t)
    BY <1>1, <1>2 DEF SavedBy
  <2>2. Origin(t).x \in Nat /\ Origin(t).y \in Nat /\ TypeOK
    BY <1>1, SMTT(20) DEF StylesInv, IInv
  <2>3. MagickBounds(t) = [x |-> 3 * Origin(t).x, y |-> 3 * Origin(t).y,
                           w |-> 3 * NetSize(t).w, h |-> 3 * NetSize(t).h]
    BY <1>1, <2>2, MagickFacts
  <2>4. \A a \in Nat : a > 2 => 3 * (a - 2) \in Nat /\ 3 * (a - 2) <= 3 * (a - 2)
    OBVIOUS
  <2>5. MagickBounds(t) = [x |-> 3 * (taken[t].x + 1), y |-> 3 * (taken[t].y + 1),
                           w |-> 3 * (tiles[t].w - 2), h |-> 3 * (tiles[t].h - 2)]
    BY <1>1, <2>3
  <2>6. /\ 3 * (tiles[t].w - 2) \in Nat /\ 3 * (tiles[t].w - 2) <= 3 * (tiles[t].w - 2)
        /\ 3 * (tiles[t].h - 2) \in Nat /\ 3 * (tiles[t].h - 2) <= 3 * (tiles[t].h - 2)
    BY <1>1, <2>4
  <2> QED
    BY <1>2, <2>1, <2>5, <2>6 DEF DrawnIn, FromAbove
<1>3. CASE engine = "opencv"
  <2>1. drawing.bounds[t] = OpenCVBounds(t) /\ Alone(t)
    BY <1>1, <1>3 DEF SavedBy
  <2>2. LET b == OpenCVBounds(t)
        IN  /\ b.x = 3 * Origin(t).x
            /\ b.y = 3 * root.h - 3 * (Origin(t).y + NetSize(t).h)
            /\ b.w \in Nat /\ b.w <= 3 * NetSize(t).w
            /\ b.h \in Nat /\ b.h <= 3 * NetSize(t).h
    BY <2>1, OpenCVFacts
  <2>3. Origin(t).y + NetSize(t).h = taken[t].y + tiles[t].h - 1
    <3>1. \A a, c \in Nat : (a + 1) + (c - 2) = a + c - 1
      OBVIOUS
    <3> QED
      BY <1>1, <3>1, ZenonT(30)
  <2> QED
    BY <1>1, <1>3, <2>1, <2>2, <2>3 DEF DrawnIn, FromBelow
<1> QED
  BY <1>2, <1>3 DEF Engines

(* Rectangles keep within the sheet, and apart, when they are enlarged, even by
   less, and when the sheet is turned upside down.                             *)
LEMMA DrawnWithin ==
    ASSUME NEW x \in Nat, NEW y \in Nat, NEW w \in Nat, NEW h \in Nat, w > 2, h > 2,
           NEW ww \in Nat, NEW hh \in Nat, x + w <= ww, y + h <= hh,
           NEW b, b.x = 3 * (x + 1), b.w \in Nat, b.w <= 3 * (w - 2),
           b.h \in Nat, b.h <= 3 * (h - 2),
           b.y = 3 * (y + 1) \/ b.y = 3 * hh - 3 * (y + h - 1)
    PROVE  Within(b, [x |-> 0, y |-> 0, w |-> 3 * ww, h |-> 3 * hh])
<1>1. 0 <= b.x /\ b.x + b.w <= 0 + 3 * ww
  OBVIOUS
<1>2. 0 <= b.y /\ b.y + b.h <= 0 + 3 * hh
  OBVIOUS
<1> QED
  BY <1>1, <1>2 DEF Within

LEMMA Inside ==
    ASSUME NEW r \in Nat, NEW n \in Nat, NEW whole \in Nat, n > 2, r + n <= whole
    PROVE  r + 1 \in Nat \ {0} /\ n - 2 \in Nat \ {0} /\ n - 2 < whole /\ r + 1 < whole
  OBVIOUS

LEMMA DrawnBeside ==
    ASSUME NEW x \in Nat, NEW w \in Nat, NEW xx \in Nat, NEW bw \in Nat,
           x + w <= xx, bw <= 3 * (w - 2)
    PROVE  3 * (x + 1) + bw <= 3 * (xx + 1)
  OBVIOUS

LEMMA DrawnAbove ==
    ASSUME NEW y \in Nat, NEW h \in Nat, NEW yy \in Nat, NEW h2 \in Nat, h2 > 2, NEW bh \in Nat,
           NEW hh \in Nat, y + h <= yy, bh <= 3 * (h2 - 2)
    PROVE  (3 * hh - 3 * (yy + h2 - 1)) + bh <= 3 * hh - 3 * (y + h - 1)
  OBVIOUS

-----------------------------------------------------------------------------
(* The document of every sprite tells the truth of every image but that of the
   tile that fits nowhere, however the padding is taken from unsigned numbers.  *)
THEOREM DocumentIsTrue ==
    ASSUME PackingAssumption, StylesAssumption
    PROVE  StylesSpec => []PositionsTrue
<1>1. ASSUME StylesInv, document # Nil, NEW k \in DOMAIN document.entries
      PROVE  LET t == LastOf(k)
                 e == document.entries[k]
             IN  IF Lost(t) THEN e.x = Word - Scale * Padding /\ e.y = Word - Scale * Padding
                 ELSE /\ Within([x |-> e.x, y |-> e.y, w |-> e.width, h |-> e.height], Canvas)
                      /\ drawing.engine = "magick" =>
                           drawing.bounds[t] = [x |-> e.x + Scale * Padding,
                                                y |-> e.y + Scale * Padding,
                                                w |-> e.width - 2 * Scale * Padding,
                                                h |-> e.height - 2 * Scale * Padding]
  <2> DEFINE t == LastOf(k)
             e == document.entries[k]
  <2>1. PICK engine \in Engines : SavedBy(engine)
    BY <1>1 DEF StylesInv, Described
  <2>2. document.entries = SpriteSheetImages /\ todo = {}
    BY <2>1 DEF SavedBy
  <2>3. k \in {imageKey[u] : u \in Tile}
    BY <1>1, <2>2 DEF SpriteSheetImages
  <2>4. /\ t \in Tile
        /\ e.width = 3 * tiles[t].w /\ e.height = 3 * tiles[t].h
        /\ taken[t] = None => e.x = Word - 3 /\ e.y = Word - 3
        /\ t \in Placed => e.x = 3 * taken[t].x /\ e.y = 3 * taken[t].y
    BY <1>1, <2>2, <2>3, EntryFacts
  <2>5. Lost(t) => e.x = Word - Scale * Padding /\ e.y = Word - Scale * Padding
    BY <2>4 DEF Lost, Scale, Padding
  <2>6. ASSUME ~Lost(t)
        PROVE  /\ Within([x |-> e.x, y |-> e.y, w |-> e.width, h |-> e.height], Canvas)
               /\ drawing.engine = "magick" =>
                    drawing.bounds[t] = [x |-> e.x + Scale * Padding, y |-> e.y + Scale * Padding,
                                         w |-> e.width - 2 * Scale * Padding,
                                         h |-> e.height - 2 * Scale * Padding]
    <3> HIDE DEF t, e
    <3>1. t \in Placed
      BY <2>2, <2>4, <2>6 DEF Lost, Placed
    <3>2. /\ tiles[t].w \in Nat /\ tiles[t].h \in Nat
          /\ taken[t].x \in Nat /\ taken[t].y \in Nat /\ root.w \in Nat /\ root.h \in Nat
          /\ taken[t].x + tiles[t].w <= root.w /\ taken[t].y + tiles[t].h <= root.h
          /\ Origin(t).x = taken[t].x + 1 /\ Origin(t).y = taken[t].y + 1
          /\ NetSize(t).w = tiles[t].w - 2 /\ NetSize(t).h = tiles[t].h - 2
      BY <1>1, <3>1, PlacedFacts
    <3>3. Within([x |-> e.x, y |-> e.y, w |-> e.width, h |-> e.height], Canvas)
      <4>1. e.x = 3 * taken[t].x /\ e.width = 3 * tiles[t].w
        BY <2>4, <3>1
      <4>2. e.y = 3 * taken[t].y /\ e.height = 3 * tiles[t].h
        BY <2>4, <3>1
      <4> QED
        BY <3>2, <4>1, <4>2, Enlarged DEF Canvas, Scale
    <3>4. ASSUME drawing.engine = "magick" PROVE drawing.bounds[t] = MagickBounds(t)
      BY <2>1, <2>4, <3>4 DEF SavedBy
    <3>5. MagickBounds(t) = [x |-> 3 * Origin(t).x, y |-> 3 * Origin(t).y,
                             w |-> 3 * NetSize(t).w, h |-> 3 * NetSize(t).h]
      <4>1. Origin(t).x \in Nat /\ Origin(t).y \in Nat
        <5>1. \A a \in Nat : a + 1 \in Nat
          OBVIOUS
        <5> QED
          BY <3>2, <5>1, Zenon
      <4>2. TypeOK
        BY <1>1 DEF StylesInv, IInv
      <4> QED
        BY <2>4, <4>1, <4>2, MagickFacts
    <3>6. /\ 3 * Origin(t).x = e.x + 3 /\ 3 * Origin(t).y = e.y + 3
          /\ 3 * NetSize(t).w = e.width - 6 /\ 3 * NetSize(t).h = e.height - 6
      <4>1. e.x = 3 * taken[t].x /\ e.width = 3 * tiles[t].w
        BY <2>4, <3>1
      <4>2. e.y = 3 * taken[t].y /\ e.height = 3 * tiles[t].h
        BY <2>4, <3>1
      <4>3. \A a \in Nat : 3 * (a + 1) = 3 * a + 3 /\ 3 * (a - 2) = 3 * a - 6
        OBVIOUS
      <4> QED
        BY <3>2, <4>1, <4>2, <4>3
    <3> QED
      BY <3>3, <3>4, <3>5, <3>6 DEF Scale, Padding
  <2> QED
    BY <2>5, <2>6
<1>2. StylesInv => PositionsTrue
  BY <1>1 DEF PositionsTrue
<1> QED
  BY <1>2, StylesInvariance, PTL

(* The rules of the page give each screen the image of its resolution, but for
   boxes that the last rule does not name, on the finest screens.               *)
THEOREM ScreensAreServed ==
    ASSUME PackingAssumption, StylesAssumption
    PROVE  StylesSpec => []ScreensServed
<1>1. ASSUME StylesInv, page # Nil, NEW screen \in 1 .. 3
      PROVE  Background(screen) = IF screen = 3 /\ page.prefix \notin FinePrefixes
                                    THEN 2 ELSE screen
  <2>1. PICK prefix \in ClassPrefixes : SentFor(prefix)
    BY <1>1 DEF StylesInv, Described
  <2>2. page.prefix = prefix
    BY <2>1 DEF SentFor
  <2> QED
    BY <2>1, <2>2, LastRule
<1>2. StylesInv => ScreensServed
  BY <1>1 DEF ScreensServed
<1> QED
  BY <1>2, StylesInvariance, PTL

(* Tiles apart in the layout are drawn apart and on the sheet, by both renderers
   if no image is named twice, and by ImageMagick in any case.                   *)
THEOREM TilesDrawnApart ==
    ASSUME PackingAssumption, StylesAssumption
    PROVE  StylesSpec => []DrawnApart
<1>1. ASSUME StylesInv, NEW engine \in Engines, SavedBy(engine),
             engine = "opencv" => \A t \in Tile : Alone(t), NEW t \in Placed
      PROVE  Within(drawing.bounds[t], Canvas)
  <2>1. /\ tiles[t].w \in Nat /\ tiles[t].h \in Nat /\ tiles[t].w > 2 /\ tiles[t].h > 2
        /\ taken[t].x \in Nat /\ taken[t].y \in Nat /\ root.w \in Nat /\ root.h \in Nat
        /\ taken[t].x + tiles[t].w <= root.w /\ taken[t].y + tiles[t].h <= root.h
    BY <1>1, PlacedFacts
  <2> DEFINE b == drawing.bounds[t]
  <2>2. DrawnIn(b, t) /\ (FromAbove(b, t) \/ FromBelow(b, t))
    BY <1>1, DrawnFacts
  <2> HIDE DEF b
  <2>3. Within(b, [x |-> 0, y |-> 0, w |-> 3 * root.w, h |-> 3 * root.h])
    BY <2>1, <2>2, DrawnWithin DEF DrawnIn, FromAbove, FromBelow
  <2> QED
    BY <2>3 DEF Canvas, Scale, b
<1>2. ASSUME StylesInv, NEW engine \in Engines, SavedBy(engine),
             engine = "opencv" => \A t \in Tile : Alone(t),
             NEW t \in Placed, NEW u \in Placed, Apart(Area(t), Area(u))
      PROVE  Apart(drawing.bounds[t], drawing.bounds[u])
  <2> DEFINE b == drawing.bounds[t]
             c == drawing.bounds[u]
  <2>1. /\ tiles[t].w \in Nat /\ tiles[t].h \in Nat /\ tiles[t].w > 2 /\ tiles[t].h > 2
        /\ taken[t].x \in Nat /\ taken[t].y \in Nat /\ root.h \in Nat
        /\ Area(t) = [x |-> taken[t].x, y |-> taken[t].y, w |-> tiles[t].w, h |-> tiles[t].h]
    BY <1>2, PlacedFacts
  <2>2. /\ tiles[u].w \in Nat /\ tiles[u].h \in Nat /\ tiles[u].w > 2 /\ tiles[u].h > 2
        /\ taken[u].x \in Nat /\ taken[u].y \in Nat
        /\ Area(u) = [x |-> taken[u].x, y |-> taken[u].y, w |-> tiles[u].w, h |-> tiles[u].h]
    BY <1>2, PlacedFacts
  <2>3. /\ DrawnIn(b, t) /\ DrawnIn(c, u)
        /\ \/ FromAbove(b, t) /\ FromAbove(c, u)
           \/ FromBelow(b, t) /\ FromBelow(c, u)
    BY <1>2, DrawnFacts
  <2>4. \/ taken[t].x + tiles[t].w <= taken[u].x \/ taken[u].x + tiles[u].w <= taken[t].x
        \/ taken[t].y + tiles[t].h <= taken[u].y \/ taken[u].y + tiles[u].h <= taken[t].y
    BY <1>2, <2>1, <2>2 DEF Apart
  <2> HIDE DEF b, c
  <2>5. CASE taken[t].x + tiles[t].w <= taken[u].x
    <3>2. /\ b.x = 3 * (taken[t].x + 1) /\ c.x = 3 * (taken[u].x + 1)
          /\ b.w \in Nat /\ b.w <= 3 * (tiles[t].w - 2)
      BY <2>3 DEF DrawnIn
    <3>3. 3 * (taken[t].x + 1) + b.w <= 3 * (taken[u].x + 1)
      BY <2>1, <2>2, <2>5, <3>2, DrawnBeside
    <3>1. b.x + b.w <= c.x
      BY <3>2, <3>3
    <3> QED
      BY <3>1 DEF Apart, b, c
  <2>6. CASE taken[u].x + tiles[u].w <= taken[t].x
    <3>2. /\ c.x = 3 * (taken[u].x + 1) /\ b.x = 3 * (taken[t].x + 1)
          /\ c.w \in Nat /\ c.w <= 3 * (tiles[u].w - 2)
      BY <2>3 DEF DrawnIn
    <3>3. 3 * (taken[u].x + 1) + c.w <= 3 * (taken[t].x + 1)
      BY <2>1, <2>2, <2>6, <3>2, DrawnBeside
    <3>1. c.x + c.w <= b.x
      BY <3>2, <3>3
    <3> QED
      BY <3>1 DEF Apart, b, c
  <2>7. CASE taken[t].y + tiles[t].h <= taken[u].y
    <3>1. CASE FromAbove(b, t) /\ FromAbove(c, u)
      <4>1. b.y = 3 * (taken[t].y + 1) /\ c.y = 3 * (taken[u].y + 1)
        BY <3>1 DEF FromAbove
      <4>2. b.h \in Nat /\ b.h <= 3 * (tiles[t].h - 2)
        BY <2>3 DEF DrawnIn
      <4>3. 3 * (taken[t].y + 1) + b.h <= 3 * (taken[u].y + 1)
        BY <2>1, <2>2, <2>7, <4>2, DrawnBeside
      <4> QED
        BY <4>1, <4>3 DEF Apart, b, c
    <3>2. CASE FromBelow(b, t) /\ FromBelow(c, u)
      <4>1. /\ b.y = 3 * root.h - 3 * (taken[t].y + tiles[t].h - 1)
            /\ c.y = 3 * root.h - 3 * (taken[u].y + tiles[u].h - 1)
        BY <3>2 DEF FromBelow
      <4>2. c.h \in Nat /\ c.h <= 3 * (tiles[u].h - 2)
        BY <2>3 DEF DrawnIn
      <4>3. (3 * root.h - 3 * (taken[u].y + tiles[u].h - 1)) + c.h
              <= 3 * root.h - 3 * (taken[t].y + tiles[t].h - 1)
        BY <2>1, <2>2, <2>7, <4>2, DrawnAbove
      <4> QED
        BY <4>1, <4>3 DEF Apart, b, c
    <3> QED
      BY <2>3, <3>1, <3>2
  <2>8. CASE taken[u].y + tiles[u].h <= taken[t].y
    <3>1. CASE FromAbove(b, t) /\ FromAbove(c, u)
      <4>1. c.y = 3 * (taken[u].y + 1) /\ b.y = 3 * (taken[t].y + 1)
        BY <3>1 DEF FromAbove
      <4>2. c.h \in Nat /\ c.h <= 3 * (tiles[u].h - 2)
        BY <2>3 DEF DrawnIn
      <4>3. 3 * (taken[u].y + 1) + c.h <= 3 * (taken[t].y + 1)
        BY <2>1, <2>2, <2>8, <4>2, DrawnBeside
      <4> QED
        BY <4>1, <4>3 DEF Apart, b, c
    <3>2. CASE FromBelow(b, t) /\ FromBelow(c, u)
      <4>1. /\ c.y = 3 * root.h - 3 * (taken[u].y + tiles[u].h - 1)
            /\ b.y = 3 * root.h - 3 * (taken[t].y + tiles[t].h - 1)
        BY <3>2 DEF FromBelow
      <4>2. b.h \in Nat /\ b.h <= 3 * (tiles[t].h - 2)
        BY <2>3 DEF DrawnIn
      <4>3. (3 * root.h - 3 * (taken[t].y + tiles[t].h - 1)) + b.h
              <= 3 * root.h - 3 * (taken[u].y + tiles[u].h - 1)
        BY <2>1, <2>2, <2>8, <4>2, DrawnAbove
      <4> QED
        BY <4>1, <4>3 DEF Apart, b, c
    <3> QED
      BY <2>3, <3>1, <3>2
  <2> QED
    BY <2>4, <2>5, <2>6, <2>7, <2>8
<1>3. ASSUME StylesInv, drawing # Nil, drawing.engine = "opencv" => \A t \in Tile : Alone(t)
      PROVE  \E engine \in Engines : SavedBy(engine) /\ (engine = "opencv" => \A t \in Tile : Alone(t))
  BY <1>3 DEF StylesInv, Described, SavedBy
<1>4. StylesInv => DrawnApart
  BY <1>1, <1>2, <1>3 DEF DrawnApart
<1> QED
  BY <1>4, StylesInvariance, PTL

(* The sign of the percentages shows every tile in its box that begins at the
   middle of the sheet in both directions, if ImageMagick has drawn it, and no
   other: all other boxes of all pages show another part of the sheet.         *)
THEOREM BoxesShowTheMiddle ==
    ASSUME PackingAssumption, StylesAssumption
    PROVE  StylesSpec => []BoxesShow
<1>1. ASSUME StylesInv, page # Nil, NEW t \in Placed, Alone(t)
      PROVE  /\ page.boxes[imageKey[t]].bgPosX.under > 0
             /\ page.boxes[imageKey[t]].bgPosY.under > 0
             /\ ShowsItsTile(t) <=> /\ drawing.engine = "magick"
                                    /\ 2 * Origin(t).x = root.w /\ 2 * Origin(t).y = root.h
  <2>1. PICK engine \in Engines : SavedBy(engine)
    BY <1>1 DEF StylesInv, Described
  <2>2. page.boxes = SpriteSheetImages /\ drawing.engine = engine
    <3>1. PICK prefix \in ClassPrefixes : SentFor(prefix)
      BY <1>1 DEF StylesInv, Described
    <3>2. page.boxes = document.entries
      BY <3>1 DEF SentFor
    <3> QED
      BY <2>1, <3>2 DEF SavedBy
  <2> DEFINE e == page.boxes[imageKey[t]]
             x == Origin(t).x
             y == Origin(t).y
             w == NetSize(t).w
             h == NetSize(t).h
             b == drawing.bounds[t]
  <2>3. /\ t \in Tile
        /\ tiles[t].w \in Nat /\ tiles[t].h \in Nat /\ tiles[t].w > 2 /\ tiles[t].h > 2
        /\ taken[t].x \in Nat /\ taken[t].y \in Nat /\ root.w \in Nat /\ root.h \in Nat
        /\ taken[t].x + tiles[t].w <= root.w /\ taken[t].y + tiles[t].h <= root.h
        /\ x = taken[t].x + 1 /\ y = taken[t].y + 1
        /\ w = tiles[t].w - 2 /\ h = tiles[t].h - 2
    BY <1>1, PlacedFacts
  <2>4. t = LastOf(imageKey[t])
    BY <1>1, <2>3, AloneFacts DEF StylesInv, IInv
  <2>5. /\ e.img = NetSize(t)
        /\ e.bgPosX = PositionRatio(x, w, root.w)
        /\ e.bgPosY = PositionRatio(y, h, root.h)
    <3>1. imageKey[t] \in {imageKey[u] : u \in Tile}
      BY <2>3
    <3>2. LET i == SpriteSheetImages[imageKey[t]]
          IN  /\ i.img = NetSize(t)
              /\ i.bgPosX = PositionRatio(Origin(t).x, NetSize(t).w, root.w)
              /\ i.bgPosY = PositionRatio(Origin(t).y, NetSize(t).h, root.h)
      BY <1>1, <2>4, <3>1, EntryFacts
    <3> QED
      BY <2>2, <3>2
  <2> HIDE DEF e, x, y, w, h, b
  <2>6. x \in Nat \ {0} /\ w \in Nat \ {0} /\ w < root.w /\ x < root.w
    BY <2>3, Inside
  <2>7. y \in Nat \ {0} /\ h \in Nat \ {0} /\ h < root.h /\ y < root.h
    BY <2>3, Inside
  <2>8. /\ e.bgPosX.under > 0 /\ e.bgPosY.under > 0
        /\ ShownFrom(e.bgPosX, w, root.w) = root.w - x
        /\ ShownFrom(e.bgPosY, h, root.h) = root.h - y
    <3>1. root.w \in Nat /\ root.h \in Nat
      BY <2>3
    <3>2. e.bgPosX.under > 0 /\ ShownFrom(e.bgPosX, w, root.w) = root.w - x
      BY <2>5, <2>6, <3>1, ShownFacts
    <3>3. e.bgPosY.under > 0 /\ ShownFrom(e.bgPosY, h, root.h) = root.h - y
      BY <2>5, <2>7, <3>1, ShownFacts
    <3> QED
      BY <3>2, <3>3
  <2>9. ShowsItsTile(t) <=> b.x = 3 * (root.w - x) /\ b.y = 3 * (root.h - y)
    BY <2>5, <2>8 DEF ShowsItsTile, Scale, e, w, h, b
  <2>10. CASE engine = "magick"
    <3>1. b = MagickBounds(t)
      BY <2>1, <2>3, <2>10 DEF SavedBy, b
    <3>2. b.x = 3 * x /\ b.y = 3 * y
      <4>1. Origin(t).x \in Nat /\ Origin(t).y \in Nat /\ TypeOK
        BY <1>1, <2>6, <2>7 DEF StylesInv, IInv, x, y
      <4>2. MagickBounds(t) = [x |-> 3 * x, y |-> 3 * y, w |-> 3 * w, h |-> 3 * h]
        BY <2>3, <4>1, MagickFacts DEF x, y, w, h
      <4> QED
        BY <3>1, <4>2
    <3>3. \A o, whole \in Nat : 3 * o = 3 * (whole - o) <=> 2 * o = whole
      OBVIOUS
    <3>4. ShowsItsTile(t) <=> 2 * x = root.w /\ 2 * y = root.h
      <4>1. root.w \in Nat /\ root.h \in Nat /\ x \in Nat /\ y \in Nat
        BY <2>3, <2>6, <2>7
      <4>2. /\ 3 * x = 3 * (root.w - x) <=> 2 * x = root.w
            /\ 3 * y = 3 * (root.h - y) <=> 2 * y = root.h
        BY <3>3, <4>1
      <4> QED
        BY <2>9, <3>2, <4>2
    <3> QED
      BY <2>2, <2>8, <2>10, <3>4 DEF e, x, y
  <2>11. CASE engine = "opencv"
    <3>1. b = OpenCVBounds(t)
      BY <2>1, <2>3, <2>11 DEF SavedBy, b
    <3>2. b.y = 3 * root.h - 3 * (y + h)
      BY <1>1, <3>1, OpenCVFacts DEF y, h
    <3>3. b.y # 3 * (root.h - y)
      <4>1. \A hh, o, n \in Nat : n # 0 => 3 * hh - 3 * (o + n) # 3 * (hh - o)
        OBVIOUS
      <4>2. root.h \in Nat /\ y \in Nat /\ h \in Nat /\ h # 0
        BY <2>3, <2>7
      <4> QED
        BY <3>2, <4>1, <4>2
    <3> QED
      BY <2>2, <2>8, <2>9, <2>11, <3>3 DEF e
  <2> QED
    BY <2>10, <2>11 DEF Engines
<1>2. StylesInv => BoxesShow
  BY <1>1 DEF BoxesShow
<1> QED
  BY <1>2, StylesInvariance, PTL
====
