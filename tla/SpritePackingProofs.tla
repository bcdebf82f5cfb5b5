------------------------- MODULE SpritePackingProofs -------------------------
(***************************************************************************)
(* Theorems about SpritePacking, for sprites of any number of tiles of any *)
(* sizes.                                                                  *)
(***************************************************************************)
EXTENDS SpritePacking, TLAPS

(* The tiles come in the order of the sort, and after the first of them the
   sheet is high enough for the others: this is why only the first can be lost. *)
Sorted ==
    /\ todo = Tile => root = tiles[1]
    /\ root.w >= tiles[1].w /\ root.h >= tiles[1].h
    /\ todo # Tile => \A u \in todo : tiles[u].h <= root.h
    /\ \A t \in todo : taken[t] = None

LeadsSort == \A t \in Tile : ~Before(tiles[t], tiles[1])
OneSize == \A t \in Tile : tiles[t] = tiles[1]

(* If the first tile asked for is the first of the sort, the root is taken by
   the first step, when it is as large as that tile.                          *)
RootFirst == LeadsSort /\ rootFree => todo = Tile /\ free = {} /\ Placed = {}

Snug(t) == taken[t].w = tiles[t].w \/ taken[t].h = tiles[t].h

(* No tile and no free node meets another. *)
Clear ==
    /\ \A t, u \in Placed : t # u => Apart(Area(t), Area(u))
    /\ \A t \in Placed, n \in free : Apart(Area(t), n.bounds)
    /\ \A n, m \in free : n # m => Apart(n.bounds, m.bounds)

ClearWhenSnug == LeadsSort /\ (\A t \in Placed : Snug(t)) => Clear

(* With tiles of one size, every node is as wide or as high as a tile. *)
SnugWhenOneSize ==
    OneSize =>
        /\ \A t \in Placed : Snug(t)
        /\ \A n \in free : n.bounds.w = tiles[1].w \/ n.bounds.h = tiles[1].h

IInv ==
    /\ TypeOK /\ OnSheet
    /\ Sorted /\ OnlyFirstLost
    /\ RootFirst /\ ClearWhenSnug /\ SnugWhenOneSize

-----------------------------------------------------------------------------
(* What a tile leaves of the node it is placed in is a set of nodes that lie
   within that node, clear of the tile, and have its width or its height.    *)
LEMMA LeftFacts ==
    ASSUME PackingAssumption, TypeOK, NEW t \in Tile, NEW r \in Rect, Fits(tiles[t], r)
    PROVE  /\ tiles[t] \in Size
           /\ Left(t, r) \subseteq Node
           /\ \A n \in Left(t, r) :
                /\ Within(n.bounds, r)
                /\ Apart(n.bounds, [x |-> r.x, y |-> r.y, w |-> tiles[t].w, h |-> tiles[t].h])
                /\ \/ n.side = "bottom" /\ n.bounds.w = r.w /\ r.h > tiles[t].h
                   \/ n.side = "right" /\ n.bounds.h = r.h /\ r.w > tiles[t].w
<1>1. t \in Nat /\ tiles[t] \in Size
  BY DEF PackingAssumption, TypeOK, Tile
<1> DEFINE s == tiles[t]
           B == [by |-> t, side |-> "bottom", bounds |-> Below(s, r)]
           R == [by |-> t, side |-> "right", bounds |-> Beside(s, r)]
<1>2. /\ s.w \in Nat \ {0} /\ s.h \in Nat \ {0}
      /\ r.x \in Nat /\ r.y \in Nat /\ r.w \in Nat \ {0} /\ r.h \in Nat \ {0}
      /\ s.w <= r.w /\ s.h <= r.h
  BY <1>1 DEF Size, Rect, Fits
<1>3. /\ Below(s, r) = [x |-> r.x, y |-> r.y + s.h, w |-> r.w, h |-> r.h - s.h]
      /\ Beside(s, r) = [x |-> r.x + s.w, y |-> r.y, w |-> r.w - s.w, h |-> r.h]
  BY DEF Below, Beside
<1>4. ASSUME NEW n \in Left(t, r)
      PROVE  n.bounds.w > 0 /\ n.bounds.h > 0 /\ (n = B \/ n = R)
  BY DEF Left
<1>5. CASE Left(t, r) = {}
  BY <1>1, <1>5
<1>6. ASSUME NEW n \in Left(t, r)
      PROVE  /\ n \in Node
             /\ Within(n.bounds, r)
             /\ Apart(n.bounds, [x |-> r.x, y |-> r.y, w |-> s.w, h |-> s.h])
             /\ \/ n.side = "bottom" /\ n.bounds.w = r.w /\ r.h > s.h
                \/ n.side = "right" /\ n.bounds.h = r.h /\ r.w > s.w
  <2>1. CASE n = B
    <3>1. n.by = t /\ n.side = "bottom" /\ n.bounds = Below(s, r)
      BY <2>1
    <3>2. r.h - s.h > 0 /\ n.bounds = [x |-> r.x, y |-> r.y + s.h, w |-> r.w, h |-> r.h - s.h]
      BY <3>1, <1>3, <1>4
    <3>3. n.bounds \in Rect
      BY <3>2, <1>2 DEF Rect
    <3>4. n \in Node
      BY <2>1, <3>1, <3>3, <1>1 DEF Node
    <3> QED
      BY <3>1, <3>2, <3>4, <1>2 DEF Within, Apart
  <2>2. CASE n = R
    <3>1. n.by = t /\ n.side = "right" /\ n.bounds = Beside(s, r)
      BY <2>2
    <3>2. r.w - s.w > 0 /\ n.bounds = [x |-> r.x + s.w, y |-> r.y, w |-> r.w - s.w, h |-> r.h]
      BY <3>1, <1>3, <1>4
    <3>3. n.bounds \in Rect
      BY <3>2, <1>2 DEF Rect
    <3>4. n \in Node
      BY <2>2, <3>1, <3>3, <1>1 DEF Node
    <3> QED
      BY <3>1, <3>2, <3>4, <1>2 DEF Within, Apart
  <2> QED
    BY <1>4, <2>1, <2>2
<1> QED
  BY <1>1, <1>6

(* The extension of a sheet for a tile lies on the grown sheet, beside all that
   was on it; a tile that does not fit it is wider and higher than the sheet.   *)
LEMMA ExtensionFacts ==
    ASSUME NEW s \in Size, root \in Size
    PROVE  LET e == Extension(s)
               big == [x |-> 0, y |-> 0, w |-> e.x + e.w, h |-> e.y + e.h]
           IN  /\ e \in Rect
               /\ e.x + e.w >= root.w /\ e.y + e.h >= root.h /\ e.y + e.h >= s.h
               /\ Within(e, big) /\ Within(RootBounds, big)
               /\ Apart(RootBounds, e)
               /\ e.w = s.w \/ e.h = s.h
               /\ Fits(s, e) \/ (s.w > root.w /\ s.h > root.h)
<1>1. /\ s.w \in Nat \ {0} /\ s.h \in Nat \ {0}
      /\ root.w \in Nat \ {0} /\ root.h \in Nat \ {0}
  BY DEF Size
<1>2. CASE GrowsRight(s)
  <2>1. Extension(s) = [x |-> root.w, y |-> 0, w |-> s.w, h |-> root.h] /\ s.h <= root.h
    BY <1>2 DEF Extension, GrowsRight
  <2> QED
    BY <1>1, <2>1 DEF Rect, Within, Apart, RootBounds, Fits
<1>3. CASE ~GrowsRight(s)
  <2>1. Extension(s) = [x |-> 0, y |-> root.h, w |-> root.w, h |-> s.h]
    BY <1>3 DEF Extension
  <2>2. s.w <= root.w \/ s.h > root.h
    BY <1>1, <1>3 DEF GrowsRight
  <2> QED
    BY <1>1, <2>1, <2>2 DEF Rect, Within, Apart, RootBounds, Fits
<1> QED
  BY <1>2, <1>3

-----------------------------------------------------------------------------
(* Every turn of the loop keeps the types. *)
LEMMA TypeStep ==
    ASSUME PackingAssumption, TypeOK, NEW t \in Tile, Place(t)
    PROVE  TypeOK'
<1>1. /\ tiles' = tiles /\ Tile' = Tile /\ todo' = todo \ {t} /\ t \in Nat
      /\ tiles[t] \in Size
  BY DEF Place, TypeOK, Tile, PackingAssumption
<1>2. RootBounds \in Rect
  BY DEF TypeOK, RootBounds, Rect, Size
<1>3. ASSUME NEW r \in Rect, NEW others \in SUBSET Node, Fits(tiles[t], r), Take(t, r, others)
      PROVE  /\ free' \in SUBSET Node
             /\ taken' \in [Tile -> Rect \cup {None}]
  BY <1>3, LeftFacts DEF Take, TypeOK
<1>4. CASE PlaceInRoot(t)
  <2>1. root' = root /\ rootFree' \in BOOLEAN /\ Fits(tiles[t], RootBounds)
        /\ Take(t, RootBounds, free)
    BY <1>4 DEF PlaceInRoot, RootTakes
  <2> QED
    BY <1>1, <1>2, <1>3, <2>1 DEF TypeOK
<1>5. CASE PlaceInNode(t)
  <2>1. PICK n \in Open(t) : Take(t, n.bounds, free \ {n})
    BY <1>5 DEF PlaceInNode
  <2>2. n.bounds \in Rect /\ Fits(tiles[t], n.bounds) /\ free \ {n} \in SUBSET Node
    BY DEF Open, TypeOK, Node
  <2>3. root' = root /\ rootFree' = rootFree
    BY <1>5 DEF PlaceInNode
  <2> QED
    BY <1>1, <1>3, <2>1, <2>2, <2>3 DEF TypeOK
<1>6. CASE GrowToFit(t)
  <2> DEFINE e == Extension(tiles[t])
  <2>1. e \in Rect
    BY <1>1, ExtensionFacts DEF TypeOK
  <2>2. root' = [w |-> e.x + e.w, h |-> e.y + e.h] /\ rootFree' = rootFree
    BY <1>6 DEF GrowToFit
  <2>3. root' \in Size
    BY <2>1, <2>2 DEF Rect, Size
  <2>4. CASE Fits(tiles[t], e)
    <3>1. Take(t, e, free)
      BY <1>6, <2>4 DEF GrowToFit
    <3> QED
      BY <1>1, <1>3, <2>1, <2>2, <2>3, <2>4, <3>1 DEF TypeOK
  <2>5. CASE ~Fits(tiles[t], e)
    <3>1. free' = free \cup {[by |-> t, side |-> "grown", bounds |-> e]} /\ taken' = taken
      BY <1>6, <2>5 DEF GrowToFit
    <3>2. [by |-> t, side |-> "grown", bounds |-> e] \in Node
      BY <1>1, <2>1 DEF Node
    <3> QED
      BY <1>1, <2>2, <2>3, <3>1, <3>2 DEF TypeOK
  <2> QED
    BY <2>4, <2>5
<1> QED
  BY <1>4, <1>5, <1>6 DEF Place

(* A part of a part is a part. *)
LEMMA WithinTransitive ==
    ASSUME NEW p \in Rect, NEW q \in Rect, NEW r \in Rect, Within(p, q), Within(q, r)
    PROVE  Within(p, r)
BY DEF Within, Rect

(* A part of what is clear of something is clear of it, on either side. *)
LEMMA ApartPart ==
    ASSUME NEW p \in Rect, NEW q \in Rect, NEW r \in Rect, Within(p, q), Apart(q, r)
    PROVE  Apart(p, r) /\ Apart(r, p)
BY DEF Within, Apart, Rect

(* The place of a tile in a node it fits into is within that node. *)
LEMMA AreaFacts ==
    ASSUME NEW r \in Rect, NEW s \in Size, Fits(s, r)
    PROVE  LET a == [x |-> r.x, y |-> r.y, w |-> s.w, h |-> s.h]
           IN  a \in Rect /\ Within(a, r)
BY DEF Fits, Within, Rect, Size

(* Where tiles lie is a rectangle, before a step and after it. *)
LEMMA AreaTypes ==
    ASSUME PackingAssumption, TypeOK
    PROVE  \A t \in Placed : Area(t) \in Rect
<1>1. ASSUME NEW t \in Placed
      PROVE  /\ taken[t].x \in Nat /\ taken[t].y \in Nat
             /\ tiles[t].w \in Nat \ {0} /\ tiles[t].h \in Nat \ {0}
  <2>1. taken[t] \in Rect /\ tiles[t] \in Size
    BY DEF PackingAssumption, TypeOK, Placed, Tile
  <2> QED
    BY <2>1 DEF Rect, Size
<1> QED
  BY <1>1 DEF Area, Rect

-----------------------------------------------------------------------------
(* What the three ways of placing a tile have in common.  The tile is put in a
   rectangle that was free: the root, a free node, or the extension of a sheet;
   or it is lost, and the extension stays free.                                 *)
InRoot(t) ==
    /\ RootTakes(t) /\ Take(t, RootBounds, free)
    /\ root' = root /\ rootFree' = FALSE

InNode(t, n) ==
    /\ ~RootTakes(t) /\ n \in free /\ Fits(tiles[t], n.bounds)
    /\ Take(t, n.bounds, free \ {n})
    /\ root' = root /\ rootFree' = rootFree

Extended(t, e) ==
    /\ ~RootTakes(t) /\ e = Extension(tiles[t])
    /\ root' = [w |-> e.x + e.w, h |-> e.y + e.h] /\ rootFree' = rootFree

(* Every turn of the loop has one of these forms. *)
LEMMA StepShape ==
    ASSUME NEW t \in Tile, Place(t)
    PROVE  /\ tiles' = tiles /\ Tile' = Tile /\ todo' = todo \ {t} /\ IsNext(t)
           /\ \/ InRoot(t)
              \/ \E n : InNode(t, n)
              \/ \E e : Extended(t, e) /\ Fits(tiles[t], e) /\ Take(t, e, free)
              \/ \E e : /\ Extended(t, e) /\ ~Fits(tiles[t], e)
                        /\ free' = free \cup {[by |-> t, side |-> "grown", bounds |-> e]}
                        /\ taken' = taken
<1>1. tiles' = tiles /\ Tile' = Tile /\ todo' = todo \ {t} /\ IsNext(t)
  BY DEF Place, Tile
<1>2. CASE PlaceInRoot(t)
  BY <1>1, <1>2 DEF PlaceInRoot, InRoot
<1>3. CASE PlaceInNode(t)
  <2>1. PICK n \in Open(t) : Take(t, n.bounds, free \ {n})
    BY <1>3 DEF PlaceInNode
  <2>2. InNode(t, n)
    BY <1>3, <2>1 DEF PlaceInNode, Open, InNode
  <2> QED
    BY <1>1, <2>2
<1>4. CASE GrowToFit(t)
  <2> DEFINE e == Extension(tiles[t])
  <2>1. Extended(t, e)
    BY <1>4 DEF GrowToFit, Extended
  <2>2. CASE Fits(tiles[t], e)
    <3>1. Take(t, e, free)
      BY <1>4, <2>2 DEF GrowToFit
    <3> QED
      BY <1>1, <2>1, <2>2, <3>1
  <2>3. CASE ~Fits(tiles[t], e)
    <3>1. /\ free' = free \cup {[by |-> t, side |-> "grown", bounds |-> e]}
          /\ taken' = taken
      BY <1>4, <2>3 DEF GrowToFit
    <3> QED
      BY <1>1, <2>1, <2>3, <3>1
  <2> QED
    BY <2>2, <2>3
<1> QED
  BY <1>2, <1>3, <1>4 DEF Place

(* The sheet grows around what is on it. *)
LEMMA SheetGrows ==
    ASSUME PackingAssumption, TypeOK, NEW t \in Tile, NEW e, Extended(t, e)
    PROVE  /\ e \in Rect /\ RootBounds \in Rect /\ RootBounds' \in Rect
           /\ Within(e, RootBounds') /\ Within(RootBounds, RootBounds')
           /\ Apart(RootBounds, e)
           /\ root'.w >= root.w /\ root'.h >= root.h /\ root'.h >= tiles[t].h
           /\ e.w = tiles[t].w \/ e.h = tiles[t].h
           /\ Fits(tiles[t], e) \/ (tiles[t].w > root.w /\ tiles[t].h > root.h)
<1>1. tiles[t] \in Size /\ root \in Size /\ e = Extension(tiles[t])
  BY DEF PackingAssumption, TypeOK, Tile, Extended
<1>2. root' = [w |-> e.x + e.w, h |-> e.y + e.h]
  BY DEF Extended
<1>3. RootBounds' = [x |-> 0, y |-> 0, w |-> e.x + e.w, h |-> e.y + e.h]
  BY <1>2 DEF RootBounds
<1>4. e \in Rect
  BY <1>1, ExtensionFacts
<1>5. RootBounds \in Rect /\ RootBounds' \in Rect
  BY <1>1, <1>3, <1>4 DEF RootBounds, Rect, Size
<1>6. root'.w = e.x + e.w /\ root'.h = e.y + e.h
  BY <1>2
<1> QED
  BY <1>1, <1>3, <1>4, <1>5, <1>6, ExtensionFacts

(* The root is the sheet. *)
LEMMA RootOnSheet ==
    ASSUME TypeOK
    PROVE  RootBounds \in Rect /\ Within(RootBounds, RootBounds)
<1>1. root.w \in Nat \ {0} /\ root.h \in Nat \ {0}
  BY DEF TypeOK, Size
<1> QED
  BY <1>1 DEF RootBounds, Rect, Within

(* A tile that is placed on the sheet stays on it, and so does what it leaves. *)
LEMMA TakeOnSheet ==
    ASSUME PackingAssumption, TypeOK, TypeOK', OnSheet, tiles' = tiles,
           NEW t \in Tile, NEW r \in Rect, NEW others \in SUBSET free,
           Fits(tiles[t], r), Take(t, r, others),
           Within(r, RootBounds'), Within(RootBounds, RootBounds')
    PROVE  OnSheet'
<1>1. RootBounds \in Rect /\ RootBounds' \in Rect /\ tiles[t] \in Size
  <2>1. root \in Size /\ root' \in Size /\ tiles[t] \in Size
    BY DEF TypeOK, PackingAssumption, Tile
  <2> QED
    BY <2>1 DEF RootBounds, Rect, Size
<1>2. ASSUME NEW u \in Placed'
      PROVE  Within(Area(u)', RootBounds')
  <2>1. CASE u = t
    <3>1. Area(u)' = [x |-> r.x, y |-> r.y, w |-> tiles[t].w, h |-> tiles[t].h]
      BY <2>1 DEF Take, TypeOK, Area
    <3> QED
      BY <3>1, <1>1, AreaFacts, WithinTransitive
  <2>2. CASE u # t
    <3>1. u \in Placed /\ Area(u)' = Area(u)
      BY <2>2 DEF Take, TypeOK, Area, Placed, Tile
    <3>2. Area(u) \in Rect /\ Within(Area(u), RootBounds)
      BY <3>1, AreaTypes DEF OnSheet
    <3> QED
      BY <3>1, <3>2, <1>1, WithinTransitive
  <2> QED
    BY <2>1, <2>2
<1>3. ASSUME NEW n \in free'
      PROVE  Within(n.bounds, RootBounds')
  <2>1. n \in others \/ n \in Left(t, r)
    BY DEF Take
  <2>2. CASE n \in others
    <3>1. n.bounds \in Rect /\ Within(n.bounds, RootBounds)
      BY <2>2 DEF OnSheet, TypeOK, Node
    <3> QED
      BY <3>1, <1>1, WithinTransitive
  <2>3. CASE n \in Left(t, r)
    <3>1. n.bounds \in Rect /\ Within(n.bounds, r)
      BY <2>3, LeftFacts DEF Node
    <3> QED
      BY <3>1, <1>1, WithinTransitive
  <2> QED
    BY <2>1, <2>2, <2>3
<1> QED
  BY <1>2, <1>3 DEF OnSheet

(* Every turn of the loop keeps tiles and free nodes on the sheet. *)
LEMMA OnSheetStep ==
    ASSUME PackingAssumption, TypeOK, OnSheet, NEW t \in Tile, Place(t)
    PROVE  OnSheet'
<1>1. TypeOK' /\ tiles' = tiles /\ Tile' = Tile
  BY TypeStep, StepShape
<1>2. CASE InRoot(t)
  <2>1. RootBounds' = RootBounds /\ Fits(tiles[t], RootBounds) /\ Take(t, RootBounds, free)
    BY <1>2 DEF InRoot, RootBounds, RootTakes
  <2> QED
    BY <1>1, <2>1, RootOnSheet, TakeOnSheet
<1>3. ASSUME NEW n, InNode(t, n)
      PROVE  OnSheet'
  <2>1. /\ RootBounds' = RootBounds /\ n \in free /\ Fits(tiles[t], n.bounds)
        /\ Take(t, n.bounds, free \ {n})
    BY <1>3 DEF InNode, RootBounds
  <2>2. n.bounds \in Rect /\ Within(n.bounds, RootBounds)
    BY <2>1 DEF TypeOK, Node, OnSheet
  <2> QED
    BY <1>1, <2>1, <2>2, RootOnSheet, TakeOnSheet
<1>4. ASSUME NEW e, Extended(t, e), Fits(tiles[t], e), Take(t, e, free)
      PROVE  OnSheet'
  BY <1>1, <1>4, SheetGrows, TakeOnSheet
<1>5. ASSUME NEW e, Extended(t, e), taken' = taken,
             free' = free \cup {[by |-> t, side |-> "grown", bounds |-> e]}
      PROVE  OnSheet'
  <2>1. /\ e \in Rect /\ RootBounds \in Rect /\ RootBounds' \in Rect
        /\ Within(e, RootBounds') /\ Within(RootBounds, RootBounds')
    BY <1>5, SheetGrows
  <2>2. ASSUME NEW u \in Placed'
        PROVE  Within(Area(u)', RootBounds')
    <3>1. u \in Placed /\ Area(u)' = Area(u)
      BY <1>1, <1>5 DEF Placed, Area
    <3>2. Area(u) \in Rect /\ Within(Area(u), RootBounds)
      BY <3>1, AreaTypes DEF OnSheet
    <3> QED
      BY <2>1, <3>1, <3>2, WithinTransitive
  <2>3. ASSUME NEW n \in free'
        PROVE  Within(n.bounds, RootBounds')
    <3>1. CASE n \in free
      <4>1. n.bounds \in Rect /\ Within(n.bounds, RootBounds)
        BY <3>1 DEF OnSheet, TypeOK, Node
      <4> QED
        BY <2>1, <4>1, WithinTransitive
    <3>2. CASE n \notin free
      BY <1>5, <2>1, <3>2
    <3> QED
      BY <3>1, <3>2
  <2> QED
    BY <2>2, <2>3 DEF OnSheet
<1> QED
  BY <1>2, <1>3, <1>4, <1>5, StepShape

-----------------------------------------------------------------------------
(* A step places its tile or loses it, and touches no other; the sheet only
   grows, and is then at least as high as the tile.                          *)
LEMMA StepBounds ==
    ASSUME PackingAssumption, TypeOK, OnSheet, NEW t \in Tile, Place(t)
    PROVE  /\ \A u \in Tile : u # t => taken'[u] = taken[u]
           /\ root'.w >= root.w /\ root'.h >= root.h /\ root'.h >= tiles[t].h
           /\ taken'[t] # None
              \/ (taken'[t] = taken[t] /\ tiles[t].w > root.w /\ tiles[t].h > root.h)
<1>1. /\ root.w \in Nat /\ root.h \in Nat
      /\ tiles[t].w \in Nat \ {0} /\ tiles[t].h \in Nat \ {0}
  <2>1. root \in Size /\ tiles[t] \in Size
    BY DEF TypeOK, PackingAssumption, Tile
  <2> QED
    BY <2>1 DEF Size
<1>2. ASSUME NEW r \in Rect, NEW others, Take(t, r, others)
      PROVE  taken'[t] # None /\ \A u \in Tile : u # t => taken'[u] = taken[u]
  BY <1>2 DEF Take, TypeOK, PackingAssumption
<1>3. CASE InRoot(t)
  <2>1. root' = root /\ Fits(tiles[t], RootBounds) /\ Take(t, RootBounds, free)
    BY <1>3 DEF InRoot, RootTakes
  <2>2. root.h >= tiles[t].h
    BY <1>1, <2>1 DEF Fits, RootBounds
  <2> QED
    BY <1>1, <1>2, <2>1, <2>2, RootOnSheet
<1>4. ASSUME NEW n, InNode(t, n)
      PROVE  /\ taken'[t] # None /\ \A u \in Tile : u # t => taken'[u] = taken[u]
             /\ root' = root /\ root.h >= tiles[t].h
  <2>1. /\ root' = root /\ n \in free /\ Fits(tiles[t], n.bounds)
        /\ Take(t, n.bounds, free \ {n})
    BY <1>4 DEF InNode
  <2>2. n.bounds \in Rect /\ Within(n.bounds, RootBounds)
    BY <2>1 DEF TypeOK, Node, OnSheet
  <2>3. root.h >= tiles[t].h
    BY <1>1, <2>1, <2>2 DEF Fits, Within, RootBounds, Rect
  <2> QED
    BY <1>2, <2>1, <2>2, <2>3
<1>5. ASSUME NEW e, Extended(t, e), Fits(tiles[t], e), Take(t, e, free)
      PROVE  taken'[t] # None /\ \A u \in Tile : u # t => taken'[u] = taken[u]
  BY <1>2, <1>5, SheetGrows
<1>6. ASSUME NEW e, Extended(t, e), ~Fits(tiles[t], e), taken' = taken
      PROVE  /\ taken'[t] = taken[t] /\ tiles[t].w > root.w /\ tiles[t].h > root.h
             /\ \A u \in Tile : u # t => taken'[u] = taken[u]
  BY <1>6, SheetGrows
<1>7. ASSUME NEW e, Extended(t, e)
      PROVE  root'.w >= root.w /\ root'.h >= root.h /\ root'.h >= tiles[t].h
  BY <1>7, SheetGrows
<1> QED
  BY <1>1, <1>3, <1>4, <1>5, <1>6, <1>7, StepShape

(* The first tile of the sort is the highest, and the sheet is at least as high
   as it from then on, so that no later tile is lost.                           *)
LEMMA SortedStep ==
    ASSUME PackingAssumption, TypeOK, OnSheet, Sorted, OnlyFirstLost, NEW t \in Tile, Place(t)
    PROVE  Sorted' /\ OnlyFirstLost'
<1>1. /\ tiles' = tiles /\ Tile' = Tile /\ todo' = todo \ {t}
      /\ t \in todo /\ \A u \in todo : ~Before(tiles[u], tiles[t])
  BY StepShape DEF IsNext
<1>2. /\ \A u \in Tile : u # t => taken'[u] = taken[u]
      /\ root'.w >= root.w /\ root'.h >= root.h /\ root'.h >= tiles[t].h
      /\ taken'[t] # None \/ (tiles[t].w > root.w /\ tiles[t].h > root.h)
  BY StepBounds
<1>3. /\ 1 \in Tile /\ todo \subseteq Tile
      /\ \A u \in Tile : tiles[u].w \in Nat /\ tiles[u].h \in Nat
  <2>1. PICK n \in 1 .. MaxTiles : tiles \in [1 .. n -> Sizes]
    BY DEF TypeOK
  <2>2. Tile = 1 .. n /\ 1 \in Tile
    BY <2>1 DEF Tile, PackingAssumption
  <2>3. \A u \in Tile : tiles[u] \in Size
    BY <2>1, <2>2 DEF PackingAssumption
  <2> QED
    BY <2>2, <2>3 DEF Size, TypeOK
<1>4. /\ root.w \in Nat /\ root.h \in Nat /\ root'.w \in Nat /\ root'.h \in Nat
  <2>1. root \in Size /\ root' \in Size
    BY TypeStep DEF TypeOK
  <2> QED
    BY <2>1 DEF Size
<1>5. ASSUME NEW u \in todo
      PROVE  tiles[u].h <= tiles[t].h
  <2>1. ~Before(tiles[u], tiles[t]) /\ u \in Tile
    BY <1>1, <1>3
  <2> QED
    BY <1>3, <2>1 DEF Before
<1>6. Sorted'
  <2>1. todo' # Tile /\ tiles[1]' = tiles[1]
    BY <1>1, <1>3
  <2>2. root'.w >= tiles[1].w /\ root'.h >= tiles[1].h
    BY <1>2, <1>3, <1>4 DEF Sorted
  <2>3. ASSUME NEW u \in todo'
        PROVE  tiles[u].h <= root'.h /\ taken'[u] = None
    <3>1. u \in todo /\ u # t /\ u \in Tile
      BY <1>1, <1>3
    <3> QED
      BY <1>2, <1>3, <1>4, <1>5, <3>1 DEF Sorted
  <2> QED
    BY <1>1, <2>1, <2>2, <2>3 DEF Sorted
<1>7. OnlyFirstLost'
  <2>1. ASSUME NEW u \in Tile, u # t
        PROVE  Lost(u)' <=> Lost(u)
    BY <1>1, <1>2, <2>1 DEF Lost
  <2>2. CASE taken'[t] # None
    <3>1. ~Lost(t)'
      BY <2>2 DEF Lost
    <3>2. ~Lost(t)
      BY <1>1 DEF Lost
    <3> QED
      BY <1>1, <2>1, <3>1, <3>2 DEF OnlyFirstLost
  <2>3. CASE tiles[t].w > root.w /\ tiles[t].h > root.h
    <3>1. todo = Tile
      BY <1>1, <1>3, <1>4, <2>3 DEF Sorted
    <3>2. tiles[t].w > tiles[1].w /\ tiles[t].h > tiles[1].h
      BY <1>3, <1>4, <2>3, <3>1 DEF Sorted
    <3>3. \A u \in Tile \ {t} : ~Lost(u)' /\ ~Before(tiles[u], tiles[t])
      BY <1>1, <2>1, <3>1 DEF Lost
    <3> QED
      BY <1>1, <3>2, <3>3 DEF OnlyFirstLost
  <2> QED
    BY <1>2, <2>2, <2>3
<1> QED
  BY <1>6, <1>7

-----------------------------------------------------------------------------
(* If the first tile asked for is the first of the sort, a free root is taken
   at once and exactly, and it is not free after any step.                     *)
LEMMA RootStep ==
    ASSUME PackingAssumption, TypeOK, Sorted, RootFirst, LeadsSort, NEW t \in Tile, Place(t)
    PROVE  /\ rootFree' = FALSE
           /\ rootFree => /\ InRoot(t) /\ free = {} /\ Placed = {}
                          /\ tiles[t].w = root.w /\ tiles[t].h = root.h
           /\ ~rootFree => ~InRoot(t)
<1>1. CASE rootFree
  <2>1. todo = Tile /\ free = {} /\ Placed = {} /\ root = tiles[1]
    BY <1>1 DEF RootFirst, Sorted
  <2>2. 1 \in Tile /\ tiles[1] \in Size /\ tiles[t] \in Size
    BY DEF TypeOK, PackingAssumption, Tile
  <2>3. ~Before(tiles[1], tiles[t]) /\ ~Before(tiles[t], tiles[1])
    BY <2>1, <2>2, StepShape DEF LeadsSort, IsNext
  <2>4. tiles[t].w = root.w /\ tiles[t].h = root.h
    BY <2>1, <2>2, <2>3 DEF Before, Size
  <2>5. RootTakes(t)
    BY <1>1, <2>1, <2>2, <2>4 DEF RootTakes, Fits, RootBounds, Size
  <2>6. InRoot(t)
    BY <2>5, StepShape DEF InNode, Extended
  <2> QED
    BY <1>1, <2>1, <2>4, <2>6 DEF InRoot
<1>2. CASE ~rootFree
  <2>1. ~InRoot(t)
    BY <1>2 DEF InRoot, RootTakes
  <2>2. rootFree' = rootFree
    BY <2>1, StepShape DEF InNode, Extended
  <2> QED
    BY <1>2, <2>1, <2>2 DEF TypeOK
<1> QED
  BY <1>1, <1>2

(* The root is only free as long as nothing else exists. *)
LEMMA RootFirstStep ==
    ASSUME PackingAssumption, TypeOK, Sorted, RootFirst, NEW t \in Tile, Place(t)
    PROVE  RootFirst'
<1>1. LeadsSort' <=> LeadsSort
  BY StepShape DEF LeadsSort
<1>2. LeadsSort => rootFree' = FALSE
  BY RootStep
<1> QED
  BY <1>1, <1>2 DEF RootFirst

(* A tile takes a rectangle that is clear of the others, and fills its width or
   its height: then it, and the one node it may leave, are clear of the others. *)
LEMMA TakeClear ==
    ASSUME PackingAssumption, TypeOK, TypeOK', Clear, tiles' = tiles,
           NEW t \in Tile, taken[t] = None, NEW r \in Rect, NEW others \in SUBSET free,
           Fits(tiles[t], r), Take(t, r, others),
           r.w = tiles[t].w \/ r.h = tiles[t].h,
           \A u \in Placed : Apart(Area(u), r),
           \A m \in others : Apart(m.bounds, r)
    PROVE  Clear'
<1> DEFINE a == [x |-> r.x, y |-> r.y, w |-> tiles[t].w, h |-> tiles[t].h]
<1>1. tiles[t] \in Size /\ r.w \in Nat /\ r.h \in Nat /\ tiles[t].w \in Nat /\ tiles[t].h \in Nat
  BY LeftFacts DEF Size, Rect
<1>2. a \in Rect /\ Within(a, r)
  BY <1>1, AreaFacts
<1>3. /\ Placed' = Placed \cup {t} /\ t \notin Placed
      /\ Area(t)' = a
      /\ \A u \in Placed : Area(u)' = Area(u)
  BY DEF Take, TypeOK, Placed, Area, Tile, PackingAssumption
<1>4. \A u \in Placed : Area(u) \in Rect
  BY AreaTypes
<1>5. \A m \in free : m.bounds \in Rect
  BY DEF TypeOK, Node
<1>6. ASSUME NEW n \in Left(t, r)
      PROVE  /\ n.bounds \in Rect /\ Within(n.bounds, r) /\ Apart(n.bounds, a)
             /\ \A m \in Left(t, r) : m = n
  <2>1. n.bounds \in Rect /\ Within(n.bounds, r) /\ Apart(n.bounds, a)
    BY LeftFacts DEF Node
  <2>2. ASSUME NEW m \in Left(t, r)
        PROVE  m = n
    <3>1. \A k \in Left(t, r) :
             \/ k.side = "bottom" /\ k.bounds.w = r.w /\ r.h > tiles[t].h
             \/ k.side = "right" /\ k.bounds.h = r.h /\ r.w > tiles[t].w
      BY LeftFacts
    <3>2. ~(r.w > tiles[t].w) \/ ~(r.h > tiles[t].h)
      BY <1>1
    <3>3. n.side = m.side
      BY <3>1, <3>2
    <3> QED
      BY <3>3 DEF Left
  <2> QED
    BY <2>1, <2>2
<1>7. ASSUME NEW p \in Rect, Apart(p, r)
      PROVE  /\ Apart(p, a) /\ Apart(a, p)
             /\ \A n \in Left(t, r) : Apart(p, n.bounds) /\ Apart(n.bounds, p)
  <2>1. Apart(r, p)
    BY <1>7 DEF Apart
  <2> QED
    BY <1>2, <1>6, <2>1, ApartPart
<1>8. ASSUME NEW u \in Placed', NEW v \in Placed', u # v
      PROVE  Apart(Area(u)', Area(v)')
  BY <1>3, <1>4, <1>7, <1>8 DEF Clear
<1>9. free' = others \cup Left(t, r)
  BY DEF Take
<1>10. ASSUME NEW u \in Placed', NEW n \in free'
       PROVE  Apart(Area(u)', n.bounds)
  <2>1. CASE u = t /\ n \in others
    BY <1>3, <1>5, <1>7, <2>1
  <2>2. CASE u = t /\ n \in Left(t, r)
    <3>1. Apart(a, n.bounds)
      BY <1>6, <2>2 DEF Apart
    <3> QED
      BY <1>3, <2>2, <3>1
  <2>3. CASE u \in Placed /\ n \in others
    BY <1>3, <2>3 DEF Clear
  <2>4. CASE u \in Placed /\ n \in Left(t, r)
    BY <1>3, <1>4, <1>7, <2>4
  <2> QED
    BY <1>3, <1>9, <2>1, <2>2, <2>3, <2>4
<1>11. ASSUME NEW n \in free', NEW m \in free', n # m
       PROVE  Apart(n.bounds, m.bounds)
  <2>1. CASE n \in others /\ m \in others
    BY <1>11, <2>1 DEF Clear
  <2>2. CASE n \in others /\ m \in Left(t, r)
    BY <1>5, <1>7, <2>2
  <2>3. CASE n \in Left(t, r) /\ m \in others
    BY <1>5, <1>7, <2>3
  <2>4. CASE n \in Left(t, r) /\ m \in Left(t, r)
    BY <1>6, <1>11, <2>4
  <2> QED
    BY <1>9, <2>1, <2>2, <2>3, <2>4
<1> QED
  BY <1>8, <1>10, <1>11 DEF Clear

(* A tile that fills the width or the height of its node meets no other. *)
LEMMA ClearStep ==
    ASSUME PackingAssumption, TypeOK, OnSheet, Sorted, RootFirst, ClearWhenSnug,
           NEW t \in Tile, Place(t)
    PROVE  ClearWhenSnug'
<1>1. TypeOK' /\ tiles' = tiles /\ Tile' = Tile /\ taken[t] = None
  BY TypeStep, StepShape DEF IsNext, Sorted
<1>2. SUFFICES ASSUME LeadsSort, \A u \in Placed' : Snug(u)'
               PROVE  Clear'
  BY <1>1 DEF ClearWhenSnug, LeadsSort
<1>3. \A u \in Tile : u # t => taken'[u] = taken[u]
  BY StepBounds
<1>4. \A u \in Placed : u # t /\ u \in Placed' /\ (Snug(u)' <=> Snug(u))
  BY <1>1, <1>3 DEF Placed, Snug
<1>5. Clear
  BY <1>2, <1>4 DEF ClearWhenSnug
<1>6. ASSUME NEW r \in Rect, NEW others, Take(t, r, others)
      PROVE  r.w = tiles[t].w \/ r.h = tiles[t].h
  <2>1. taken'[t] = r
    BY <1>6 DEF Take, TypeOK
  <2>2. t \in Placed'
    BY <1>1, <2>1 DEF Placed, PackingAssumption
  <2> QED
    BY <1>1, <1>2, <2>1, <2>2 DEF Snug
<1>7. CASE InRoot(t)
  <2>1. /\ free = {} /\ Placed = {} /\ tiles[t].w = root.w /\ tiles[t].h = root.h
        /\ Take(t, RootBounds, {}) /\ Fits(tiles[t], RootBounds)
    BY <1>2, <1>7, RootStep DEF InRoot, RootTakes
  <2>2. RootBounds \in Rect
    BY RootOnSheet
  <2>3. root.w \in Nat /\ root.h \in Nat /\ RootBounds.w = root.w /\ RootBounds.h = root.h
    BY DEF TypeOK, Size, RootBounds
  <2>4. \A k \in Left(t, RootBounds) :
             \/ k.side = "bottom" /\ k.bounds.w = RootBounds.w /\ RootBounds.h > tiles[t].h
             \/ k.side = "right" /\ k.bounds.h = RootBounds.h /\ RootBounds.w > tiles[t].w
    BY <2>1, <2>2, LeftFacts
  <2>5. Left(t, RootBounds) = {}
    BY <2>1, <2>3, <2>4
  <2>6. free' = {} /\ Placed' = {t}
    BY <1>1, <1>3, <2>1, <2>2, <2>5 DEF Take, Placed, TypeOK, PackingAssumption
  <2> QED
    BY <2>6 DEF Clear
<1>8. ASSUME NEW n, InNode(t, n)
      PROVE  Clear'
  <2>1. n \in free /\ Fits(tiles[t], n.bounds) /\ Take(t, n.bounds, free \ {n})
    BY <1>8 DEF InNode
  <2>2. n.bounds \in Rect
    BY <2>1 DEF TypeOK, Node
  <2>3. n.bounds.w = tiles[t].w \/ n.bounds.h = tiles[t].h
    BY <1>6, <2>1, <2>2
  <2>4. /\ \A u \in Placed : Apart(Area(u), n.bounds)
        /\ \A m \in free \ {n} : Apart(m.bounds, n.bounds)
    BY <1>5, <2>1 DEF Clear
  <2> QED
    BY <1>1, <1>5, <2>1, <2>2, <2>3, <2>4, TakeClear
<1>9. ASSUME NEW e, Extended(t, e)
      PROVE  /\ e \in Rect
             /\ \A u \in Placed : Apart(Area(u), e)
             /\ \A m \in free : Apart(m.bounds, e) /\ Apart(e, m.bounds)
  <2>1. e \in Rect /\ RootBounds \in Rect /\ Apart(RootBounds, e)
    BY <1>9, SheetGrows
  <2>2. \A u \in Placed : Area(u) \in Rect /\ Within(Area(u), RootBounds)
    BY AreaTypes DEF OnSheet
  <2>3. \A m \in free : m.bounds \in Rect /\ Within(m.bounds, RootBounds)
    BY DEF OnSheet, TypeOK, Node
  <2> QED
    BY <2>1, <2>2, <2>3, ApartPart
<1>10. ASSUME NEW e, Extended(t, e), Fits(tiles[t], e), Take(t, e, free)
       PROVE  Clear'
  <2>1. e.w = tiles[t].w \/ e.h = tiles[t].h
    BY <1>6, <1>9, <1>10
  <2> QED
    BY <1>1, <1>5, <1>9, <1>10, <2>1, TakeClear
<1>11. ASSUME NEW e, Extended(t, e), taken' = taken,
              free' = free \cup {[by |-> t, side |-> "grown", bounds |-> e]}
       PROVE  Clear'
  <2>1. Placed' = Placed /\ \A u \in Placed : Area(u)' = Area(u)
    BY <1>1, <1>11 DEF Placed, Area
  <2>2. \A n \in free' : n \in free \/ n.bounds = e
    BY <1>11
  <2>3. \A n \in free' \ free, m \in free' \ free : n = m
    BY <1>11
  <2>4. \A u \in Placed', v \in Placed' : u # v => Apart(Area(u)', Area(v)')
    BY <1>5, <2>1 DEF Clear
  <2>5. \A u \in Placed', n \in free' : Apart(Area(u)', n.bounds)
    BY <1>5, <1>9, <1>11, <2>1, <2>2 DEF Clear
  <2>6. \A n \in free', m \in free' : n # m => Apart(n.bounds, m.bounds)
    BY <1>5, <1>9, <1>11, <2>2, <2>3 DEF Clear
  <2> QED
    BY <2>4, <2>5, <2>6 DEF Clear
<1> QED
  BY <1>7, <1>8, <1>10, <1>11, StepShape

(* Tiles of one size: the root is taken exactly, an extension has the width or
   the height of a tile, and what a tile leaves of such a node is such a node.  *)
LEMMA SnugStep ==
    ASSUME PackingAssumption, TypeOK, Sorted, OnlyFirstLost, RootFirst, SnugWhenOneSize,
           OnSheet, NEW t \in Tile, Place(t)
    PROVE  SnugWhenOneSize'
<1>1. tiles' = tiles /\ Tile' = Tile /\ TypeOK' /\ taken[t] = None
  BY TypeStep, StepShape DEF IsNext, Sorted
<1>2. SUFFICES ASSUME OneSize
               PROVE  /\ \A u \in Placed' : Snug(u)'
                      /\ \A n \in free' : n.bounds.w = tiles[1].w \/ n.bounds.h = tiles[1].h
  BY <1>1 DEF SnugWhenOneSize, OneSize
<1>3. tiles[t] = tiles[1] /\ tiles[1].w \in Nat /\ tiles[1].h \in Nat
  <2>1. tiles[t] = tiles[1] /\ tiles[t] \in Size
    BY <1>2 DEF OneSize, TypeOK, PackingAssumption, Tile
  <2> QED
    BY <2>1 DEF Size
<1>4. LeadsSort
  BY <1>2, <1>3 DEF LeadsSort, OneSize, Before
<1>5. \A n \in free : n.bounds.w = tiles[1].w \/ n.bounds.h = tiles[1].h
  BY <1>2 DEF SnugWhenOneSize
<1>6. \A u \in Tile : u # t => taken'[u] = taken[u]
  BY StepBounds
<1>7. \A u \in Placed' : u # t => Snug(u)'
  <2>1. ASSUME NEW u \in Placed', u # t
        PROVE  Snug(u)'
    <3>1. u \in Placed /\ taken'[u] = taken[u]
      BY <1>1, <1>6, <2>1 DEF Placed
    <3>2. Snug(u)
      BY <1>2, <3>1 DEF SnugWhenOneSize
    <3> QED
      BY <1>1, <3>1, <3>2 DEF Snug
  <2> QED
    BY <2>1
<1>8. ASSUME NEW r \in Rect, NEW others \in SUBSET free, Fits(tiles[t], r), Take(t, r, others),
             r.w = tiles[1].w \/ r.h = tiles[1].h
      PROVE  /\ \A u \in Placed' : Snug(u)'
             /\ \A n \in free' : n.bounds.w = tiles[1].w \/ n.bounds.h = tiles[1].h
  <2>1. taken'[t] = r
    BY <1>8 DEF Take, TypeOK
  <2>2. Snug(t)'
    BY <1>1, <1>3, <1>8, <2>1 DEF Snug
  <2>3. \A k \in Left(t, r) :
             \/ k.side = "bottom" /\ k.bounds.w = r.w /\ r.h > tiles[t].h
             \/ k.side = "right" /\ k.bounds.h = r.h /\ r.w > tiles[t].w
    BY <1>8, LeftFacts
  <2>4. r.w \in Nat /\ r.h \in Nat
    BY DEF Rect
  <2>5. \A k \in Left(t, r) : k.bounds.w = tiles[1].w \/ k.bounds.h = tiles[1].h
    BY <1>3, <1>8, <2>3, <2>4
  <2>6. free' = others \cup Left(t, r)
    BY <1>8 DEF Take
  <2> QED
    BY <1>5, <1>7, <2>2, <2>5, <2>6
<1>9. CASE InRoot(t)
  <2>1. /\ tiles[t].w = root.w /\ Fits(tiles[t], RootBounds) /\ Take(t, RootBounds, free)
    BY <1>4, <1>9, RootStep DEF InRoot, RootTakes
  <2>2. RootBounds \in Rect /\ RootBounds.w = tiles[1].w
    BY <1>3, <2>1, RootOnSheet DEF RootBounds
  <2> QED
    BY <1>8, <2>1, <2>2
<1>10. ASSUME NEW n, InNode(t, n)
       PROVE  /\ \A u \in Placed' : Snug(u)'
              /\ \A m \in free' : m.bounds.w = tiles[1].w \/ m.bounds.h = tiles[1].h
  <2>1. n \in free /\ Fits(tiles[t], n.bounds) /\ Take(t, n.bounds, free \ {n})
    BY <1>10 DEF InNode
  <2>2. n.bounds \in Rect
    BY <2>1 DEF TypeOK, Node
  <2> QED
    BY <1>5, <1>8, <2>1, <2>2
<1>11. ASSUME NEW e, Extended(t, e), Fits(tiles[t], e), Take(t, e, free)
       PROVE  /\ \A u \in Placed' : Snug(u)'
              /\ \A m \in free' : m.bounds.w = tiles[1].w \/ m.bounds.h = tiles[1].h
  BY <1>3, <1>8, <1>11, SheetGrows
<1>12. ASSUME NEW e, Extended(t, e), ~Fits(tiles[t], e)
       PROVE  FALSE
  <2>1. tiles[t].w > root.w /\ root \in Size
    BY <1>12, SheetGrows DEF TypeOK
  <2>2. root.w >= tiles[1].w /\ root.w \in Nat
    BY <2>1 DEF Sorted, Size
  <2> QED
    BY <1>3, <2>1, <2>2
<1> QED
  BY <1>9, <1>10, <1>11, <1>12, StepShape

-----------------------------------------------------------------------------
(* A sheet of the size of the first tile, with nothing on it. *)
LEMMA Initial ==
    ASSUME PackingAssumption, Init
    PROVE  IInv
<1>1. PICK n \in 1 .. MaxTiles : tiles \in [1 .. n -> Sizes]
  BY DEF Init
<1>2. Tile = 1 .. n /\ 1 \in Tile
  BY <1>1 DEF Tile, PackingAssumption
<1>3. tiles[1] \in Size /\ \A t \in Tile : tiles[t] \in Size
  BY <1>1, <1>2 DEF PackingAssumption
<1>4. TypeOK
  BY <1>1, <1>3 DEF Init, TypeOK
<1>5. Placed = {} /\ free = {} /\ todo = Tile /\ root = tiles[1]
  BY DEF Init, Placed
<1>6. Sorted
  BY <1>2, <1>3 DEF Init, Sorted, Size
<1>7. OnlyFirstLost
  BY <1>5 DEF OnlyFirstLost, Lost
<1> QED
  BY <1>4, <1>5, <1>6, <1>7
  DEF IInv, OnSheet, RootFirst, ClearWhenSnug, Clear, SnugWhenOneSize

(* Every turn of the loop of Sprite::build preserves the invariant. *)
THEOREM Inductive ==
    ASSUME PackingAssumption, IInv, [Next]_vars
    PROVE  IInv'
<1>1. CASE UNCHANGED vars
  BY <1>1 DEF vars, IInv, TypeOK, OnSheet, Sorted, OnlyFirstLost, RootFirst, ClearWhenSnug,
              SnugWhenOneSize, Tile, Placed, RootBounds, Area, Lost, LeadsSort, OneSize,
              Snug, Clear
<1>2. ASSUME NEW t \in Tile, Place(t)
      PROVE  IInv'
  BY <1>2, TypeStep, OnSheetStep, SortedStep, RootFirstStep, ClearStep, SnugStep DEF IInv
<1> QED
  BY <1>1, <1>2 DEF Next

(* The invariant holds throughout every run of Sprite::build. *)
THEOREM Invariance ==
    ASSUME PackingAssumption
    PROVE  Spec => []IInv
BY Initial, Inductive, PTL DEF Spec

(* Every variable of the layout keeps its type: in particular no node is empty
   and no length negative.                                                      *)
THEOREM TypeCorrect ==
    ASSUME PackingAssumption
    PROVE  Spec => []TypeOK
<1>1. IInv => TypeOK
  BY DEF IInv
<1> QED
  BY <1>1, Invariance, PTL

(* Whatever the tiles are, and in whatever order the nodes are walked, all tiles
   that are placed and all free nodes lie on the sheet.                          *)
THEOREM StaysOnSheet ==
    ASSUME PackingAssumption
    PROVE  Spec => []OnSheet
<1>1. IInv => OnSheet
  BY DEF IInv
<1> QED
  BY <1>1, Invariance, PTL

(* Only the first tile of the sort can fail to fit its extension, and only if
   the sheet began with one that is both lower and narrower.                  *)
THEOREM OnlyFirstIsLost ==
    ASSUME PackingAssumption
    PROVE  Spec => []OnlyFirstLost
<1>1. IInv => OnlyFirstLost
  BY DEF IInv
<1> QED
  BY <1>1, Invariance, PTL

(* Two tiles meet only where a node was split both ways, or when the sheet did
   not begin with the first tile of the sort.                                  *)
THEOREM TilesApart ==
    ASSUME PackingAssumption
    PROVE  Spec => []ApartUnlessSplit
<1>1. IInv => ApartUnlessSplit
  BY DEF IInv, ClearWhenSnug, ApartUnlessSplit, LeadsSort, Clear, Snug
<1> QED
  BY <1>1, Invariance, PTL

(* Tiles of one size are all placed, and none meets another. *)
THEOREM TilesOfOneSize ==
    ASSUME PackingAssumption
    PROVE  Spec => []SameSizeApart
<1>1. ASSUME IInv, \A t \in Tile : tiles[t] = tiles[1]
      PROVE  /\ \A t \in Tile : ~Lost(t)
             /\ \A t, u \in Placed : t # u => Apart(Area(t), Area(u))
  <2>1. 1 \in Tile /\ tiles[1].w \in Nat /\ tiles[1].h \in Nat
    <3>1. PICK n \in 1 .. MaxTiles : tiles \in [1 .. n -> Sizes]
      BY <1>1 DEF IInv, TypeOK
    <3>2. 1 \in Tile /\ tiles[1] \in Size
      BY <3>1 DEF Tile, PackingAssumption
    <3> QED
      BY <3>2 DEF Size
  <2>2. \A t \in Tile : ~Lost(t)
    BY <1>1, <2>1 DEF IInv, OnlyFirstLost
  <2>3. LeadsSort /\ \A t \in Placed : Snug(t)
    BY <1>1, <2>1 DEF IInv, SnugWhenOneSize, OneSize, LeadsSort, Before
  <2> QED
    BY <1>1, <2>2, <2>3 DEF IInv, ClearWhenSnug, Clear
<1>2. IInv => SameSizeApart
  BY <1>1 DEF SameSizeApart
<1> QED
  BY <1>2, Invariance, PTL

=============================================================================
