---------------------------- MODULE SpritePacking ----------------------------
(***************************************************************************)
(* Sprite::build: where the tiles of a sprite go on its sheet.             *)
(*                                                                         *)
(* The code keeps a tree of SpriteNodes.  A node that holds a tile is only *)
(* passed through on the way to its subnodes, and a node without a tile    *)
(* has none, the root excepted: the tree is kept here as the root, the     *)
(* free nodes below it and the bounds of the node each tile took.  place   *)
(* walks the subnodes in the order of an unordered_set of pointers, which  *)
(* is any order, so that a tile takes any free node it fits into; but the  *)
(* root, as long as it is free, is asked before the others.                *)
(*                                                                         *)
(* All sizes are gross: padding, which is the same for all tiles, is part  *)
(* of them.                                                                *)
(***************************************************************************)
EXTENDS Naturals

CONSTANTS
    Sizes,     \* the gross sizes a tile may have
    MaxTiles,  \* bound: the most tiles of a sprite
    None       \* the node of a tile that has none

Size == [w : Nat \ {0}, h : Nat \ {0}]
Rect == [x : Nat, y : Nat, w : Nat \ {0}, h : Nat \ {0}]

ASSUME PackingAssumption == Sizes \subseteq Size /\ MaxTiles \in Nat /\ None \notin Rect

VARIABLES
    tiles,     \* Sprite::tiles, as they were asked for: their gross sizes
    todo,      \* the positions in tiles that build has still to place
    root,      \* the size of the root, which grows; at the end Sprite::bounds
    rootFree,  \* whether the root holds no tile
    free,      \* the free nodes below the root
    taken      \* the bounds of the node a tile was placed in, at that moment

vars == <<tiles, todo, root, rootFree, free, taken>>

Tile == DOMAIN tiles
Placed == {t \in Tile : taken[t] # None}

(* A free node is known by its bounds and by its origin: the tile beside or
   below which it is left, or for which the sheet was extended.             *)
Node == [by : Nat, side : {"bottom", "right", "grown"}, bounds : Rect]

TypeOK ==
    /\ \E n \in 1 .. MaxTiles : tiles \in [1 .. n -> Sizes]
    /\ todo \subseteq Tile
    /\ root \in Size
    /\ rootFree \in BOOLEAN
    /\ free \subseteq Node
    /\ taken \in [Tile -> Rect \cup {None}]

-----------------------------------------------------------------------------
(* The comparator of the sort: higher tiles first, among them wider ones. *)
Before(s, t) == s.h > t.h \/ (s.h = t.h /\ s.w > t.w)

IsNext(t) == t \in todo /\ \A u \in todo : ~Before(tiles[u], tiles[t])

(* The comparator also holds of two tiles of one size.  A sort by insertion, in
   any order of these, is all that std::sort does with at most so many elements;
   of more it may leave its range, and what build does then is not defined.      *)
Threshold == 16

Sortable ==
    \/ \A t \in Tile : t <= Threshold
    \/ \A t, u \in Tile : t # u => tiles[t] # tiles[u]

Fits(s, r) == s.w <= r.w /\ s.h <= r.h

RootBounds == [x |-> 0, y |-> 0, w |-> root.w, h |-> root.h]

Below(s, r) == [x |-> r.x, y |-> r.y + s.h, w |-> r.w, h |-> r.h - s.h]
Beside(s, r) == [x |-> r.x + s.w, y |-> r.y, w |-> r.w - s.w, h |-> r.h]

-----------------------------------------------------------------------------
(* Faulty variants of the definitions below, each with a bug this code could
   have had.  No specification uses them: they show that a property can fail. *)

(* An empty node is left where nothing is left. *)
Left_Empty(t, r) ==
    {[by |-> t, side |-> "bottom", bounds |-> Below(tiles[t], r)],
     [by |-> t, side |-> "right", bounds |-> Beside(tiles[t], r)]}

(* The node beside a tile is as wide as the node that was split. *)
Left_TooWide(t, r) ==
    {n \in {[by |-> t, side |-> "bottom", bounds |-> Below(tiles[t], r)],
            [by |-> t, side |-> "right", bounds |-> [r EXCEPT !.x = @ + tiles[t].w]]} :
        n.bounds.h > 0 /\ r.w > tiles[t].w}

(* The nodes begin where the tile begins. *)
Left_NotMoved(t, r) ==
    {n \in {[by |-> t, side |-> "bottom", bounds |-> [r EXCEPT !.h = @ - tiles[t].h]],
            [by |-> t, side |-> "right", bounds |-> [r EXCEPT !.w = @ - tiles[t].w]]} :
        n.bounds.w > 0 /\ n.bounds.h > 0}

(* A node below the root is not marked as taken. *)
PlaceInNode_Kept(t) ==
    /\ ~(rootFree /\ Fits(tiles[t], RootBounds))
    /\ \E n \in free : /\ Fits(tiles[t], n.bounds)
                      /\ taken' = [taken EXCEPT ![t] = n.bounds]
    /\ UNCHANGED <<free, root, rootFree>>

(* growToFit only looks at the shape of the sheet, not at the tile. *)
GrowsRight_AnyTile(s) == root.h >= root.w + s.w \/ root.w < root.h + s.h

-----------------------------------------------------------------------------
(* The sheet begins with the size of the first tile as it was asked for,
   which need not be the first to be placed.  The behaviour of a sprite that
   cannot be sorted is undefined: nothing is said of it.                     *)
Init ==
    /\ \E n \in 1 .. MaxTiles : tiles \in [1 .. n -> Sizes]
    /\ Sortable
    /\ todo = Tile
    /\ root = tiles[1]
    /\ rootFree = TRUE
    /\ free = {}
    /\ taken = [t \in Tile |-> None]

(* What a tile leaves of the node it is placed in: a node below it over the
   whole width, and one beside it over the whole height.                   *)
Left(t, r) ==
    {n \in {[by |-> t, side |-> "bottom", bounds |-> Below(tiles[t], r)],
            [by |-> t, side |-> "right", bounds |-> Beside(tiles[t], r)]} :
        n.bounds.w > 0 /\ n.bounds.h > 0}

(* place succeeds on a free node r, and others are the nodes beside it. *)
Take(t, r, others) ==
    /\ taken' = [taken EXCEPT ![t] = r]
    /\ free' = others \cup Left(t, r)

RootTakes(t) == rootFree /\ Fits(tiles[t], RootBounds)

Open(t) == {n \in free : Fits(tiles[t], n.bounds)}

PlaceInRoot(t) ==
    /\ RootTakes(t)
    /\ Take(t, RootBounds, free)
    /\ rootFree' = FALSE
    /\ UNCHANGED root

PlaceInNode(t) ==
    /\ ~RootTakes(t)
    /\ \E n \in Open(t) : Take(t, n.bounds, free \ {n})
    /\ UNCHANGED <<root, rootFree>>

GrowsRight(s) ==
    /\ s.h <= root.h
    /\ \/ root.h >= root.w + s.w
       \/ ~(s.w <= root.w /\ root.w >= root.h + s.h)

(* The new strip of the sheet that growToFit makes for a tile of size s. *)
Extension(s) ==
    IF GrowsRight(s) THEN [x |-> root.w, y |-> 0, w |-> s.w, h |-> root.h]
                     ELSE [x |-> 0, y |-> root.h, w |-> root.w, h |-> s.h]

(* The tile is placed in the extension, if it fits; nobody looks at the result
   of that, and a tile that does not fit keeps the origin it was made with.    *)
GrowToFit(t) ==
    LET e == Extension(tiles[t])
    IN  /\ ~RootTakes(t) /\ Open(t) = {}
        /\ root' = [w |-> e.x + e.w, h |-> e.y + e.h]
        /\ UNCHANGED rootFree
        /\ IF Fits(tiles[t], e)
           THEN Take(t, e, free)
           ELSE /\ free' = free \cup {[by |-> t, side |-> "grown", bounds |-> e]}
                /\ UNCHANGED taken

(* One turn of the loop of build. *)
Place(t) ==
    /\ IsNext(t)
    /\ todo' = todo \ {t}
    /\ PlaceInRoot(t) \/ PlaceInNode(t) \/ GrowToFit(t)
    /\ UNCHANGED tiles

Next == \E t \in Tile : Place(t)

Spec == Init /\ [][Next]_vars

-----------------------------------------------------------------------------
Within(r, q) ==
    /\ q.x <= r.x /\ r.x + r.w <= q.x + q.w
    /\ q.y <= r.y /\ r.y + r.h <= q.y + q.h

Apart(r, q) ==
    \/ r.x + r.w <= q.x \/ q.x + q.w <= r.x
    \/ r.y + r.h <= q.y \/ q.y + q.h <= r.y

(* Where a tile that was placed lies on the sheet. *)
Area(t) == [x |-> taken[t].x, y |-> taken[t].y, w |-> tiles[t].w, h |-> tiles[t].h]

Lost(t) == t \notin todo /\ taken[t] = None

(* However the sheet grows and its nodes are split (Sprite.cpp:71-137), every
   tile and every free node stay on it: renderSprite draws on a canvas of
   Sprite::bounds, and spriteSheetImages divides by them.                     *)
OnSheet ==
    /\ \A t \in Placed : Within(Area(t), RootBounds)
    /\ \A n \in free : Within(n.bounds, RootBounds)

(* build ignores what place answers for an extension (Sprite.cpp:172-173), and
   SpriteController.cpp:89 then subtracts the padding from an origin of 0.  It
   happens to one tile at most, the first of the sort, and only if it is both
   higher and wider than the first one asked for, with which the sheet begins.  *)
OnlyFirstLost ==
    \A t \in Tile : Lost(t) =>
        /\ tiles[t].w > tiles[1].w /\ tiles[t].h > tiles[1].h
        /\ \A u \in Tile \ {t} : ~Lost(u) /\ ~Before(tiles[u], tiles[t])

(* The two nodes left beside a tile overlap in a corner (Sprite.cpp:84-100), and
   the root may be taken after it has grown over its extensions (Sprite.cpp:74).
   Nothing else puts a tile on another: if the first tile asked for is the first
   of the sort, and each tile is as wide or as high as the node it took, then no
   two tiles meet.                                                              *)
ApartUnlessSplit ==
    (/\ \A t \in Tile : ~Before(tiles[t], tiles[1])
     /\ \A t \in Placed : taken[t].w = tiles[t].w \/ taken[t].h = tiles[t].h)
    => \A t, u \in Placed : t # u => Apart(Area(t), Area(u))

(* A sprite of tiles of one size, of as many as can be sorted, has all of them
   on its sheet and none over another, in whatever order the sort left them and
   the hash table of each node is walked (Sprite.cpp:105-107).                  *)
SameSizeApart ==
    (\A t \in Tile : tiles[t] = tiles[1])
    => /\ \A t \in Tile : ~Lost(t)
       /\ \A t, u \in Placed : t # u => Apart(Area(t), Area(u))

=============================================================================
