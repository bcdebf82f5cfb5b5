----------------------------- MODULE SpriteStyles -----------------------------
(***************************************************************************)
(* A sprite from its layout to the page: the renderers draw the sheet,     *)
(* SpriteController::saveSprite describes it, spriteCSS makes the style    *)
(* that shows each picture in a box of its own.  Sprite::build goes first, *)
(* one tile a step.                                                        *)
(*                                                                         *)
(* The sheet is drawn at Scale times the size of the layout and served at  *)
(* three scales; lengths are those of the layout unless they say scaled.   *)
(***************************************************************************)
EXTENDS SpritePacking, Integers, TLC, SequencesExt

CONSTANTS
    ImageKeys,
    Original,    \* image key -> the size of the uploaded picture
    Namings,     \* the lists of image keys that requests may name, tile by tile
    ClassPrefixes,    \* class prefixes a page may ask for
    FinePrefixes,\* those whose boxes' classes begin with "sp2w"
    Word,        \* 2^64: the numbers of size_t and of uint64_t
    Nil          \* nothing was drawn, saved or asked for

Padding == 1
Scale   == 3
Engines == {"magick", "opencv"}

(* As many tiles of this length as a sprite may have, and one, are no longer on
   the sheet than numbers go: its pixels could not be counted else.            *)
Countable(length) == Scale * (MaxTiles + 1) * length < Word

(* A picture of no width is never made: aspectFit throws before build. *)
ASSUME StylesAssumption ==
    /\ \A s \in Sizes : s.w > 2 * Padding /\ s.h > 2 * Padding
    /\ Word \in Nat
    /\ \A s \in Sizes : Countable(s.w) /\ Countable(s.h)
    /\ Original \in [ImageKeys -> Size]
    /\ \A n \in Namings : n \in Seq(ImageKeys) /\ Len(n) >= MaxTiles
    /\ FinePrefixes \subseteq ClassPrefixes

VARIABLES
    imageKey,  \* tile -> the key of its image
    exact,     \* images stored in just the box of the first tile that names them
    drawing,   \* what renderSprite drew: the engine, and tile -> scaled bounds
    document,  \* the document saved in the meta bucket
    page       \* the style sheet sent

stylesVars == <<vars, imageKey, exact, drawing, document, page>>

-----------------------------------------------------------------------------
(* Tile::bounds: place moves a tile into its node by the padding; a tile that
   fitted nowhere has the origin it was made with.                           *)
NetSize(t) == [w |-> tiles[t].w - 2 * Padding, h |-> tiles[t].h - 2 * Padding]

Origin(t) ==
    IF taken[t] = None THEN [x |-> 0, y |-> 0]
    ELSE [x |-> taken[t].x + Padding, y |-> taken[t].y + Padding]

Scaled(size) == [w |-> Scale * size.w, h |-> Scale * size.h]

(* aspectFit, in exact numbers. *)
AspectFit(size, box) ==
    IF box.w * size.h <= box.h * size.w
      THEN [w |-> box.w, h |-> (size.h * box.w) \div size.w]
      ELSE [w |-> (size.w * box.h) \div size.h, h |-> box.h]

(* Maps keyed by image hold what the last tile of the image put there. *)
LastOf(k) == CHOOSE t \in Tile : imageKey[t] = k /\ \A u \in Tile : imageKey[u] = k => u <= t

Alone(t) == \A u \in Tile \ {t} : imageKey[u] # imageKey[t]

FirstOf(k) == CHOOSE t \in Tile : imageKey[t] = k /\ \A u \in Tile : imageKey[u] = k => t <= u

(* The picture a tile is given, the answer of getImagesData for its image: it
   looks for a version for the first descriptor of the image.  If that is exact,
   it is the answer; if not, the answer is fitted to the last one.               *)
Picture(t) ==
    LET k == imageKey[t]
    IN  AspectFit(Original[k], Scaled(NetSize(IF k \in exact THEN FirstOf(k) ELSE LastOf(k))))

-----------------------------------------------------------------------------
(* Faulty variants. *)

(* The padding is not taken off. *)
SheetPosition_Net(c) == Scale * c

(* Pictures are enlarged, and their places are not. *)
MagickBounds_Unscaled(t) ==
    [x |-> Origin(t).x, y |-> Origin(t).y, w |-> Scale * NetSize(t).w, h |-> Scale * NetSize(t).h]

(* The percentages are those of the padded tile. *)
PositionRatio_Gross(o, size, whole) == [over |-> Padding - o, under |-> whole - size]

(* The images are taken in the order they were saved in. *)
BgScales_Saved(images) == images

-----------------------------------------------------------------------------
(* MagickRenderer::renderTile: the picture is stretched over the middle of its
   box, by the size it was asked in, which it need not have.                  *)
MagickBounds(t) ==
    LET box  == Scaled(NetSize(t))
        size == AspectFit(Scaled(NetSize(t)), box)
    IN  [x |-> Scale * Origin(t).x + (box.w - size.w) \div 2,
         y |-> Scale * Origin(t).y + (box.h - size.h) \div 2, w |-> size.w, h |-> size.h]

(* OpenCVRenderer::renderSprite counts the rows from below, and draws the
   picture in the size it has.                                               *)
OpenCVBounds(t) ==
    [x |-> Scale * Origin(t).x,
     y |-> Scale * root.h - Scale * (Origin(t).y + NetSize(t).h),
     w |-> Picture(t).w, h |-> Picture(t).h]

Canvas == [x |-> 0, y |-> 0, w |-> Scale * root.w, h |-> Scale * root.h]

(* The mask of a picture is made with columns for rows, and what the library
   is given must lie on the canvas: blendImage throws otherwise.              *)
CanBlend(t) ==
    /\ Picture(t).w = Picture(t).h
    /\ OpenCVBounds(t).y >= 0 /\ Within(OpenCVBounds(t), Canvas)

(* spriteSheetImages, in the arithmetic of unsigned numbers. *)
SheetPosition(c) == Scale * ((c - Padding) % Word) % Word

(* A percentage of the style, as a fraction. *)
PositionRatio(o, size, whole) == [over |-> -o, under |-> whole - size]

SpriteSheetImages ==
    [k \in {imageKey[t] : t \in Tile} |->
       LET t == LastOf(k)
       IN  [width |-> Scale * tiles[t].w, height |-> Scale * tiles[t].h,
            x |-> SheetPosition(Origin(t).x), y |-> SheetPosition(Origin(t).y),
            img |-> NetSize(t),
            bgPosX |-> PositionRatio(Origin(t).x, NetSize(t).w, root.w),
            bgPosY |-> PositionRatio(Origin(t).y, NetSize(t).h, root.h)]]

(* spriteCSS sorts the images, which are of different scales. *)
BgScales(images) ==
    CHOOSE s \in [1 .. Len(images) -> Range(images)] : \A i, j \in DOMAIN s : i < j => s[i] < s[j]

-----------------------------------------------------------------------------
(* For an image that one tile names, it makes no difference what is stored. *)
StylesInit ==
    /\ Init
    /\ \E n \in Namings : imageKey = [t \in Tile |-> n[t]]
    /\ exact \in SUBSET {imageKey[t] : t \in {u \in Tile : ~Alone(u)}}
    /\ drawing = Nil /\ document = Nil /\ page = Nil

Build == Next /\ UNCHANGED <<imageKey, exact, drawing, document, page>>

(* saveSprite draws the sheet, and saves its description and the scales of the
   three images, from the largest.  If a picture cannot be drawn it throws, and
   the request is over with nothing saved.                                     *)
SaveSprite(engine) ==
    /\ todo = {} /\ drawing = Nil
    /\ engine = "opencv" => \A t \in Tile : CanBlend(t)
    /\ drawing' = [engine |-> engine,
                   bounds |-> [t \in Tile |-> IF engine = "magick" THEN MagickBounds(t)
                                                                  ELSE OpenCVBounds(t)]]
    /\ document' = [entries |-> SpriteSheetImages, images |-> <<3, 2, 1>>]
    /\ UNCHANGED <<vars, imageKey, exact, page>>

(* A rule for a screen at least so fine, for the boxes of some prefixes. *)
Rule(finest, prefixes, image) == [screen |-> finest, prefixes |-> prefixes, image |-> image]

SpriteCSS(prefix) ==
    LET bg == BgScales(document.images)
    IN  /\ document # Nil /\ page = Nil
        /\ page' = [prefix |-> prefix, boxes |-> document.entries,
                    media |-> <<Rule(1, {prefix}, bg[1]), Rule(2, {prefix}, bg[2]),
                                Rule(3, FinePrefixes, bg[3])>>]
        /\ UNCHANGED <<vars, imageKey, exact, drawing, document>>

StylesNext ==
    \/ Build
    \/ \E engine \in Engines : SaveSprite(engine)
    \/ \E prefix \in ClassPrefixes : SpriteCSS(prefix)

StylesSpec == StylesInit /\ [][StylesNext]_stylesVars

-----------------------------------------------------------------------------
(* What a browser makes of the style.  A background at over/under of the room
   that is left has its corner there, and is repeated in both directions: the
   box shows the sheet from this place on.                                    *)
ShownFrom(ratio, size, whole) == (-(((size - whole) * ratio.over) \div ratio.under)) % whole

(* The last rule that applies to a screen and to the boxes of the page. *)
Background(screen) ==
    page.media[SelectLastInSeq(page.media,
                   LAMBDA r : r.screen <= screen /\ page.prefix \in r.prefixes)].image

(* The document (SpriteController.cpp:80-92) gives for every image the padded
   box of its last tile: on the largest sheet, and where ImageMagick draws it.
   Of the tile that fits nowhere it gives a place that wrapped below zero.     *)
PositionsTrue ==
    document # Nil => \A k \in DOMAIN document.entries :
        LET t == LastOf(k)
            e == document.entries[k]
        IN  IF Lost(t) THEN e.x = Word - Scale * Padding /\ e.y = Word - Scale * Padding
            ELSE /\ Within([x |-> e.x, y |-> e.y, w |-> e.width, h |-> e.height], Canvas)
                 /\ drawing.engine = "magick" =>
                      drawing.bounds[t] = [x |-> e.x + Scale * Padding, y |-> e.y + Scale * Padding,
                                           w |-> e.width - 2 * Scale * Padding,
                                           h |-> e.height - 2 * Scale * Padding]

(* Tiles that do not meet in the layout do not meet on the sheet, whatever the
   renderer (MagickRenderer.cpp:47, OpenCVRenderer.cpp:163), and stay on it;
   OpenCV, which does not fit pictures, needs for it that no image is named
   twice, for then a tile is given the picture that was made for another.       *)
DrawnApart ==
    (drawing # Nil /\ (drawing.engine = "opencv" => \A t \in Tile : Alone(t)))
    => \A t \in Placed :
         /\ Within(drawing.bounds[t], Canvas)
         /\ \A u \in Placed \ {t} :
              Apart(Area(t), Area(u)) => Apart(drawing.bounds[t], drawing.bounds[u])

(* The percentages of the style have the wrong sign (SpriteController.cpp:105):
   they are defined for every tile that was placed, but a box shows the picture
   of its tile only if that tile begins at the middle of the sheet, in both
   directions, and never if OpenCV has drawn it.                                *)
ShowsItsTile(t) ==
    LET e == page.boxes[imageKey[t]]
    IN  /\ drawing.bounds[t].x = Scale * ShownFrom(e.bgPosX, e.img.w, root.w)
        /\ drawing.bounds[t].y = Scale * ShownFrom(e.bgPosY, e.img.h, root.h)

BoxesShow ==
    page # Nil => \A t \in Placed : Alone(t) =>
        /\ page.boxes[imageKey[t]].bgPosX.under > 0 /\ page.boxes[imageKey[t]].bgPosY.under > 0
        /\ ShowsItsTile(t) <=> /\ drawing.engine = "magick"
                               /\ 2 * Origin(t).x = root.w /\ 2 * Origin(t).y = root.h

(* Each screen is given the image of its resolution, however the document
   lists them; but the rule for the finest screens names one prefix, not that
   of the page (SpriteController.cpp:217), so that other boxes, those of the
   default prefix among them, keep the image for the screens before.          *)
ScreensServed ==
    page # Nil => \A screen \in 1 .. 3 :
        Background(screen) = IF screen = 3 /\ page.prefix \notin FinePrefixes THEN 2 ELSE screen

=============================================================================
