----------------------------- MODULE SpriteSheets -----------------------------
(***************************************************************************)
(* One sprite: SpriteMaker and SpriteController make it, SpriteCSS and     *)
(* SpriteSheet deliver it, each request on a thread of its own.            *)
(*                                                                         *)
(* A sprite's key is the digest of what was asked for, so all its makers   *)
(* place the same tiles; yet Sprite::build may lay them out differently    *)
(* each time (SpritePacking).  The meta bucket has the document, which     *)
(* gives the place of every tile and names three images; the data bucket   *)
(* has the images, at three scales, under keys made of the sprite's key    *)
(* and the image's size.  Bucket operations are as in ImageVersions: one   *)
(* step, or a failure after which a write may still take effect.           *)
(***************************************************************************)
EXTENDS Naturals

CONSTANTS
    Clients,  \* request threads
    Layouts,  \* the ways the tiles of the sprite may be laid out
    SizeOf,   \* layout -> the size of its sheet: Sprite::bounds
    Nil       \* no document, no image

Scale == 1 .. 3

ASSUME SheetsAssumption ==
    SizeOf \in [Layouts -> Nat \ {0}] /\ Nil \notin Layouts /\ Nil \notin [layout : Layouts, scale : Scale]

VARIABLES
    sheet,    \* the document: the layout it describes, or Nil
    image,    \* key of an image -> what is drawn on it, or Nil
    stray,    \* writes nobody waits for that may still reach a server
    request   \* each thread's request

vars == <<sheet, image, stray, request>>

(* Faulty variant: images of all scales have one name. *)
Key_Unscaled(l, scale) == SizeOf[l]

(* saveResolution names an image after its size. *)
Key(l, scale) == scale * SizeOf[l]
Keys == {Key(l, n) : l \in Layouts, n \in Scale}

Drawing(l, scale) == [layout |-> l, scale |-> scale]

-----------------------------------------------------------------------------
(* saveSprite writes the largest image, the two drawn from it, and then the
   document.                                                                *)
ImageWrite(l, scale) == [to |-> "image", key |-> Key(l, scale), value |-> Drawing(l, scale)]
SheetWrite(l) == [to |-> "sheet", key |-> 0, value |-> l]

(* Faulty variant: the document is written when the largest image is. *)
Writes_SheetEarly(l) == <<ImageWrite(l, 3), SheetWrite(l), ImageWrite(l, 2), ImageWrite(l, 1)>>

(* Faulty variant: the image for the medium screen is drawn in full size. *)
Writes_Unscaled(l) ==
    <<ImageWrite(l, 3), [ImageWrite(l, 2) EXCEPT !.value = Drawing(l, 3)],
      ImageWrite(l, 1), SheetWrite(l)>>

Writes(l) == <<ImageWrite(l, 3), ImageWrite(l, 2), ImageWrite(l, 1), SheetWrite(l)>>

Idle == [stage |-> "idle"]

Pending(c) == IF request[c].stage = "save" THEN {Writes(request[c].layout)[request[c].next]} ELSE {}

(* Faulty variant: the images are given to the connection of the documents. *)
Written_WrongBucket(w) == sheet' = w.value /\ UNCHANGED image

Written(w) ==
    IF w.to = "image" THEN image' = [image EXCEPT ![w.key] = w.value] /\ UNCHANGED sheet
                      ELSE sheet' = w.value /\ UNCHANGED image

(* After a write by someone else a maker is not alone any more (alone is there
   for AloneIsTrue only; no step depends on it).                              *)
Disturbed(r) == IF r.stage \in {"save", "made"} THEN [r EXCEPT !.alone = FALSE] ELSE r

(* The handler's catch block, and the end of a request. *)
End(c) == request' = [request EXCEPT ![c] = Idle]

(* The process ends and is started again. *)
Restart ==
    /\ request' = [c \in Clients |-> Idle]
    /\ stray' = stray \cup UNION {Pending(c) : c \in Clients}
    /\ UNCHANGED <<sheet, image>>

-----------------------------------------------------------------------------
Init ==
    /\ sheet = Nil
    /\ image = [k \in Keys |-> Nil]
    /\ stray = {}
    /\ request = [c \in Clients |-> Idle]

(* SpriteMaker::render, with and without force_create. *)
Make(c, force) ==
    /\ request[c].stage = "idle"
    /\ request' = [request EXCEPT ![c] = [stage |-> IF force THEN "tiles" ELSE "ask"]]
    /\ UNCHANGED <<sheet, image, stray>>

(* Faulty variant: a read that failed is taken for a document. *)
HasEntry_Optimist(c) ==
    /\ request[c].stage = "ask"
    /\ \E found \in BOOLEAN :
         request' = [request EXCEPT ![c] = [stage |-> IF found THEN "known" ELSE "tiles"]]
    /\ UNCHANGED <<sheet, image, stray>>

(* hasEntry: a read that fails counts as absence. *)
HasEntry(c) ==
    /\ request[c].stage = "ask"
    /\ \E found \in {sheet, Nil} :
         request' = [request EXCEPT ![c] = [stage |-> IF found # Nil THEN "known" ELSE "tiles"]]
    /\ UNCHANGED <<sheet, image, stray>>

(* The tiles are read (getImagesData), laid out and drawn, or one of these
   throws.                                                                 *)
Build(c) ==
    /\ request[c].stage = "tiles"
    /\ \/ End(c)
       \/ \E l \in Layouts :
            request' = [request EXCEPT ![c] =
                [stage |-> "save", layout |-> l, next |-> 1, alone |-> TRUE]]
    /\ UNCHANGED <<sheet, image, stray>>

(* A write is acknowledged; after the last one the sprite is made. *)
Save(c) ==
    \E w \in Pending(c) :
        LET r == request[c]
            done == IF r.next < 4
                    THEN [stage |-> "save", layout |-> r.layout, next |-> r.next + 1, alone |-> r.alone]
                    ELSE [stage |-> "made", layout |-> r.layout, alone |-> r.alone]
        IN  /\ Written(w)
            /\ request' = [x \in Clients |-> IF x = c THEN done ELSE Disturbed(request[x])]
            /\ UNCHANGED stray

(* A write fails, before or after it took effect, or the drawing of the next
   scale throws before it.                                                   *)
SaveFails(c) ==
    \E w \in Pending(c) :
        \/ /\ Written(w)
           /\ request' = [x \in Clients |-> IF x = c THEN Idle ELSE Disturbed(request[x])]
           /\ UNCHANGED stray
        \/ /\ stray' \in {stray, stray \cup {w}}
           /\ UNCHANGED <<sheet, image>>
           /\ End(c)

LateWrite(w) ==
    /\ w \in stray
    /\ Written(w)
    /\ stray' \in {stray, stray \ {w}}
    /\ request' = [x \in Clients |-> Disturbed(request[x])]

-----------------------------------------------------------------------------
(* SpriteCSS::render: the page then names the images of the document read. *)
ReadCSS(c) ==
    /\ request[c].stage = "idle" /\ sheet # Nil
    /\ request' = [request EXCEPT ![c] = [stage |-> "page", layout |-> sheet]]
    /\ UNCHANGED <<sheet, image, stray>>

(* SpriteSheet::render for an image of the page, or for any key. *)
Ask(c, k) ==
    /\ \/ request[c].stage = "idle"
       \/ request[c].stage = "page" /\ \E n \in Scale : k = Key(request[c].layout, n)
    /\ request' = [request EXCEPT ![c] =
         [stage |-> "sheet", key |-> k, named |-> request[c].stage = "page"]]
    /\ UNCHANGED <<sheet, image, stray>>

(* findEntry throws for a document that is missing or cannot be read, which is
   answered with an error.                                                    *)
FindSheet(c) ==
    /\ request[c].stage = "sheet"
    /\ \/ /\ sheet # Nil
          /\ request' = [request EXCEPT ![c] =
                              [stage |-> "image", key |-> request[c].key, named |-> request[c].named]]
       \/ End(c)
    /\ UNCHANGED <<sheet, image, stray>>

(* The image is read and handed out, or an error is answered: the request is
   over.                                                                      *)
FindImage(c) ==
    /\ request[c].stage = "image"
    /\ End(c)
    /\ UNCHANGED <<sheet, image, stray>>

(* The response is sent, or the page is closed. *)
Leave(c) ==
    /\ request[c].stage \in {"known", "made", "page"}
    /\ End(c)
    /\ UNCHANGED <<sheet, image, stray>>

Crash == (\E c \in Clients : request[c] # Idle) /\ Restart

-----------------------------------------------------------------------------
Next ==
    \/ \E c \in Clients :
         \/ \E force \in BOOLEAN : Make(c, force)
         \/ HasEntry(c) \/ Build(c) \/ Save(c) \/ SaveFails(c)
         \/ ReadCSS(c) \/ FindSheet(c) \/ FindImage(c) \/ Leave(c)
         \/ \E k \in Keys : Ask(c, k)
    \/ \E w \in stray : LateWrite(w)
    \/ Crash

Spec == Init /\ [][Next]_vars

-----------------------------------------------------------------------------
Drawings == [layout : Layouts, scale : Scale]
Write == [to : {"image"}, key : Keys, value : Drawings] \cup [to : {"sheet"}, key : {0}, value : Layouts]

Request ==
    [stage : {"idle", "ask", "tiles", "known"}]
    \cup [stage : {"save"}, layout : Layouts, next : 1 .. 4, alone : BOOLEAN]
    \cup [stage : {"made"}, layout : Layouts, alone : BOOLEAN]
    \cup [stage : {"page"}, layout : Layouts]
    \cup [stage : {"sheet", "image"}, key : Keys, named : BOOLEAN]

TypeOK ==
    /\ sheet \in Layouts \cup {Nil}
    /\ image \in [Keys -> Drawings \cup {Nil}]
    /\ stray \subseteq Write
    /\ request \in [Clients -> Request]

Complete(l) == \A n \in Scale : image[Key(l, n)] # Nil

(* Every document leads to three images, and so does every page made from one
   before, whatever makers overlapped, failed, crashed or wrote late: saveSprite
   writes the document last (SpriteController.cpp:326).  SpriteSheet then answers
   a request from such a page with an error only if a read fails.                *)
NoHalfSprite ==
    /\ sheet # Nil => Complete(sheet)
    /\ \A c \in Clients :
         /\ request[c].stage = "page" => Complete(request[c].layout)
         /\ request[c].stage \in {"sheet", "image"} /\ request[c].named
               => sheet # Nil /\ image[request[c].key] # Nil

(* Makers that overwrite each other's images keep their sizes: an image is as
   large as its key says, and as the percentages of the CSS assume.           *)
ImagesFit ==
    \A k \in Keys : image[k] # Nil => k = image[k].scale * SizeOf[image[k].layout]

(* A maker that answers with the sprite's key or a link to its CSS, because it
   found the sprite or made it, does so for a sprite that is there, although
   hasEntry takes every failure for absence (Worker.cpp:87-93).                *)
AnswersStand ==
    \A c \in Clients : request[c].stage \in {"known", "made"} => sheet # Nil /\ Complete(sheet)

(* Makers of one sprite draw different layouts under the same keys; but what a
   maker made while nobody else wrote is what it drew: the document describes
   the images at all three scales.                                             *)
AloneIsTrue ==
    \A c \in Clients : request[c].stage = "made" /\ request[c].alone =>
        /\ sheet = request[c].layout
        /\ \A n \in Scale : image[Key(sheet, n)] = Drawing(sheet, n)

=============================================================================
