---------------------------- MODULE MCSpriteStyles ----------------------------
(***************************************************************************)
(* Instances of SpriteStyles, and of SpritePacking in it, for TLC.  A      *)
(* gross size is at least 3, for a padding of 1 is added on each side.     *)
(***************************************************************************)
EXTENDS SpriteStyles

SmallSizes == {[w |-> 3, h |-> 3], [w |-> 5, h |-> 5], [w |-> 6, h |-> 6],
               [w |-> 3, h |-> 5], [w |-> 5, h |-> 3]}

Pictures == {"square1", "square2", "square3", "square4", "wide"}

SquareOrWide == [k \in Pictures |-> [w |-> IF k = "wide" THEN 2 ELSE 1, h |-> 1]]

(* Each tile shows an image of its own, or the first two show the same. *)
OwnOrShared == {<<"square1", "square2", "square3", "square4", "wide">>,
                <<"square1", "square1", "square2", "wide", "square3">>}

=============================================================================
