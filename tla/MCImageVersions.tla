-------------------------- MODULE MCImageVersions --------------------------
(* Small instances of ImageVersions. *)
EXTENDS ImageVersions, FiniteSets

CONSTANTS i1, i2, jpg, png

Whole == <<2, 2>>
Tall  == <<1, 2>>
Small == <<1, 1>>
MCBoxes == {Whole, Tall, Small}

(* One image has an extension, the other was uploaded without one. *)
MCOriginalType == [i \in Images |-> IF i = i1 THEN jpg ELSE AnyType]

Ask(i, box, type, save, original) ==
    [image |-> i, box |-> box, type |-> type, save |-> save, original |-> original]

(* One image, in two boxes of the same width. *)
OneImageGets == {Ask(i1, Tall, jpg, TRUE, FALSE)}

OneImageBatches == {<<Ask(i1, Small, AnyType, TRUE, FALSE)>>}

(* Batches that name the image twice. *)
TwiceBatches ==
    {<<Ask(i1, Small, AnyType, TRUE, FALSE), Ask(i1, Tall, jpg, TRUE, FALSE)>>,
     <<Ask(i1, Small, jpg, TRUE, FALSE), Ask(i1, Whole, jpg, TRUE, FALSE)>>}

(* Two images, which a batch names once each, one box in two types, and the
   upload itself.                                                           *)
PairGets == {Ask(i1, Tall, jpg, TRUE, FALSE), Ask(i1, Whole, AnyType, FALSE, TRUE)}

PairBatches == {<<Ask(i1, Tall, png, TRUE, FALSE), Ask(i2, Small, AnyType, TRUE, FALSE)>>}

(* Bound: how many writes may be on their way without a request. *)
CONSTANT MaxStray
StrayBound == Cardinality(stray) <= MaxStray

Symmetry == Permutations(Clients)
=============================================================================
