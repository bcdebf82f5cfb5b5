---------------------------- MODULE MCSpriteSheets ----------------------------
(***************************************************************************)
(* An instance of SpriteSheets for TLC: two layouts of one size, which     *)
(* share their keys, and one of another, whose smallest images are as      *)
(* large as images of the others at another scale.                         *)
(***************************************************************************)
EXTENDS SpriteSheets, FiniteSets, TLC

CONSTANTS wide, wide2, tall, MaxStray

Sizes == wide :> 2 @@ wide2 :> 2 @@ tall :> 3

(* Bound: how many late writes there are at a time. *)
StrayBound == Cardinality(stray) <= MaxStray

Symmetry == Permutations(Clients)

=============================================================================
