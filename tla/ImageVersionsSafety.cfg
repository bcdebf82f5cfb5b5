SPECIFICATION Spec
CONSTANTS
  Clients = {c1, c2}
  Images = {i1}
  Boxes <- MCBoxes
  Types = {jpg, png, AnyType}
  OriginalBox <- Whole
  OriginalType <- MCOriginalType
  AnyType = AnyType
  Gets <- OneImageGets
  Batches <- TwiceBatches
  EmptyKey = EmptyKey
  Nil = Nil
  i1 = i1
  i2 = i2
  jpg = jpg
  png = png
  MaxStray = 1
SYMMETRY Symmetry
CONSTRAINT StrayBound
CHECK_DEADLOCK FALSE
INVARIANTS
  NoDangling
  OriginalListed
