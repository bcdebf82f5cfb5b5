SPECIFICATION Spec
CONSTANTS
  Clients = {c1, c2}
  Images = {i1, i2}
  Boxes <- MCBoxes
  Types = {jpg, png, AnyType}
  OriginalBox <- Whole
  OriginalType <- MCOriginalType
  AnyType = AnyType
  Gets <- PairGets
  Batches <- PairBatches
  EmptyKey = EmptyKey
  Nil = Nil
  i1 = i1
  i2 = i2
  jpg = jpg
  png = png
  MaxStray = 1
SYMMETRY Symmetry
CONSTRAINT StrayBound
CHECK_DEADLOCK FALSE
INVARIANTS
  BlobsTrue
  AnswerFits
  NoDuplicateVersion
