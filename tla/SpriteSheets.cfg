SPECIFICATION Spec
CONSTANTS
  wide = wide
  wide2 = wide2
  tall = tall
  Clients = {c1, c2}
  Layouts = {wide, wide2, tall}
  SizeOf <- Sizes
  Nil = Nil
  MaxStray = 1
SYMMETRY Symmetry
CONSTRAINT StrayBound
CHECK_DEADLOCK FALSE
INVARIANTS
  TypeOK
  NoHalfSprite
  ImagesFit
  AnswersStand
  AloneIsTrue
