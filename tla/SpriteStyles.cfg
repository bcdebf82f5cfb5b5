SPECIFICATION StylesSpec
CONSTANTS
  Sizes <- SmallSizes
  MaxTiles = 5
  None = None
  ImageKeys <- Pictures
  Original <- SquareOrWide
  Namings <- OwnOrShared
  ClassPrefixes = {"sp1", "sp2"}
  FinePrefixes = {"sp2"}
  Word = 1000000
  Nil = Nil
CHECK_DEADLOCK FALSE
INVARIANTS
  TypeOK
  OnSheet
  OnlyFirstLost
  ApartUnlessSplit
  SameSizeApart
  PositionsTrue
  DrawnApart
  BoxesShow
  ScreensServed
