SPECIFICATION FairSpec
CONSTANTS
  Words <- SomeWords
  Forms <- SomeForms
  Starts <- SomeStarts
  Limits <- SomeLimits
  Numbers = {"20", "10", "2", "1"}
  Payloads <- Pictures
  MaxPiece = 4
  Nil = Nil
INVARIANTS
  TypeOK
  FormUnderstood
  UploadsJudged
  StreamWhole
  UrlDecodes
PROPERTY
  PicturesEnd
