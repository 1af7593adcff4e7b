CONSTANTS
  Ids <- twoIds
  Str <- twoStr
  NoName = ""
  Decimal <- twoDecimal
  Names <- plainNames
  Conf = {1, 2}
  MayRepeat <- oneName
  MaxRows = 2
SPECIFICATION Spec
INVARIANTS TypeOK PostErrorBlamesRepeat FoundByIdentifier
PROPERTY ObjectsSpec
