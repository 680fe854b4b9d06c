SPECIFICATION LibrarySpec
CONSTANTS
  s1 = s1
  s2 = s2
  s3 = s3
  e1 = e1
  e2 = e2
  Objects = {s1, s2, s3}
  Origins = {s1}
  Blocks = {1, 2, 3}
  FirstSize = 2
  ChunkValues = 2
  MaxChunks = 3
  WordBytes = 1
  MaxLength = 4
  MaxText = 2
  Counts = {2}
  RawBytes = {2}
  Amounts = {1, 3}
  Operations = 6
  Null = Null
  Junk = Junk
  Kinds = {"number", "string"}
  SizeOf <- McSizeOf
  MaxItems = 3
  BlockSize = 4
  LengthSize = 2
  MaxBytes = 13
  Texts <- McTexts
  Newline = "n"
  Folders = {1}
  TargetSets <- McTargetSets
  Entries = {e1, e2}
  MaxSecond = 1
  MaxWriters = 4
  MaxEntries = 3
  Files = {"f", "g"}
  Dirs = {"d"}
  Names = {"n", "m"}
  MaxTries = 2
  NoName = "none"
  Mappers = {"u", "v"}
  Ports = {1, 2}
  Letters = {"n", "l"}
  Space = " "
  Slash = "/"
  ReservedNames <- McReserved
  NameLimit = 5
  MaxTyped = 6
SYMMETRY McSymmetry
CHECK_DEADLOCK FALSE
INVARIANT DigestOfWhole
