\* Two requests on one thread, among every path of at most three segments.
CONSTANTS
  foo = foo
  bar = bar
  index = index
  script1 = script1
  asset = asset
  none = none
  dot = dot
  dotdot = dotdot
  x = x
  y = y
  Names <- MCNames
  Empty = none
  Dot = dot
  DotDot = dotdot
  PhpNames = {index, script1}
  Index = index
  IsFile <- MCIsFile
  IsDir <- MCIsDir
  Bytes = {x, y}
  Requests <- MCRequests
  MaxBuf = 4
  MaxRequests = 2
SPECIFICATION Spec
INVARIANTS
  TypeOK
  OwnStrings
  OnlyAuthFreedTwice
  PostIsComplete
  MostSpecific
  PathIsKept
  OwnStatus
