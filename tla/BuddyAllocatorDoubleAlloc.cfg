SPECIFICATION Spec
CONSTANTS
  NumPages = 6
  MaxOrder = 3
  MdataPages = 1
  MinOrder = 1
  Word = 1
  Sizes = {1, 2}
  Null = Null
INVARIANT PoppedMeansUnlisted
