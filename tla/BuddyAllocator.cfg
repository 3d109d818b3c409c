SPECIFICATION FairSpec
CONSTANTS
  NumPages = 6
  MaxOrder = 3
  MdataPages = 1
  MinOrder = 1
  Word = 1
  Sizes = {1, 2, 4}
  Null = Null
CONSTRAINT Clean
INVARIANT TypeOK
INVARIANT LinksSound
INVARIANT BlocksDisjoint
INVARIANT NoPageLost
INVARIANT LiveMarked
INVARIANT Coalesced
PROPERTY CallsReturn
