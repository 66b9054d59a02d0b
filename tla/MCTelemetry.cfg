SPECIFICATION FairSpec
CONSTANTS
  s1 = s1
  s2 = s2
  s3 = s3
  Shards = {s1, s2, s3}
  Corpora <- MCCorpora
  Setups <- MCSetups
  MaxInputBytes = 4
  Requires <- MCRequires
INVARIANTS
  CountsAreUsages
  DocsPartition
PROPERTIES
  CountsTheWholeCorpus
  EventuallyComplete
CHECK_DEADLOCK FALSE
