SPECIFICATION Spec
CONSTANTS
  Topics = {p, q}
  Arguments = {x}
  Root = root
  Official = {x}
  Files <- OneTopicFiles
  GrowThreshold = 1
  MaxDepth = 2
  TwinTopics = TRUE
  MinBranch = 1
  NoTree = NoTree
  MaxSnapshots = 2
  MaxFailures = 1
SYMMETRY Symmetric
INVARIANT TypeOK
INVARIANT DoublesAccounted
INVARIANT CleanIsPublished
INVARIANT ShownIsPublished
PROPERTY NothingFallsOut
