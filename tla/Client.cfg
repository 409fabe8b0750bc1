SPECIFICATION Spec
CONSTANTS
  x = x
  z = z
  v1 = v1
  v2 = v2
  c1 = c1
  w1 = w1
  w2 = w2
  w3 = w3
  k1 = k1
  k2 = k2
  k3 = k3
  Entry = {v1, v2}
  MaxDepth = 2
  MaxHistory = 4
  Filter = {"all", "comments"}
  Activity = {x, z}
  Kind <- TheKind
  ActivityAt <- TheTimes
  Milestone = {z}
  Moments = {2}
  PageSize = 1
  MaxFlights = 2
  MaxShown = 1
  Title <- Titles
  Body <- Bodies
  MinWords = 2
  MaxWords = 2
  MaxAsked = 2
  Criterion = {c1}
  MaxSubmits = 2
  Rated = {v1, v2}
  Relevance = {1}
  MaxWrites = 2
  Comment = {k1, k2, k3}
  Others = {k1}
  HashOrder <- TheOrder
  ListLimit = 2
  MaxLoads = 1
  Likeable = {v1, v2}
  MaxLikes = 2
  MaxDrift = 0
SYMMETRY Symmetric
INVARIANT TypeOK
INVARIANT FeedIsContiguous
INVARIANT WorkIsKept
INVARIANT RatingSettles
INVARIANT ThreadIsWhole
INVARIANT HeartsSettle
PROPERTY BackGoesBeneath
PROPERTY SentWasChecked
