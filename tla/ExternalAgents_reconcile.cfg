CONSTANTS
  a = a
  b = b
  NFiles = 3
  NameOf <- ThreePlaces
  MaxVersion = 2
  Invalid <- BadDDL
  Activation = {TRUE, FALSE}
  NCollectives = 2
  MaxEdits = 2
  MaxFails = 1
SPECIFICATION MCSpec
INVARIANTS
  SubscriptionsMatch
  ListMatches
PROPERTIES
  Converges
