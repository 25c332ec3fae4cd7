SPECIFICATION FairSpec
CONSTANTS
  Sellers = {s1}
  Jobs = {j1}
  Commands = {c1}
  Texts = {t1}
  Corrections = {f1}
  Channel = "CAFE24"
  MaxDrafts = 1
  MaxPosts = 2
  MaxCrashes = 2
  MaxDeaths = 1
INVARIANT TypeOK
INVARIANT AtMostOneAnswer
INVARIANT SentIsNeverRedispatchable
PROPERTY RefusalIsWrittenDown
PROPERTY ImplementsContract
PROPERTY DispatchSettles
