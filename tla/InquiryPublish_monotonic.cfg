SPECIFICATION FairSpec
CONSTANTS
  Sellers = {s1}
  Jobs = {j1}
  Commands = {c1}
  Texts = {t1, t2}
  Corrections = {f1}
  Channel = "COUPANG"
  MaxDrafts = 2
  MaxPosts = 2
  MaxCrashes = 0
  MaxDeaths = 0
PROPERTY AnsweredIsNeverDowngraded
