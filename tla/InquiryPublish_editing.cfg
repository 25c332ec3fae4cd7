SPECIFICATION Spec
CONSTANTS
  Sellers = {s1, s2}
  Jobs = {j1}
  Commands = {c1}
  Texts = {t1, t2}
  Corrections = {}
  Channel = "NAVER_PRODUCT_QNA"
  MaxDrafts = 2
  MaxPosts = 1
  MaxCrashes = 0
  MaxDeaths = 0
SYMMETRY RequestSymmetry
INVARIANT OnlyApprovedAnswers
INVARIANT AnsweredMeansAnswered
