SPECIFICATION ARSpec
CONSTANTS
  ARCalls = {c1, c2}
  ARTexts = {x, y}
  ARNone = ARNone
  ARMaxPerson = 2
  ARMaxFaults = 1
SYMMETRY CallSymmetry
INVARIANTS ARTypeOK ARApprovedTextWasRead ARDoneIsBound ARMintOnceWhileLeased
PROPERTIES ARDoneStays ImplementsRunContract
CHECK_DEADLOCK FALSE
