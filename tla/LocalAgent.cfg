SPECIFICATION LASpec
CONSTANTS
  AWTargets = {t1}
  AWArtifacts = {f1}
  AWIds = {i1}
  AWNone = AWNone
  AWSlots = {1, 2}
  AWMaxFaults = 1
  CHTabs = {w1, w2}
  CHRequests = {r1, r2}
  CHOneRun = {r1}
  CHServable = {r1, r2}
  CHNone = CHNone
  CHMaxCarriers = 3
  IMSlots = {1, 2}
  IMMaxUpsets = 1
INVARIANTS
  LATypeOK
  AWDrivenStageHasItsChain AWOneDownstreamChain AWCompletionIsEarned AWReplayIsNoop
  AWWaitingViewIsStorable
  CHOneRetiring CHAttachedKnowsItsCarrier
  IMParkIsWatched IMWaitIsWatched IMIngestNeedsGate
PROPERTIES
  AWTerminalStays CHWatchedStays IMTerminalStays
  LASlotIsFreed LARunMoves
CHECK_DEADLOCK FALSE
