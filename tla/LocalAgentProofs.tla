-------------------------- MODULE LocalAgentProofs --------------------------
(***************************************************************************)
(* What is proved of the slot, the export run and the import segment holds  *)
(* of the process that is one of them: every step of the process is a step  *)
(* of one part, and a stutter of the two others.                            *)
(***************************************************************************)
EXTENDS LocalAgent, ActionWindowProofs, CarrierHostProofs, ImportRunProofs

\* Of each part its inductive invariant.
CHInv == CHTypeInv /\ CHAttachedKnowsItsCarrier /\ CHWindowInv
LAInv == AWInv /\ CHInv /\ IMInv

\* A step of the process, seen from each of its parts.
LEMMA LAStepsOfParts ==
  ASSUME [LANext]_laVars
  PROVE  [AWNext]_awVars /\ [CHNext]_chVars /\ [IMNext]_imVars
<1>1. CASE LANext
  BY <1>1 DEF LANext
<1>2. CASE UNCHANGED laVars
  BY <1>2 DEF laVars
<1> QED
  BY <1>1, <1>2

LEMMA LAInitInv == ASSUME LAInit PROVE LAInv
  BY AWInitInv, CHTypeInit, CHKnownInit, CHWindowInit, IMInitInv DEF LAInit, LAInv, CHInv

LEMMA LAStepInv == ASSUME LAInv, [LANext]_laVars PROVE LAInv'
  BY LAStepsOfParts, AWStepInv, CHTypeStep, CHKnownStep, CHWindowStep, IMStepInv
  DEF LAInv, CHInv

THEOREM LAInvariant == LASpec => []LAInv
<1>1. LAInit => LAInv
  BY LAInitInv
<1>2. LAInv /\ [LANext]_laVars => LAInv'
  BY LAStepInv
<1> QED
  BY <1>1, <1>2, PTL DEF LASpec

\* Every variable of the process keeps its type, whichever carrier it hosts.
THEOREM LATypeCorrect == LASpec => []LATypeOK
<1>1. LAInv => LATypeOK
  BY DEF LAInv, AWInv, CHInv, CHTypeInv, IMInv, LATypeOK
<1> QED
  BY <1>1, LAInvariant, PTL

\* What makes each part correct is true of the process that hosts it: the export run's chains
\* and ledger, the slot's tabs and windows, the import's watches and its gate.
THEOREM LAPartsHold ==
  LASpec => [](/\ AWDrivenStageHasItsChain /\ AWOneDownstreamChain /\ AWCompletionIsEarned
               /\ AWReplayIsNoop /\ AWWaitingViewIsStorable
               /\ CHOneRetiring /\ CHAttachedKnowsItsCarrier
               /\ IMParkIsWatched /\ IMWaitIsWatched /\ IMIngestNeedsGate)
<1> DEFINE Export == /\ AWDrivenStageHasItsChain /\ AWOneDownstreamChain /\ AWCompletionIsEarned
                     /\ AWReplayIsNoop /\ AWWaitingViewIsStorable
           Slot == CHOneRetiring /\ CHAttachedKnowsItsCarrier
           Import == IMParkIsWatched /\ IMWaitIsWatched /\ IMIngestNeedsGate
<1>1. AWInv => Export
  BY DEF AWInv, AWEnginesOK, AWEngineOK, AWCompletionIsEarned, AWLedgerOK, AWReplayIsNoop,
         AWSellerStages, AWWaitingViewIsStorable
<1>2. CHInv => Slot
  BY CHWindowsBound DEF CHInv
<1>3. IMInv => Import
  BY DEF IMInv
<1>4. LASpec => [](Export /\ Slot /\ Import)
  <2> HIDE DEF Export, Slot, Import
  <2> QED
    BY <1>1, <1>2, <1>3, LAInvariant, PTL DEF LAInv
<1> QED
  BY <1>4, PTL

\* The steps of a process do to its parts what the parts' own steps may do: a run that is
\* over stays over, on disk and in the import, and a watched carrier stays.
THEOREM LAPartsStay == LASpec => AWTerminalStays /\ CHWatchedStays /\ IMTerminalStays
<1>1. LAInv /\ [LANext]_laVars => [AWOverStays]_awVars
  BY LAStepsOfParts, AWStepInv DEF LAInv
<1>2. LAInv /\ [LANext]_laVars =>
        [(chAttached \cap chSockets \cap chSockets' # {} /\ ~chStopping')
           => chActive' = chActive]_chVars
  BY LAStepsOfParts, CHWatchedStep DEF LAInv, CHInv
<1>3. LAInv /\ [LANext]_laVars => [IMOver => imStage' = imStage]_imVars
  BY LAStepsOfParts, IMStepInv DEF LAInv
<1>4. LASpec => AWTerminalStays
  BY <1>1, LAInvariant, PTL DEF LASpec, AWTerminalStays, AWOverStays
<1>5. LASpec => CHWatchedStays
  BY <1>2, LAInvariant, PTL DEF LASpec, CHWatchedStays
<1>6. LASpec => IMTerminalStays
  BY <1>3, LAInvariant, PTL DEF LASpec, IMTerminalStays, IMOver
<1> QED
  BY <1>4, <1>5, <1>6

=============================================================================
