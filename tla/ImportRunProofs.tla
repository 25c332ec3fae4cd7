--------------------------- MODULE ImportRunProofs ---------------------------
(***************************************************************************)
(* Proofs about ImportRun, for any number of drive chains and upsets: types; *)
(* a park and a barrier are watched; a finished run stays finished; the scope *)
(* gate lets no run by but one with a call in flight that was past it already. *)
(*                                                                          *)
(* Every step is one of three kinds: a task drives on (IMDrive), something   *)
(* publishes and drives nothing (IMPublish), or a watcher ends.  What an      *)
(* engine method may return is proved once (IMGood, and IMAdmits of the      *)
(* gate), and what follows from                                              *)
(* publishing or driving such a result once more.                           *)
(***************************************************************************)
EXTENDS ImportRun, TLAPS

IMHere == {"LOCATE", "HIGHLIGHT", "WAIT_FOR"}
IMPlain == {"PREPARE_SESSION", "READ_SCOPE", "WAIT_FOR_RANGE_CONFIRM", "PAUSED", "COMPLETED",
            "FAILED", "CANCELLED", "SESSION_BLOCKED", "SURFACE_BLOCKED", "SCOPE_BLOCKED",
            "DETECT_DOWNLOAD", "VALIDATE_ARTIFACT", "INGEST"}
IMAsks == {"locate", "prefilled", "highlight", "highlightAll", "observe"}
IMDoes == {"PREPARE", "READ_FACTS", "READ_SCOPE", "CLEAR_HIGHLIGHT", "DETECT_DOWNLOAD",
           "VALIDATE_ARTIFACT", "INGEST", "CLEANUP", "NONE"}

-----------------------------------------------------------------------------
(* Stages and effects as records *)

LEMMA IMStageIs ==
  ASSUME NEW s \in IMStages
  PROVE  /\ s = IMAt(s.at, s.on)
         /\ \/ s.at \in IMHere /\ s.on \in IMTargets
            \/ s.at \in IMPlain /\ s.on = "none"
  BY DEF IMStages, IMAt, IMJust, IMHere, IMPlain, IMConfirm, IMTerminal, IMParks, IMProcessing

LEMMA IMStageIn ==
  /\ \A s \in IMHere, t \in IMTargets : IMAt(s, t) \in IMStages
  /\ \A s \in IMPlain : IMJust(s) \in IMStages
<1>1. ASSUME NEW s \in IMHere, NEW t \in IMTargets PROVE IMAt(s, t) \in IMStages
  <2>1. IMAt(s, t) \in {IMAt(a, b) : a \in {"LOCATE", "HIGHLIGHT", "WAIT_FOR"}, b \in IMTargets}
    BY DEF IMHere
  <2>2. QED
    BY <2>1 DEF IMStages
<1>2. ASSUME NEW s \in IMPlain PROVE IMJust(s) \in IMStages
  BY DEF IMStages, IMPlain, IMConfirm, IMTerminal, IMParks, IMProcessing
<1>3. QED
  BY <1>1, <1>2

LEMMA IMEffectIs ==
  ASSUME NEW f \in IMEffects
  PROVE  /\ f = IMAt(f.at, f.on)
         /\ \/ f.at \in IMAsks /\ f.on \in IMTargets
            \/ f.at \in IMDoes /\ f.on = "none"
  BY DEF IMEffects, IMAt, IMJust, IMAsks, IMDoes

LEMMA IMEffectIn ==
  /\ \A f \in IMAsks, t \in IMTargets : IMAt(f, t) \in IMEffects
  /\ \A f \in IMDoes : IMJust(f) \in IMEffects
<1>1. ASSUME NEW f \in IMAsks, NEW t \in IMTargets PROVE IMAt(f, t) \in IMEffects
  <2>1. IMAt(f, t) \in {IMAt(a, b) : a \in {"locate", "prefilled", "highlight", "highlightAll",
                                          "observe"}, b \in IMTargets}
    BY DEF IMAsks
  <2>2. QED
    BY <2>1 DEF IMEffects
<1>2. ASSUME NEW f \in IMDoes PROVE IMJust(f) \in IMEffects
  BY DEF IMEffects, IMDoes
<1>3. QED
  BY <1>1, <1>2

-----------------------------------------------------------------------------
(* The invariant *)

IMInv ==
  /\ IMTypeOK
  /\ \A c \in IMSlots : imChain[c] # IMNothing
  /\ imWatch => imStage.at = "WAIT_FOR"
  /\ IMIngestNeedsGate
  /\ IMParkIsWatched
  /\ imClosed => imShut
  /\ IMWaitIsWatched

IMGates == {"holds", "open", "overrun"}

\* What an engine method may return: it keeps its types, and comes to a barrier to
\* observe it.
IMResults == [stage : IMStages, apply : BOOLEAN, gate : IMGates, next : IMEffects]
IMGood(r) ==
  /\ r \in IMResults
  /\ r.stage.at = "WAIT_FOR" => r.stage = imStage \/ r.next = IMAt("observe", r.stage.on)

\* A result past the gate does not leave it holding.
IMAdmits(r) == IMPastGate(r.stage) => r.gate # "holds"

-----------------------------------------------------------------------------
(* What the engine's methods return *)

LEMMA IMNothingIs ==
  IMNothing \in IMEffects /\ IMIdle \notin IMEffects
  BY IMEffectIn, IMEffectIs DEF IMNothing, IMIdle, IMJust, IMAt, IMDoes, IMAsks

LEMMA IMGoGood ==
  ASSUME IMInv, NEW stage \in IMStages, NEW next \in IMEffects,
         stage.at = "WAIT_FOR" => next = IMAt("observe", stage.on)
  PROVE  /\ IMGood(IMGo(stage, next))
         /\ IMGo(stage, next).stage = stage /\ IMGo(stage, next).next = next
  BY DEF IMGood, IMResults, IMGo, IMNow, IMInv, IMTypeOK, IMGates

LEMMA IMAskGood ==
  ASSUME IMInv, NEW next \in IMEffects
  PROVE  IMGood(IMAsk(next)) /\ IMAsk(next).stage = imStage /\ IMAsk(next).next = next
  BY DEF IMGood, IMResults, IMAsk, IMNow, IMInv, IMTypeOK, IMGates

LEMMA IMNowGood == ASSUME IMInv PROVE IMGood(IMNow) /\ IMNow.stage = imStage
  BY IMNothingIs DEF IMGood, IMResults, IMNow, IMInv, IMTypeOK, IMGates

LEMMA IMPlainGood ==
  ASSUME IMInv, NEW s \in IMPlain, NEW f \in IMDoes
  PROVE  IMGood(IMGo(IMJust(s), IMJust(f))) /\ IMGo(IMJust(s), IMJust(f)).stage = IMJust(s)
<1>1. IMJust(s) \in IMStages /\ IMJust(f) \in IMEffects /\ IMJust(s).at # "WAIT_FOR"
  BY IMStageIn, IMEffectIn DEF IMJust, IMAt, IMPlain
<1>2. QED
  BY <1>1, IMGoGood

LEMMA IMHereGood ==
  ASSUME IMInv, NEW s \in IMHere, NEW f \in IMAsks, NEW t \in IMTargets,
         s = "WAIT_FOR" => f = "observe"
  PROVE  IMGood(IMGo(IMAt(s, t), IMAt(f, t)))
<1>1. IMAt(s, t) \in IMStages /\ IMAt(f, t) \in IMEffects
  BY IMStageIn, IMEffectIn
<1>2. IMAt(s, t).at = "WAIT_FOR" => IMAt(f, t) = IMAt("observe", IMAt(s, t).on)
  BY DEF IMAt
<1>3. QED
  BY <1>1, <1>2, IMGoGood

LEMMA IMFailGood == ASSUME IMInv PROVE IMGood(IMFail)
  BY IMPlainGood DEF IMFail, IMPlain, IMDoes

LEMMA IMParkGood ==
  ASSUME IMInv, NEW s \in IMPlain
  PROVE  IMGood(IMParkAt(s)) /\ IMParkAt(s).stage = IMJust(s) /\ IMParkAt(s).next = IMNothing
<1>1. IMJust(s) \in IMStages /\ IMJust(s).at # "WAIT_FOR"
  BY IMStageIn DEF IMJust, IMAt, IMPlain
<1>2. QED
  BY <1>1, IMGoGood, IMNothingIs DEF IMParkAt

LEMMA IMAdvanceGood ==
  ASSUME IMInv, NEW t \in IMTargets
  PROVE  IMGood(IMAdvanceAfterBarrier(t))
<1>1. CASE t = "date" /\ imApply
  <2>1. IMAdvanceAfterBarrier(t) = IMGo(IMAt("LOCATE", "apply_range"), IMAt("locate", "apply_range"))
    BY <1>1 DEF IMAdvanceAfterBarrier
  <2>2. QED
    BY <2>1, IMHereGood DEF IMHere, IMAsks, IMTargets
<1>2. CASE t = "apply_range" \/ (t = "date" /\ ~imApply)
  <2>1. IMAdvanceAfterBarrier(t) = IMGo(IMJust("READ_SCOPE"), IMJust("READ_SCOPE"))
    BY <1>2 DEF IMAdvanceAfterBarrier
  <2>2. QED
    BY <2>1, IMPlainGood DEF IMPlain, IMDoes
<1>3. CASE t = "export"
  <2>1. IMAdvanceAfterBarrier(t) = IMGo(IMAt("LOCATE", "consent"), IMAt("locate", "consent"))
    BY <1>3 DEF IMAdvanceAfterBarrier
  <2>2. QED
    BY <1>3, <2>1, IMHereGood DEF IMHere, IMAsks, IMTargets
<1>4. CASE t = "consent"
  <2>1. IMAdvanceAfterBarrier(t) = IMGo(IMJust("DETECT_DOWNLOAD"), IMJust("DETECT_DOWNLOAD"))
    BY <1>4 DEF IMAdvanceAfterBarrier
  <2>2. QED
    BY <1>4, <2>1, IMPlainGood DEF IMPlain, IMDoes
<1>5. QED
  BY <1>1, <1>2, <1>3, <1>4 DEF IMTargets

\* The answers about a control on the page.
LEMMA IMControlGood ==
  ASSUME IMInv, NEW t \in IMTargets, NEW a
  PROVE  /\ IMGood(IMOnLocated(t, a)) /\ IMGood(IMOnHighlighted(t, a))
         /\ IMGood(IMOnPrefilled(t, a)) /\ IMGood(IMOnCandidates(t, a))
<1>1. IMGood(IMFail) /\ IMGood(IMNow) /\ IMGood(IMAdvanceAfterBarrier(t))
  BY IMFailGood, IMNowGood, IMAdvanceGood
<1>2. IMGood(IMGo(IMAt("WAIT_FOR", t), IMAt("observe", t)))
  BY IMHereGood DEF IMHere, IMAsks
<1>3. \A f \in IMAsks : IMGood(IMAsk(IMAt(f, t)))
  BY IMAskGood, IMEffectIn DEF IMAsks
<1>4. \A f \in IMAsks : IMGood(IMGo(IMAt("HIGHLIGHT", t), IMAt(f, t)))
  BY IMHereGood DEF IMHere
<1>5. IMGood(IMOnLocated(t, a))
  BY <1>1, <1>4 DEF IMOnLocated, IMAsks
<1>6. IMGood(IMOnHighlighted(t, a))
  BY <1>1, <1>2, <1>3 DEF IMOnHighlighted, IMAsks
<1>7. IMGood(IMOnPrefilled(t, a))
  BY <1>1, <1>3 DEF IMOnPrefilled, IMAsks
<1>8. IMGood(IMOnCandidates(t, a))
  BY <1>1, <1>2 DEF IMOnCandidates
<1>9. QED
  BY <1>5, <1>6, <1>7, <1>8

\* What each result says of the gate.
IMBeforeGate == IMPlain \ {"COMPLETED", "DETECT_DOWNLOAD", "VALIDATE_ARTIFACT", "INGEST"}

LEMMA IMPlainAdmits == ASSUME NEW s \in IMBeforeGate, NEW f PROVE IMAdmits(IMGo(IMJust(s), f))
  BY DEF IMAdmits, IMPastGate, IMGo, IMNow, IMJust, IMAt, IMBeforeGate, IMPlain

LEMMA IMHereAdmits ==
  ASSUME NEW s \in IMHere, NEW t \in {"date", "apply_range"}, NEW f
  PROVE  IMAdmits(IMGo(IMAt(s, t), f))
  BY DEF IMAdmits, IMPastGate, IMGo, IMNow, IMAt, IMHere

LEMMA IMAskAdmits == ASSUME IMInv, NEW f PROVE IMAdmits(IMAsk(f)) /\ IMAdmits(IMNow)
  BY DEF IMAdmits, IMAsk, IMNow, IMInv, IMIngestNeedsGate

LEMMA IMFailAdmits == IMAdmits(IMFail)
  BY IMPlainAdmits DEF IMFail, IMBeforeGate, IMPlain

LEMMA IMAdvanceAdmits ==
  ASSUME NEW t \in {"date", "apply_range"} PROVE IMAdmits(IMAdvanceAfterBarrier(t))
<1>1. CASE t = "date" /\ imApply
  BY <1>1, IMHereAdmits DEF IMAdvanceAfterBarrier, IMHere
<1>2. CASE t = "apply_range" \/ (t = "date" /\ ~imApply)
  BY <1>2, IMPlainAdmits DEF IMAdvanceAfterBarrier, IMBeforeGate, IMPlain
<1>3. QED
  BY <1>1, <1>2

LEMMA IMControlAdmits ==
  ASSUME IMInv, NEW t \in {"date", "apply_range"}, NEW a
  PROVE  /\ IMAdmits(IMOnLocated(t, a)) /\ IMAdmits(IMOnHighlighted(t, a))
         /\ IMAdmits(IMOnPrefilled(t, a)) /\ IMAdmits(IMOnCandidates(t, a))
<1>1. /\ IMAdmits(IMFail) /\ IMAdmits(IMNow) /\ IMAdmits(IMAdvanceAfterBarrier(t))
      /\ \A f : IMAdmits(IMAsk(f))
  BY IMFailAdmits, IMAskAdmits, IMAdvanceAdmits
<1>2. \A f : IMAdmits(IMGo(IMAt("WAIT_FOR", t), f)) /\ IMAdmits(IMGo(IMAt("HIGHLIGHT", t), f))
  BY IMHereAdmits DEF IMHere
<1>3. IMAdmits(IMOnLocated(t, a)) /\ IMAdmits(IMOnHighlighted(t, a))
  BY <1>1, <1>2 DEF IMOnLocated, IMOnHighlighted
<1>4. IMAdmits(IMOnPrefilled(t, a)) /\ IMAdmits(IMOnCandidates(t, a))
  BY <1>1, <1>2 DEF IMOnPrefilled, IMOnCandidates
<1>5. QED
  BY <1>3, <1>4

LEMMA IMFactsGood == ASSUME IMInv, NEW apply \in BOOLEAN PROVE IMGood(IMOnFactsRead(apply))
<1>1. IMGood(IMGo(IMAt("LOCATE", "date"), IMAt("locate", "date")))
  BY IMHereGood DEF IMHere, IMAsks, IMTargets
<1>2. QED
  BY <1>1 DEF IMOnFactsRead, IMGood, IMResults, IMGo, IMNow

LEMMA IMScopeGood ==
  ASSUME IMInv, NEW m \in {"MATCH", "MISMATCH", "UNREADABLE"}
  PROVE  IMGood(IMOnScopeRead(m)) /\ IMAdmits(IMOnScopeRead(m))
<1>1. CASE m = "MISMATCH"
  <2>1. /\ IMJust("SCOPE_BLOCKED") \in IMStages /\ IMJust("SCOPE_BLOCKED").at # "WAIT_FOR"
        /\ IMJust("CLEAR_HIGHLIGHT") \in IMEffects /\ ~IMPastGate(IMJust("SCOPE_BLOCKED"))
    BY IMStageIn, IMEffectIn DEF IMPlain, IMDoes, IMJust, IMAt, IMPastGate
  <2>2. QED
    BY <1>1, <2>1 DEF IMOnScopeRead, IMGood, IMResults, IMAdmits, IMGo, IMNow, IMInv, IMTypeOK, IMGates
<1>2. CASE m = "UNREADABLE"
  <2>1. /\ IMConfirm \in IMStages /\ IMJust("CLEAR_HIGHLIGHT") \in IMEffects
        /\ IMConfirm.at # "WAIT_FOR" /\ ~IMPastGate(IMConfirm)
    BY IMStageIn, IMEffectIn DEF IMConfirm, IMPlain, IMDoes, IMJust, IMAt, IMPastGate
  <2>2. QED
    BY <1>2, <2>1 DEF IMOnScopeRead, IMGood, IMResults, IMAdmits, IMGo, IMNow, IMInv, IMTypeOK, IMGates
<1>3. CASE m = "MATCH"
  <2>1. /\ IMAt("LOCATE", "export") \in IMStages /\ IMAt("LOCATE", "export").at # "WAIT_FOR"
        /\ IMAt("locate", "export") \in IMEffects
    BY IMStageIn, IMEffectIn DEF IMHere, IMAsks, IMTargets, IMAt
  <2>2. QED
    BY <1>3, <2>1 DEF IMOnScopeRead, IMGood, IMResults, IMAdmits, IMGo, IMNow, IMInv, IMTypeOK, IMGates
<1>4. QED
  BY <1>1, <1>2, <1>3

LEMMA IMFileGood ==
  ASSUME IMInv, NEW ok
  PROVE  IMGood(IMOnDownloadDetected(ok)) /\ IMGood(IMOnArtifactValidated(ok)) /\ IMGood(IMOnIngested(ok))
<1>1. \A s \in IMPlain, f \in IMDoes : IMGood(IMGo(IMJust(s), IMJust(f)))
  BY IMPlainGood
<1>2. QED
  BY <1>1, IMFailGood DEF IMOnDownloadDetected, IMOnArtifactValidated, IMOnIngested, IMPlain, IMDoes

\* A driver's answer: to the effect that was asked for, whatever became of the run.
LEMMA IMAnswerGood ==
  ASSUME IMInv, NEW f \in IMEffects,
         f.at \notin {"observe", "CLEAR_HIGHLIGHT", "CLEANUP"}, f # IMNothing,
         NEW a \in IMAnswers(f)
  PROVE  /\ IMGood(IMOnAnswer(f, a))
         /\ imStage \in IMTerminal => IMOnAnswer(f, a).stage = imStage
<1>1. CASE imStage \in IMTerminal
  BY <1>1, IMNowGood DEF IMOnAnswer
<1>2. ASSUME imStage \notin IMTerminal PROVE IMGood(IMOnAnswer(f, a))
  <2>1. f = IMAt(f.at, f.on)
    BY IMEffectIs
  <2>2. CASE f.at \in IMAsks /\ f.on \in IMTargets
    BY <1>2, <2>2, IMControlGood DEF IMOnAnswer, IMAsks
  <2>3. CASE f.at = "PREPARE"
    <3>1. a \in {"ready", "login", "unsettled"}
      BY <2>3 DEF IMAnswers
    <3>2. IMOnAnswer(f, a) = IMOnSurfaceReady(a)
      BY <1>2, <2>3 DEF IMOnAnswer
    <3>3. IMGood(IMAsk(IMJust("READ_FACTS")))
      BY IMAskGood, IMEffectIn DEF IMDoes
    <3>4. IMGood(IMParkAt("SESSION_BLOCKED")) /\ IMGood(IMParkAt("SURFACE_BLOCKED"))
      BY IMParkGood DEF IMPlain
    <3>5. QED
      BY <3>1, <3>2, <3>3, <3>4 DEF IMOnSurfaceReady
  <2>4. CASE f.at = "READ_FACTS"
    <3>1. a \in BOOLEAN
      BY <2>4 DEF IMAnswers
    <3>2. QED
      BY <1>2, <2>4, <3>1, IMFactsGood DEF IMOnAnswer
  <2>5. CASE f.at = "READ_SCOPE"
    <3>1. a \in {"MATCH", "MISMATCH", "UNREADABLE"}
      BY <2>5 DEF IMAnswers
    <3>2. QED
      BY <1>2, <2>5, <3>1, IMScopeGood DEF IMOnAnswer
  <2>6. CASE f.at \in {"DETECT_DOWNLOAD", "VALIDATE_ARTIFACT", "INGEST"}
    BY <1>2, <2>6, IMFileGood DEF IMOnAnswer
  <2>7. f.at # "NONE" \/ f.on # "none"
    BY <2>1 DEF IMNothing, IMJust
  <2>8. QED
    BY <2>2, <2>3, <2>4, <2>5, <2>6, <2>7, IMEffectIs DEF IMDoes
<1>3. QED
  BY <1>1, <1>2, IMNowGood DEF IMOnAnswer

\* The gate: an answer that leads past it finds it open, or is the answer to a call
\* that was past it.
LEMMA IMAnswerAdmits ==
  ASSUME IMInv, NEW f \in IMEffects, ~IMPastGate(f),
         f.at \notin {"observe", "CLEAR_HIGHLIGHT", "CLEANUP"}, f # IMNothing,
         NEW a \in IMAnswers(f)
  PROVE  IMAdmits(IMOnAnswer(f, a))
<1>1. CASE imStage \in IMTerminal
  BY <1>1, IMAskAdmits DEF IMOnAnswer
<1>2. ASSUME imStage \notin IMTerminal PROVE IMAdmits(IMOnAnswer(f, a))
  <2>1. f = IMAt(f.at, f.on)
    BY IMEffectIs
  <2>2. CASE f.at \in IMAsks /\ f.on \in IMTargets
    <3>1. f.on \in {"date", "apply_range"}
      BY <2>2 DEF IMTargets, IMPastGate
    <3>2. QED
      BY <1>2, <2>2, <3>1, IMControlAdmits DEF IMOnAnswer, IMAsks
  <2>3. CASE f.at = "PREPARE"
    <3>1. a \in {"ready", "login", "unsettled"}
      BY <2>3 DEF IMAnswers
    <3>2. IMOnAnswer(f, a) = IMOnSurfaceReady(a)
      BY <1>2, <2>3 DEF IMOnAnswer
    <3>3. IMAdmits(IMParkAt("SESSION_BLOCKED")) /\ IMAdmits(IMParkAt("SURFACE_BLOCKED"))
      BY IMPlainAdmits DEF IMParkAt, IMBeforeGate, IMPlain
    <3>4. QED
      BY <3>1, <3>2, <3>3, IMAskAdmits DEF IMOnSurfaceReady
  <2>4. CASE f.at = "READ_FACTS"
    <3>1. IMOnAnswer(f, a) = IMOnFactsRead(a)
      BY <1>2, <2>4 DEF IMOnAnswer
    <3>2. QED
      BY <3>1 DEF IMOnFactsRead, IMAdmits, IMPastGate, IMGo, IMNow, IMAt
  <2>5. CASE f.at = "READ_SCOPE"
    <3>1. a \in {"MATCH", "MISMATCH", "UNREADABLE"}
      BY <2>5 DEF IMAnswers
    <3>2. QED
      BY <1>2, <2>5, <3>1, IMScopeGood DEF IMOnAnswer
  <2>6. f.at \notin {"DETECT_DOWNLOAD", "VALIDATE_ARTIFACT", "INGEST"}
    BY DEF IMPastGate
  <2>7. f.at # "NONE" \/ f.on # "none"
    BY <2>1 DEF IMNothing, IMJust
  <2>8. QED
    BY <2>2, <2>3, <2>4, <2>5, <2>6, <2>7, IMEffectIs DEF IMDoes
<1>3. QED
  BY <1>1, <1>2

LEMMA IMAnsweredGood ==
  ASSUME IMInv, NEW f \in IMEffects,
         f.at \notin {"observe", "CLEAR_HIGHLIGHT", "CLEANUP"}, f # IMNothing,
         NEW a \in IMAnswers(f)
  PROVE  /\ IMGood(IMAnswered(f, a)) /\ IMAdmits(IMAnswered(f, a))
         /\ imStage \in IMTerminal => IMAnswered(f, a).stage = imStage
<1> DEFINE r == IMOnAnswer(f, a)
           late == r.gate = "holds" /\ IMPastGate(f) /\ IMPastGate(r.stage)
<1>1. IMGood(r) /\ (imStage \in IMTerminal => r.stage = imStage)
  BY IMAnswerGood
<1>2. IMAnswered(f, a) = IF late THEN [r EXCEPT !.gate = "overrun"] ELSE r
  BY DEF IMAnswered
<1>3. ~IMPastGate(f) => IMAdmits(r)
  BY IMAnswerAdmits
<1> HIDE DEF r
<1>4. CASE late
  <2>1. /\ [r EXCEPT !.gate = "overrun"] \in IMResults
        /\ [r EXCEPT !.gate = "overrun"].stage = r.stage
        /\ [r EXCEPT !.gate = "overrun"].next = r.next
        /\ [r EXCEPT !.gate = "overrun"].gate = "overrun"
    BY <1>1 DEF IMGood, IMResults, IMGates
  <2>2. QED
    BY <1>1, <1>2, <1>4, <2>1 DEF IMGood, IMAdmits
<1>5. CASE ~late
  BY <1>1, <1>2, <1>3, <1>5 DEF IMAdmits
<1>6. QED
  BY <1>4, <1>5

LEMMA IMRecheckGood ==
  ASSUME IMInv, imStage \in IMParks \cup {IMConfirm} \/ imStage.at = "WAIT_FOR"
  PROVE  IMGood(IMRecheck) /\ IMAdmits(IMRecheck)
<1>1. CASE imStage = IMJust("SCOPE_BLOCKED")
  <2>1. IMRecheck = IMGo(IMJust("READ_SCOPE"), IMJust("READ_SCOPE"))
    BY <1>1 DEF IMRecheck, IMConfirm, IMParks, IMJust, IMAt
  <2>2. QED
    BY <2>1, IMPlainGood, IMPlainAdmits DEF IMPlain, IMDoes, IMBeforeGate
<1>2. CASE imStage \in IMParks \ {IMJust("SCOPE_BLOCKED")}
  <2>1. IMRecheck = IMGo(IMJust("PREPARE_SESSION"), IMJust("PREPARE"))
    BY <1>2 DEF IMRecheck, IMParks, IMConfirm, IMJust, IMAt
  <2>2. QED
    BY <2>1, IMPlainGood, IMPlainAdmits DEF IMPlain, IMDoes, IMBeforeGate
<1>3. CASE imStage = IMConfirm
  <2>1. IMRecheck = [IMGo(IMAt("LOCATE", "export"), IMAt("locate", "export")) EXCEPT !.gate = "open"]
    BY <1>3 DEF IMRecheck, IMParks, IMConfirm, IMJust, IMAt
  <2>2. /\ IMAt("LOCATE", "export") \in IMStages /\ IMAt("LOCATE", "export").at # "WAIT_FOR"
        /\ IMAt("locate", "export") \in IMEffects
    BY IMStageIn, IMEffectIn DEF IMHere, IMAsks, IMTargets, IMAt
  <2>3. QED
    BY <2>1, <2>2 DEF IMGood, IMResults, IMAdmits, IMGo, IMNow, IMInv, IMTypeOK, IMGates
<1>4. CASE imStage.at = "WAIT_FOR"
  <2>1. imStage \in IMStages /\ imStage.on \in IMTargets
    BY <1>4, IMStageIs DEF IMInv, IMTypeOK, IMPlain
  <2>2. IMRecheck = IMAsk(IMAt("observe", imStage.on))
    BY <1>4 DEF IMRecheck, IMParks, IMConfirm, IMJust, IMAt
  <2>3. IMAt("observe", imStage.on) \in IMEffects
    BY <2>1, IMEffectIn DEF IMAsks
  <2>4. QED
    BY <2>2, <2>3, IMAskGood, IMAskAdmits
<1>5. QED
  BY <1>1, <1>2, <1>3, <1>4

-----------------------------------------------------------------------------
(* What publishing and driving a result does *)

IMOwners == {"none", "SESSION_BLOCKED", "SURFACE_BLOCKED", "SCOPE_BLOCKED"}

LEMMA IMWatchParkKeeps ==
  ASSUME IMInv, imStage' \in IMStages, imClosed' \in BOOLEAN, NEW owner \in IMOwners,
         IMWatchPark(owner)
  PROVE  imUp' \in BOOLEAN /\ imParkWatch' \in IMOwners /\ IMParkIsWatched'
<1>1. CASE owner = "none" /\ imStage' \in IMParks
  <2>1. imStage'.at \in IMOwners \ {"none"}
    BY <1>1 DEF IMParks, IMJust, IMAt, IMOwners
  <2>2. CASE imClosed'
    BY <1>1, <2>2 DEF IMWatchPark, IMOwners, IMParkIsWatched
  <2>3. CASE ~imClosed'
    BY <1>1, <2>1, <2>3 DEF IMWatchPark, IMParkIsWatched
  <2>4. QED
    BY <2>2, <2>3
<1>2. CASE ~(owner = "none" /\ imStage' \in IMParks)
  BY <1>2 DEF IMWatchPark, IMParkIsWatched, IMInv, IMTypeOK
<1>3. QED
  BY <1>1, <1>2

LEMMA IMBecomesKeeps ==
  ASSUME IMInv, NEW r, IMGood(r), IMBecomes(r)
  PROVE  /\ imStage' \in IMStages /\ imStage' = r.stage /\ imApply' \in BOOLEAN
         /\ imGate' \in IMGates /\ imWatch' \in BOOLEAN /\ imStale' \in BOOLEAN
         /\ IMAdmits(r) => IMIngestNeedsGate'
         /\ imWatch' => imStage'.at = "WAIT_FOR"
         /\ imWatch /\ imStage' = imStage => imWatch'
  BY DEF IMInv, IMTypeOK, IMGood, IMResults, IMBecomes, IMAdmits, IMIngestNeedsGate

LEMMA IMDriveKeeps ==
  ASSUME IMInv, NEW c \in IMSlots, NEW next \in IMEffects, NEW park \in IMSlots \cup {0},
         IMDrive(c, next, park), imStage' \in IMStages, imClosed' \in BOOLEAN
  PROVE  /\ imChain' \in [IMSlots -> IMEffects \cup {IMIdle}]
         /\ imChain' = [imChain EXCEPT ![c] = imChain'[c]]
         /\ next # IMNothing /\ ~imClosed' => imChain'[c] = next
         /\ \A d \in IMSlots : imChain'[d] # IMNothing
         /\ imBusy' \in BOOLEAN /\ imParkDrives' \in IMSlots \cup {0}
         /\ imUp' \in BOOLEAN /\ imParkWatch' \in IMOwners /\ IMParkIsWatched'
<1> DEFINE ends == next = IMNothing \/ imClosed'
           at == IF ends THEN IMIdle ELSE next
           owner == IF ends /\ park = c THEN IMOwnerAfter(imParkWatch) ELSE imParkWatch
<1>1. imChain' = [imChain EXCEPT ![c] = at] /\ at \in IMEffects \cup {IMIdle}
  BY DEF IMDrive
<1>2. at # IMNothing
  BY IMNothingIs
<1>3. imChain' \in [IMSlots -> IMEffects \cup {IMIdle}] /\ imChain'[c] = at
  BY <1>1 DEF IMInv, IMTypeOK
<1>4. \A d \in IMSlots : imChain'[d] # IMNothing
  BY <1>1, <1>2, <1>3 DEF IMInv, IMTypeOK
<1>5. imBusy' \in BOOLEAN /\ imParkDrives' \in IMSlots \cup {0}
  BY DEF IMDrive
<1>6. owner \in IMOwners
  BY DEF IMInv, IMTypeOK, IMOwnerAfter, IMOwners
<1>7. IMWatchPark(owner)
  BY DEF IMDrive
<1>8. imUp' \in BOOLEAN /\ imParkWatch' \in IMOwners /\ IMParkIsWatched'
  BY <1>6, <1>7, IMWatchParkKeeps
<1>9. QED
  BY <1>1, <1>3, <1>4, <1>5, <1>8

\* What a step says of the variables that neither publishing nor driving sets.
IMRestTyped ==
  /\ imStarted' \in BOOLEAN /\ imClosed' \in BOOLEAN /\ imOpen' \in BOOLEAN
  /\ imDog' \in BOOLEAN /\ imShut' \in BOOLEAN /\ imUpsets' \in 0..IMMaxUpsets
  /\ imClosed' => imShut'
  /\ imShut => imShut'

\* A task in slot c drives a good result.
LEMMA IMDrivesOn ==
  ASSUME IMInv, imUp, NEW c \in IMSlots, NEW park \in IMSlots \cup {0}, NEW r, IMGood(r),
         IMAdmits(r), IMBecomes(r), IMDrive(c, r.next, park), IMRestTyped,
         r.stage.at = "WAIT_FOR" => imChain[c].at # "observe"
  PROVE  IMInv'
<1>1. /\ imStage' \in IMStages /\ imStage' = r.stage /\ imApply' \in BOOLEAN
      /\ imGate' \in IMGates /\ imWatch' \in BOOLEAN /\ imStale' \in BOOLEAN
      /\ IMIngestNeedsGate'
      /\ imWatch' => imStage'.at = "WAIT_FOR"
      /\ imWatch /\ imStage' = imStage => imWatch'
  BY IMBecomesKeeps
<1>2. r.next \in IMEffects /\ imClosed' \in BOOLEAN
  BY DEF IMGood, IMResults, IMRestTyped
<1>3. /\ imChain' \in [IMSlots -> IMEffects \cup {IMIdle}]
      /\ imChain' = [imChain EXCEPT ![c] = imChain'[c]]
      /\ r.next # IMNothing /\ ~imClosed' => imChain'[c] = r.next
      /\ \A d \in IMSlots : imChain'[d] # IMNothing
      /\ imBusy' \in BOOLEAN /\ imParkDrives' \in IMSlots \cup {0}
      /\ imUp' \in BOOLEAN /\ imParkWatch' \in IMOwners /\ IMParkIsWatched'
  BY <1>1, <1>2, IMDriveKeeps
<1>4. IMTypeOK'
  BY <1>1, <1>3 DEF IMTypeOK, IMRestTyped, IMOwners, IMGates
<1>5. ASSUME ~imShut', imStage'.at = "WAIT_FOR"
      PROVE  imWatch' \/ \E d \in IMSlots : imChain'[d] = IMAt("observe", imStage'.on)
  <2>1. CASE r.next = IMAt("observe", r.stage.on)
    <3>1. r.next # IMNothing
      BY <2>1 DEF IMNothing, IMJust, IMAt
    <3>2. imChain'[c] = IMAt("observe", imStage'.on)
      BY <1>1, <1>3, <1>5, <2>1, <3>1 DEF IMRestTyped
    <3>3. QED
      BY <3>2
  <2>2. CASE r.stage = imStage
    <3>1. ~imShut
      BY <1>5 DEF IMRestTyped, IMInv, IMTypeOK
    <3>2. CASE imWatch
      BY <1>1, <2>2, <3>2
    <3>3. CASE \E d \in IMSlots : imChain[d] = IMAt("observe", imStage.on)
      <4>1. PICK d \in IMSlots : imChain[d] = IMAt("observe", imStage.on)
        BY <3>3
      <4>2. d # c
        BY <1>1, <1>5, <4>1 DEF IMAt
      <4>3. imChain'[d] = imChain[d]
        BY <1>3, <4>2 DEF IMInv, IMTypeOK
      <4>4. QED
        BY <1>1, <2>2, <4>1, <4>3
    <3>4. QED
      BY <1>1, <1>5, <2>2, <3>1, <3>2, <3>3 DEF IMInv, IMWaitIsWatched
  <2>3. QED
    BY <1>1, <1>5, <2>1, <2>2 DEF IMGood
<1>6. QED
  BY <1>1, <1>3, <1>4, <1>5 DEF IMInv, IMWaitIsWatched, IMRestTyped

\* A step publishes a good result and drives nothing.
LEMMA IMPublishes ==
  ASSUME IMInv, imUp, NEW r, IMGood(r), IMAdmits(r), r.next = IMNothing, IMBecomes(r), IMPublish,
         IMRestTyped
  PROVE  IMInv'
<1>1. /\ imStage' \in IMStages /\ imStage' = r.stage /\ imApply' \in BOOLEAN
      /\ imGate' \in IMGates /\ imWatch' \in BOOLEAN /\ imStale' \in BOOLEAN
      /\ IMIngestNeedsGate'
      /\ imWatch' => imStage'.at = "WAIT_FOR"
      /\ imWatch /\ imStage' = imStage => imWatch'
  BY IMBecomesKeeps
<1>2. imUp' \in BOOLEAN /\ imParkWatch' \in IMOwners /\ IMParkIsWatched'
  BY <1>1, IMWatchParkKeeps DEF IMPublish, IMRestTyped, IMInv, IMTypeOK, IMOwners
<1>3. UNCHANGED <<imChain, imParkDrives, imBusy>>
  BY DEF IMPublish
<1>4. IMTypeOK'
  BY <1>1, <1>2, <1>3 DEF IMInv, IMTypeOK, IMRestTyped, IMOwners, IMGates
<1>5. imStage'.at = "WAIT_FOR" => imStage' = imStage
  BY <1>1 DEF IMGood, IMNothing, IMJust, IMAt
<1>6. IMWaitIsWatched'
  BY <1>1, <1>3, <1>5 DEF IMInv, IMTypeOK, IMWaitIsWatched, IMRestTyped
<1>7. QED
  BY <1>1, <1>2, <1>3, <1>4, <1>6 DEF IMInv, IMRestTyped

\* A command starts a task or publishes only.
LEMMA IMCommandKeeps ==
  ASSUME IMInv, imUp, NEW c \in IMSlots, NEW r, IMGood(r), IMAdmits(r), IMCommand(c, r),
         imStarted' \in BOOLEAN, imUpsets' \in 0..IMMaxUpsets
  PROVE  IMInv' /\ imStage' = r.stage
<1>1. imClosed' = FALSE /\ UNCHANGED <<imOpen, imShut>>
  BY DEF IMCommand
<1>2. CASE r.next = IMNothing
  <2>1. IMBecomes(r) /\ IMPublish /\ UNCHANGED imDog
    BY <1>2 DEF IMCommand
  <2>2. IMRestTyped
    BY <1>1, <2>1 DEF IMRestTyped, IMInv, IMTypeOK
  <2>3. IMInv'
    BY <1>2, <2>1, <2>2, IMPublishes
  <2>4. QED
    BY <2>1, <2>3 DEF IMBecomes
<1>3. CASE r.next # IMNothing
  <2>1. IMTask(c, r, imParkDrives)
    BY <1>3 DEF IMCommand
  <2>2. IMBecomes(r) /\ IMDrive(c, r.next, imParkDrives) /\ imChain[c] = IMIdle
        /\ IMArms(imDog, r.next)
    BY <2>1 DEF IMTask
  <2>3. imDog' \in BOOLEAN
    BY <2>2 DEF IMArms, IMInv, IMTypeOK
  <2>4. IMRestTyped
    BY <1>1, <2>3 DEF IMRestTyped, IMInv, IMTypeOK
  <2>5. imChain[c].at # "observe" /\ imParkDrives \in IMSlots \cup {0}
    BY <2>2 DEF IMIdle, IMJust, IMAt, IMInv, IMTypeOK
  <2>6. IMInv'
    BY <2>2, <2>4, <2>5, IMDrivesOn
  <2>7. QED
    BY <2>2, <2>6 DEF IMBecomes
<1>4. QED
  BY <1>2, <1>3

\* A watcher starts a task.
LEMMA IMWatcherKeeps ==
  ASSUME IMInv, imUp, NEW c \in IMSlots, NEW r, IMGood(r), IMAdmits(r), NEW park \in IMSlots \cup {0},
         IMTask(c, r, park), UNCHANGED <<imStarted, imClosed, imOpen, imShut, imUpsets>>
  PROVE  IMInv' /\ imStage' = r.stage
<1>1. IMBecomes(r) /\ IMDrive(c, r.next, park) /\ imChain[c] = IMIdle /\ IMArms(imDog, r.next)
  BY DEF IMTask
<1>2. imDog' \in BOOLEAN
  BY <1>1 DEF IMArms, IMInv, IMTypeOK
<1>3. IMRestTyped
  BY <1>2 DEF IMRestTyped, IMInv, IMTypeOK
<1>4. imChain[c].at # "observe"
  BY <1>1 DEF IMIdle, IMJust, IMAt
<1>5. IMInv'
  BY <1>1, <1>3, <1>4, IMDrivesOn
<1>6. QED
  BY <1>1, <1>5 DEF IMBecomes

-----------------------------------------------------------------------------
(* One lemma for each kind of step: the invariant, and where a started run   *)
(* that is over goes                                                        *)

IMOver == imStarted /\ imStage \in IMTerminal

LEMMA IMWaitsNotOver ==
  /\ \A t : IMAt("WAIT_FOR", t) \notin IMTerminal
  /\ \A s \in IMTerminal : s.at # "WAIT_FOR"
  /\ IMConfirm \notin IMTerminal /\ IMParks \cap IMTerminal = {}
  /\ IMJust("PAUSED") \notin IMTerminal
  BY DEF IMTerminal, IMParks, IMConfirm, IMJust, IMAt

LEMMA IMUpsetTyped == ASSUME IMInv, IMUpset PROVE imUpsets' \in 0..IMMaxUpsets
  BY IMAssumption DEF IMInv, IMTypeOK, IMUpset

LEMMA IMCommandsKeep ==
  ASSUME IMInv, NEW c \in IMSlots,
         \/ IMStartRun(c) \/ IMPauseRun(c) \/ IMResumeRun(c) \/ IMCancelRun(c)
         \/ IMRecheckStep(c) \/ IMStartAgain(c)
  PROVE  IMInv' /\ (IMOver => imStage' = imStage)
<1>1. CASE IMStartRun(c)
  <2>1. /\ IMGood(IMGo(IMJust("PREPARE_SESSION"), IMJust("PREPARE")))
        /\ IMAdmits(IMGo(IMJust("PREPARE_SESSION"), IMJust("PREPARE")))
    BY IMPlainGood, IMPlainAdmits DEF IMPlain, IMDoes, IMBeforeGate
  <2>2. /\ imUp /\ ~imStarted /\ imStarted' \in BOOLEAN /\ imUpsets' \in 0..IMMaxUpsets
        /\ IMCommand(c, IMGo(IMJust("PREPARE_SESSION"), IMJust("PREPARE")))
    BY <1>1 DEF IMStartRun, IMInv, IMTypeOK
  <2>3. QED
    BY <2>1, <2>2, IMCommandKeeps DEF IMOver
<1>2. CASE IMPauseRun(c)
  <2>1. IMGood(IMParkAt("PAUSED")) /\ IMAdmits(IMParkAt("PAUSED"))
    BY IMParkGood, IMPlainAdmits DEF IMPlain, IMBeforeGate, IMParkAt
  <2>2. imUp /\ imStage \notin IMTerminal /\ imStarted' \in BOOLEAN /\ IMCommand(c, IMParkAt("PAUSED"))
    BY <1>2 DEF IMPauseRun, IMMayPause, IMMayCommand, IMInv, IMTypeOK
  <2>3. imUpsets' \in 0..IMMaxUpsets
    BY <1>2, IMUpsetTyped DEF IMPauseRun
  <2>4. QED
    BY <2>1, <2>2, <2>3, IMCommandKeeps DEF IMOver
<1>3. CASE IMResumeRun(c)
  <2>1. /\ IMGood(IMGo(IMJust("READ_SCOPE"), IMJust("READ_SCOPE")))
        /\ IMAdmits(IMGo(IMJust("READ_SCOPE"), IMJust("READ_SCOPE")))
    BY IMPlainGood, IMPlainAdmits DEF IMPlain, IMDoes, IMBeforeGate
  <2>2. /\ imUp /\ imStage \notin IMTerminal
        /\ imStarted' \in BOOLEAN /\ imUpsets' \in 0..IMMaxUpsets
        /\ IMCommand(c, IMGo(IMJust("READ_SCOPE"), IMJust("READ_SCOPE")))
    BY <1>3 DEF IMResumeRun, IMMayCommand, IMInv, IMTypeOK
  <2>3. QED
    BY <2>1, <2>2, IMCommandKeeps DEF IMOver
<1>4. CASE IMCancelRun(c)
  <2>1. /\ IMGood(IMGo(IMJust("CANCELLED"), IMJust("CLEANUP")))
        /\ IMAdmits(IMGo(IMJust("CANCELLED"), IMJust("CLEANUP")))
    BY IMPlainGood, IMPlainAdmits DEF IMPlain, IMDoes, IMBeforeGate
  <2>2. /\ imUp /\ imStage \notin IMTerminal
        /\ imStarted' \in BOOLEAN /\ imUpsets' \in 0..IMMaxUpsets
        /\ IMCommand(c, IMGo(IMJust("CANCELLED"), IMJust("CLEANUP")))
    BY <1>4 DEF IMCancelRun, IMMayCommand, IMInv, IMTypeOK
  <2>3. QED
    BY <2>1, <2>2, IMCommandKeeps DEF IMOver
<1>5. CASE IMRecheckStep(c)
  <2>1. /\ imUp /\ imStage \notin IMTerminal
        /\ imStarted' \in BOOLEAN /\ imUpsets' \in 0..IMMaxUpsets
        /\ IMCommand(c, IMRecheck)
        /\ imStage \in IMParks \cup {IMConfirm} \/ imStage.at = "WAIT_FOR"
    BY <1>5 DEF IMRecheckStep, IMMayRecheck, IMMayCommand, IMInv, IMTypeOK
  <2>2. QED
    BY <2>1, IMRecheckGood, IMCommandKeeps DEF IMOver
<1>6. CASE IMStartAgain(c)
  <2>1. /\ imUp /\ imStarted' \in BOOLEAN /\ imUpsets' \in 0..IMMaxUpsets /\ IMCommand(c, IMNow)
    BY <1>6 DEF IMStartAgain, IMInv, IMTypeOK
  <2>2. QED
    BY <2>1, IMNowGood, IMAskAdmits, IMCommandKeeps
<1>7. QED
  BY <1>1, <1>2, <1>3, <1>4, <1>5, <1>6

LEMMA IMChainAnswersKeeps ==
  ASSUME IMInv, NEW c \in IMSlots, IMChainAnswers(c)
  PROVE  IMInv' /\ (IMOver => imStage' = imStage)
<1>1. /\ imUp /\ imChain[c].at \notin {"idle", "observe", "CLEAR_HIGHLIGHT", "CLEANUP"}
      /\ UNCHANGED <<imClosed, imStarted, imShut, imUpsets>>
  BY DEF IMChainAnswers
<1>2. PICK a \in IMAnswers(imChain[c]) :
        /\ IMBecomes(IMAnswered(imChain[c], a))
        /\ imDog' = (imDog /\ imChain[c] # IMJust("PREPARE"))
        /\ imOpen' = (imOpen \/ imChain[c] = IMJust("PREPARE"))
        /\ IMDrive(c, IMAnswered(imChain[c], a).next, imParkDrives)
  BY DEF IMChainAnswers
<1>3. imChain[c] \in IMEffects /\ imChain[c] # IMNothing
  BY <1>1 DEF IMInv, IMTypeOK, IMIdle, IMJust, IMAt
<1>4. /\ IMGood(IMAnswered(imChain[c], a)) /\ IMAdmits(IMAnswered(imChain[c], a))
      /\ imStage \in IMTerminal => IMAnswered(imChain[c], a).stage = imStage
  BY <1>1, <1>3, IMAnsweredGood
<1>5. imDog' \in BOOLEAN /\ imOpen' \in BOOLEAN
  BY <1>2 DEF IMInv, IMTypeOK
<1>6. IMRestTyped
  BY <1>1, <1>5 DEF IMRestTyped, IMInv, IMTypeOK
<1>7. imParkDrives \in IMSlots \cup {0}
  BY DEF IMInv, IMTypeOK
<1>8. IMInv'
  BY <1>1, <1>2, <1>4, <1>6, <1>7, IMDrivesOn
<1>9. QED
  BY <1>2, <1>4, <1>8 DEF IMOver, IMBecomes

LEMMA IMChainEndsKeeps ==
  ASSUME IMInv, NEW c \in IMSlots, IMChainEnds(c)
  PROVE  IMInv' /\ (IMOver => imStage' = imStage)
<1>1. /\ imUp /\ imChain[c].at # "observe" /\ IMBecomes(IMNow)
      /\ UNCHANGED <<imClosed, imStarted, imOpen, imDog, imShut, imUpsets>>
      /\ IMDrive(c, IMNow.next, imParkDrives)
  BY DEF IMChainEnds, IMNow
<1>2. IMRestTyped /\ imParkDrives \in IMSlots \cup {0}
  BY <1>1 DEF IMRestTyped, IMInv, IMTypeOK
<1>3. IMInv'
  BY <1>1, <1>2, IMNowGood, IMAskAdmits, IMDrivesOn
<1>4. QED
  BY <1>1, <1>3, IMNowGood DEF IMBecomes

LEMMA IMChainRejectsKeeps ==
  ASSUME IMInv, NEW c \in IMSlots, IMChainRejects(c)
  PROVE  IMInv' /\ (IMOver => imStage' = imStage)
<1>1. /\ imUp /\ IMUpset /\ imDog' = FALSE
      /\ UNCHANGED <<imClosed, imStarted, imOpen, imShut>>
      /\ IMDrive(c, IMNothing, imParkDrives)
  BY DEF IMChainRejects
<1>2. PICK s \in IF imStage \in IMTerminal THEN {imStage.at} ELSE {"SURFACE_BLOCKED", "FAILED"} :
        IMBecomes(IMParkAt(s))
  BY DEF IMChainRejects
<1>3. s \in IMPlain /\ IMAdmits(IMParkAt(s))
      /\ (imStage \in IMTerminal => IMJust(s) = imStage)
  <2>1. CASE imStage \in IMTerminal
    <3>1. s = imStage.at
      BY <1>2, <2>1
    <3>2. imStage = IMJust(s) /\ s \in IMPlain
      BY <2>1, <3>1 DEF IMTerminal, IMJust, IMAt, IMPlain
    <3>3. QED
      BY <3>2 DEF IMInv, IMIngestNeedsGate, IMAdmits, IMParkAt, IMGo, IMNow
  <2>2. CASE imStage \notin IMTerminal
    BY <1>2, <2>2, IMPlainAdmits DEF IMPlain, IMBeforeGate, IMParkAt
  <2>3. QED
    BY <2>1, <2>2
<1>4. /\ IMGood(IMParkAt(s)) /\ IMParkAt(s).stage = IMJust(s) /\ IMJust(s).at # "WAIT_FOR"
      /\ IMParkAt(s).next = IMNothing
  <2>1. IMJust(s) \in IMStages /\ IMJust(s).at # "WAIT_FOR"
    BY <1>3, IMStageIn DEF IMPlain, IMJust, IMAt
  <2>2. QED
    BY <1>3, <2>1, IMGoGood, IMNothingIs DEF IMParkAt
<1>5. IMRestTyped /\ imParkDrives \in IMSlots \cup {0}
  BY <1>1, IMUpsetTyped DEF IMRestTyped, IMInv, IMTypeOK
<1>6. IMInv'
  BY <1>1, <1>2, <1>3, <1>4, <1>5, IMDrivesOn
<1>7. QED
  BY <1>2, <1>3, <1>4, <1>6 DEF IMOver, IMBecomes

\* The chain that armed an observation is gone, but its watcher stays.
LEMMA IMChainObservesKeeps ==
  ASSUME IMInv, NEW c \in IMSlots, IMChainObserves(c)
  PROVE  IMInv' /\ imStage' = imStage
<1>1. /\ imUp /\ imChain[c].at = "observe"
      /\ UNCHANGED <<imStage, imApply, imGate, imClosed>>
      /\ UNCHANGED <<imStarted, imOpen, imDog, imShut, imUpsets>>
      /\ IMDrive(c, IMNothing, imParkDrives)
  BY DEF IMChainObserves
<1>2. /\ imWatch' \in BOOLEAN /\ imStale' \in BOOLEAN
      /\ imWatch => imWatch'
      /\ imWatch' => imWatch \/ imStage = IMAt("WAIT_FOR", imChain[c].on)
      /\ imStage = IMAt("WAIT_FOR", imChain[c].on) => imWatch'
  BY DEF IMChainObserves, IMInv, IMTypeOK
<1>3. /\ imStage' \in IMStages /\ imClosed' \in BOOLEAN /\ imParkDrives \in IMSlots \cup {0}
      /\ IMNothing \in IMEffects
  BY <1>1, IMNothingIs DEF IMInv, IMTypeOK
<1>4. /\ imChain' \in [IMSlots -> IMEffects \cup {IMIdle}]
      /\ imChain' = [imChain EXCEPT ![c] = imChain'[c]]
      /\ \A d \in IMSlots : imChain'[d] # IMNothing
      /\ imBusy' \in BOOLEAN /\ imParkDrives' \in IMSlots \cup {0}
      /\ imUp' \in BOOLEAN /\ imParkWatch' \in IMOwners /\ IMParkIsWatched'
  BY <1>1, <1>3, IMDriveKeeps
<1>5. IMTypeOK'
  BY <1>1, <1>2, <1>4 DEF IMInv, IMTypeOK, IMOwners
<1>6. ASSUME ~imShut', imStage'.at = "WAIT_FOR"
      PROVE  imWatch' \/ \E d \in IMSlots : imChain'[d] = IMAt("observe", imStage'.on)
  <2>1. CASE imChain[c] = IMAt("observe", imStage.on)
    <3>1. imStage = IMAt("WAIT_FOR", imChain[c].on)
      BY <1>1, <1>6, <2>1, IMStageIs DEF IMInv, IMTypeOK, IMAt
    <3>2. QED
      BY <1>2, <3>1
  <2>2. CASE imChain[c] # IMAt("observe", imStage.on)
    <3>1. imWatch \/ \E d \in IMSlots : imChain[d] = IMAt("observe", imStage.on)
      BY <1>1, <1>6 DEF IMInv, IMWaitIsWatched
    <3>2. \A d \in IMSlots \ {c} : imChain'[d] = imChain[d]
      BY <1>4 DEF IMInv, IMTypeOK
    <3>3. QED
      BY <1>1, <1>2, <2>2, <3>1, <3>2
  <2>3. QED
    BY <2>1, <2>2
<1>7. imWatch' => imStage'.at = "WAIT_FOR"
  BY <1>1, <1>2 DEF IMInv, IMAt
<1>8. QED
  BY <1>1, <1>4, <1>5, <1>6, <1>7 DEF IMInv, IMWaitIsWatched, IMIngestNeedsGate

LEMMA IMSellerActsKeeps ==
  ASSUME IMInv, NEW c \in IMSlots, IMSellerActs(c)
  PROVE  IMInv' /\ (IMOver => imStage' = imStage)
<1>1. /\ imUp
      /\ imWatch \/ imStage.at = "WAIT_FOR"
      /\ UNCHANGED <<imStarted, imClosed, imOpen, imShut, imUpsets>>
      /\ IMTask(c, IMAdvanceAfterBarrier(imStage.on), imParkDrives)
  BY DEF IMSellerActs
<1>2. imStage.at = "WAIT_FOR" /\ imStage \in IMStages /\ imParkDrives \in IMSlots \cup {0}
  BY <1>1 DEF IMInv, IMTypeOK
<1>3. imStage.on \in IMTargets
  BY <1>2, IMStageIs DEF IMPlain
<1>4. IMGood(IMAdvanceAfterBarrier(imStage.on))
  BY <1>3, IMAdvanceGood
<1>5. IMAdmits(IMAdvanceAfterBarrier(imStage.on))
  <2>1. CASE imStage.on \in {"date", "apply_range"}
    BY <2>1, IMAdvanceAdmits
  <2>2. CASE imStage.on \in {"export", "consent"}
    <3>1. imGate # "holds"
      BY <2>2 DEF IMInv, IMIngestNeedsGate, IMPastGate
    <3>2. IMAdvanceAfterBarrier(imStage.on).gate = imGate
      BY <2>2 DEF IMAdvanceAfterBarrier, IMGo, IMNow
    <3>3. QED
      BY <3>1, <3>2 DEF IMAdmits
  <2>3. QED
    BY <1>3, <2>1, <2>2 DEF IMTargets
<1>6. QED
  BY <1>1, <1>2, <1>4, <1>5, IMWatcherKeeps, IMWaitsNotOver DEF IMOver

LEMMA IMParkLooksKeeps ==
  ASSUME IMInv, NEW c \in IMSlots, IMParkLooks(c)
  PROVE  IMInv' /\ (IMOver => imStage' = imStage)
<1>1. /\ imUp /\ imParkWatch # "none" /\ imStage = IMJust(imParkWatch)
      /\ UNCHANGED <<imStarted, imClosed, imOpen, imShut, imUpsets>>
      /\ IMTask(c, IMRecheck, c)
  BY DEF IMParkLooks, IMParkWaits, IMParkHolds
<1>2. imStage \in IMParks
  BY <1>1 DEF IMInv, IMTypeOK, IMParks
<1>3. IMGood(IMRecheck) /\ IMAdmits(IMRecheck)
  BY <1>2, IMRecheckGood
<1>4. QED
  BY <1>1, <1>2, <1>3, IMWatcherKeeps, IMWaitsNotOver DEF IMOver

LEMMA IMStaleEndsKeeps == ASSUME IMInv, IMStaleEnds PROVE IMInv' /\ imStage' = imStage
<1>1. /\ imStale' \in BOOLEAN /\ imBusy' \in BOOLEAN
      /\ UNCHANGED <<imUp, imStarted, imStage, imApply, imGate, imChain, imWatch, imParkWatch,
                     imParkDrives, imClosed, imOpen, imDog, imShut, imUpsets>>
  BY DEF IMStaleEnds, IMInv, IMTypeOK
<1>2. IMTypeOK'
  BY <1>1 DEF IMInv, IMTypeOK
<1>3. QED
  BY <1>1, <1>2 DEF IMInv, IMParkIsWatched, IMWaitIsWatched, IMIngestNeedsGate

LEMMA IMParkLeavesKeeps == ASSUME IMInv, IMParkLeaves PROVE IMInv' /\ imStage' = imStage
<1>1. /\ UNCHANGED <<imStage, imClosed>> /\ IMWatchPark("none")
      /\ UNCHANGED <<imStarted, imApply, imGate, imChain, imWatch, imStale, imParkDrives,
                     imBusy, imOpen, imDog, imShut, imUpsets>>
      /\ imUp
  BY DEF IMParkLeaves, IMParkWaits
<1>2. imUp' \in BOOLEAN /\ imParkWatch' \in IMOwners /\ IMParkIsWatched'
  BY <1>1, IMWatchParkKeeps DEF IMInv, IMTypeOK, IMOwners
<1>3. IMTypeOK'
  BY <1>1, <1>2 DEF IMInv, IMTypeOK, IMOwners
<1>4. IMWaitIsWatched'
  BY <1>1 DEF IMInv, IMWaitIsWatched
<1>5. QED
  BY <1>1, <1>2, <1>3, <1>4 DEF IMInv, IMIngestNeedsGate

LEMMA IMParkedKeeps ==
  ASSUME IMInv, IMDogBites \/ IMWindowCloses \/ IMPackRejected
  PROVE  IMInv' /\ (IMOver => imStage' = imStage)
<1>1. IMParked
  BY DEF IMDogBites, IMWindowCloses, IMPackRejected
<1>2. /\ imUp /\ IMUpset /\ imStage \notin IMTerminal /\ UNCHANGED imStarted
      /\ IMBecomes(IMParkAt("SURFACE_BLOCKED")) /\ IMPublish
  BY <1>1 DEF IMParked
<1>3. /\ imClosed' \in BOOLEAN /\ imOpen' \in BOOLEAN /\ imDog' \in BOOLEAN
      /\ imShut' \in BOOLEAN /\ (imClosed' => imShut') /\ (imShut => imShut')
  <2>1. CASE IMDogBites
    BY <2>1 DEF IMDogBites, IMInv, IMTypeOK
  <2>2. CASE IMWindowCloses
    <3>1. imOpen' \in BOOLEAN /\ imClosed' \in BOOLEAN /\ imShut' \in BOOLEAN
      BY <2>2 DEF IMWindowCloses
    <3>2. imShut'
      BY <2>2 DEF IMWindowCloses
    <3>3. imDog' \in BOOLEAN
      BY <2>2 DEF IMWindowCloses, IMInv, IMTypeOK
    <3>4. QED
      BY <3>1, <3>2, <3>3
  <2>3. CASE IMPackRejected
    BY <2>3 DEF IMPackRejected, IMInv, IMTypeOK
  <2>4. QED
    BY <2>1, <2>2, <2>3
<1>4. IMRestTyped
  BY <1>2, <1>3, IMUpsetTyped DEF IMRestTyped, IMInv, IMTypeOK
<1>5. /\ IMGood(IMParkAt("SURFACE_BLOCKED")) /\ IMParkAt("SURFACE_BLOCKED").next = IMNothing
      /\ IMAdmits(IMParkAt("SURFACE_BLOCKED"))
  BY IMParkGood, IMPlainAdmits DEF IMPlain, IMBeforeGate, IMParkAt
<1>6. IMInv'
  BY <1>2, <1>4, <1>5, IMPublishes
<1>7. QED
  BY <1>2, <1>6 DEF IMOver

-----------------------------------------------------------------------------
(* The invariant is inductive *)

LEMMA IMInitInv == ASSUME IMInit PROVE IMInv
<1>1. imStage = IMJust("PREPARE_SESSION") /\ imStage \in IMStages
  BY IMStageIn DEF IMInit, IMPlain
<1>2. \A c \in IMSlots : imChain[c] = IMIdle
  BY DEF IMInit
<1>3. IMTypeOK
  <2>1. /\ imUp \in BOOLEAN /\ imStarted \in BOOLEAN /\ imApply \in BOOLEAN
        /\ imGate \in {"holds", "open", "overrun"} /\ imWatch \in BOOLEAN /\ imStale \in BOOLEAN
        /\ imBusy \in BOOLEAN /\ imClosed \in BOOLEAN /\ imOpen \in BOOLEAN
        /\ imDog \in BOOLEAN /\ imShut \in BOOLEAN
    BY DEF IMInit
  <2>2. imUpsets \in 0..IMMaxUpsets
    BY IMAssumption DEF IMInit
  <2>3. imChain \in [IMSlots -> IMEffects \cup {IMIdle}]
    BY DEF IMInit
  <2>4. /\ imParkWatch \in {"none", "SESSION_BLOCKED", "SURFACE_BLOCKED", "SCOPE_BLOCKED"}
        /\ imParkDrives \in IMSlots \cup {0}
    BY DEF IMInit
  <2>5. QED
    BY <1>1, <2>1, <2>2, <2>3, <2>4 DEF IMTypeOK
<1>4. ~IMPastGate(imStage) /\ imStage.at # "WAIT_FOR" /\ imStage \notin IMParks
  BY <1>1 DEF IMPastGate, IMParks, IMJust, IMAt
<1>5. IMIdle # IMNothing
  BY DEF IMIdle, IMNothing, IMJust, IMAt
<1>6. QED
  BY <1>2, <1>3, <1>4, <1>5, IMNothingIs DEF IMInit, IMInv, IMParkIsWatched, IMWaitIsWatched,
     IMIngestNeedsGate

LEMMA IMStepInv == ASSUME IMInv, [IMNext]_imVars PROVE IMInv' /\ (IMOver => imStage' = imStage)
<1>1. CASE UNCHANGED imVars
  <2>1. IMTypeOK'
    BY <1>1 DEF imVars, IMInv, IMTypeOK
  <2>2. QED
    BY <1>1, <2>1 DEF imVars, IMInv, IMParkIsWatched, IMWaitIsWatched, IMIngestNeedsGate
<1>2. ASSUME NEW c \in IMSlots,
             \/ IMStartRun(c) \/ IMPauseRun(c) \/ IMResumeRun(c) \/ IMCancelRun(c)
             \/ IMRecheckStep(c) \/ IMStartAgain(c)
      PROVE  IMInv' /\ (IMOver => imStage' = imStage)
  BY <1>2, IMCommandsKeep
<1>3. ASSUME NEW c \in IMSlots,
             \/ IMChainAnswers(c) \/ IMChainEnds(c) \/ IMChainObserves(c) \/ IMChainRejects(c)
             \/ IMSellerActs(c) \/ IMParkLooks(c)
      PROVE  IMInv' /\ (IMOver => imStage' = imStage)
  BY <1>3, IMChainAnswersKeeps, IMChainEndsKeeps, IMChainObservesKeeps, IMChainRejectsKeeps,
     IMSellerActsKeeps, IMParkLooksKeeps
<1>4. CASE IMStaleEnds
  BY <1>4, IMStaleEndsKeeps
<1>5. CASE IMParkLeaves
  BY <1>5, IMParkLeavesKeeps
<1>6. CASE IMDogBites \/ IMWindowCloses \/ IMPackRejected
  BY <1>6, IMParkedKeeps
<1>7. QED
  BY <1>1, <1>2, <1>3, <1>4, <1>5, <1>6 DEF IMNext

\* However the tasks of a session interleave over its engine, late answers,
\* parks and shut windows included, the conjuncts of IMInv hold; the theorems
\* below rest on it.
THEOREM IMInvariant == IMSpec => []IMInv
<1>1. IMInit => IMInv
  BY IMInitInv
<1>2. IMInv /\ [IMNext]_imVars => IMInv'
  BY IMStepInv
<1>3. QED
  BY <1>1, <1>2, PTL DEF IMSpec

-----------------------------------------------------------------------------
(* What follows *)

\* Every variable of the session keeps its type.
THEOREM IMTypeCorrect == IMSpec => []IMTypeOK
<1>1. IMInv => IMTypeOK
  BY DEF IMInv
<1>2. QED
  BY <1>1, IMInvariant, PTL

\* A parked run of a living process has a loop that owns its park watch, whichever
\* task parked it and whichever loop just ended.
THEOREM IMParksAreWatched == IMSpec => []IMParkIsWatched
<1>1. IMInv => IMParkIsWatched
  BY DEF IMInv
<1>2. QED
  BY <1>1, IMInvariant, PTL

\* As long as no window was shut, a run that waits for the seller is watched, or
\* has the chain that is about to watch it.
THEOREM IMWaitsAreWatched == IMSpec => []IMWaitIsWatched
<1>1. IMInv => IMWaitIsWatched
  BY DEF IMInv
<1>2. QED
  BY <1>1, IMInvariant, PTL

\* The scope gate: with any number of chains that answer late, the run is past it only
\* after a verdict or a confirmation that lets it by, or behind a call that was past it
\* when a later verdict refused.
THEOREM IMGateHolds == IMSpec => []IMIngestNeedsGate
<1>1. IMInv => IMIngestNeedsGate
  BY DEF IMInv
<1>2. QED
  BY <1>1, IMInvariant, PTL

\* A started run that is over stays where it ended.
THEOREM IMOverStays == IMSpec => IMTerminalStays
<1>1. IMInv /\ [IMNext]_imVars => [IMOver => imStage' = imStage]_imVars
  BY IMStepInv
<1>2. QED
  BY <1>1, IMInvariant, PTL DEF IMSpec, IMTerminalStays, IMOver

=============================================================================
