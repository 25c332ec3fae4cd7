-------------------------- MODULE ActionWindowProofs --------------------------
(***************************************************************************)
(* Proofs about ActionWindow, for any number of drive chains, controls,     *)
(* downloads, command identities and faults: types; a driven stage has its  *)
(* chain; one chain at most is past the seller's click; completion is       *)
(* earned; a run that is over stays over; a command takes effect once.      *)
(*                                                                          *)
(* The engine is proved about first (AWEngineOK: what holds of a record in  *)
(* memory and of one on disk; AWAsked: what an engine method returns), then *)
(* the session, one lemma per action.                                       *)
(***************************************************************************)
EXTENDS ActionWindow, TLAPS

AWSellerStages == {"LOCATE_TARGET", "HIGHLIGHT_TARGET", "WAIT_FOR_USER_ACTION", "VERIFY_TRANSITION"}
AWFetching == AWDownstream \cup {"INGEST"}
AWBehind == AWDownstream \cup AWOver \cup {"FAILED"}

-----------------------------------------------------------------------------
(* Stages and probes *)

LEMMA AWProbeTable ==
  /\ AWProbeOf["PREPARE_SESSION"] = "PREPARE"
  /\ AWProbeOf["LOCATE_TARGET"] = "LOCATE"
  /\ AWProbeOf["HIGHLIGHT_TARGET"] = "HIGHLIGHT"
  /\ AWProbeOf["VERIFY_TRANSITION"] = "VERIFY"
  /\ AWProbeOf["DETECT_DOWNLOAD"] = "DETECT_DOWNLOAD"
  /\ AWProbeOf["VALIDATE_ARTIFACT"] = "VALIDATE_ARTIFACT"
  /\ AWProbeOf["INGEST_HANDOFF"] = "INGEST"
  BY DEF AWProbeOf, AWDriven, AWPrepStages, AWDownstream

LEMMA AWProbesAre ==
  AWProbes = {"PREPARE", "LOCATE", "HIGHLIGHT", "VERIFY", "DETECT_DOWNLOAD",
              "VALIDATE_ARTIFACT", "INGEST"}
  BY AWProbeTable DEF AWProbes, AWDriven, AWPrepStages, AWDownstream

LEMMA AWSets ==
  /\ AWDriven = {"PREPARE_SESSION", "LOCATE_TARGET", "HIGHLIGHT_TARGET", "VERIFY_TRANSITION",
                 "DETECT_DOWNLOAD", "VALIDATE_ARTIFACT", "INGEST_HANDOFF"}
  /\ AWStages = {"PREPARE_SESSION", "LOCATE_TARGET", "HIGHLIGHT_TARGET", "VERIFY_TRANSITION",
                 "DETECT_DOWNLOAD", "VALIDATE_ARTIFACT", "INGEST_HANDOFF", "COMPLETE",
                 "CANCELLED", "WAIT_FOR_USER_ACTION", "AWAIT_SESSION_RECOVERY", "FAILED", "PAUSED"}
  /\ AWFetching = {"DETECT_DOWNLOAD", "VALIDATE_ARTIFACT", "INGEST_HANDOFF", "INGEST"}
  /\ AWEffects = {"PREPARE", "LOCATE", "HIGHLIGHT", "VERIFY", "DETECT_DOWNLOAD",
                  "VALIDATE_ARTIFACT", "INGEST", "OBSERVE", "CLEANUP", "NONE"}
  BY AWProbesAre DEF AWDriven, AWStages, AWPrepStages, AWDownstream, AWOver, AWFetching, AWEffects

LEMMA AWStageOfProbe == ASSUME NEW s \in AWDriven PROVE AWStageOf(AWProbeOf[s]) = s
<1>1. \A t \in AWDriven : AWProbeOf[t] = AWProbeOf[s] => t = s
  BY AWProbeTable DEF AWDriven, AWPrepStages, AWDownstream
<1>2. QED
  BY <1>1 DEF AWStageOf

LEMMA AWStageTable ==
  /\ AWStageOf("PREPARE") = "PREPARE_SESSION"
  /\ AWStageOf("LOCATE") = "LOCATE_TARGET"
  /\ AWStageOf("HIGHLIGHT") = "HIGHLIGHT_TARGET"
  /\ AWStageOf("VERIFY") = "VERIFY_TRANSITION"
  /\ AWStageOf("DETECT_DOWNLOAD") = "DETECT_DOWNLOAD"
  /\ AWStageOf("VALIDATE_ARTIFACT") = "VALIDATE_ARTIFACT"
  /\ AWStageOf("INGEST") = "INGEST_HANDOFF"
  BY AWStageOfProbe, AWProbeTable DEF AWDriven, AWPrepStages, AWDownstream

-----------------------------------------------------------------------------
(* The engine *)

\* What holds of every engine, in memory or saved; v and g say whether a
\* verification and an ingest handoff succeeded.
AWEngineOK(e, v, g) ==
  /\ e \in AWEngines
  /\ e.stage \in AWSellerStages => e.step = 2
  /\ e.stage \in AWDownstream \cup {"COMPLETE"} => e.step = 3
  /\ e.stage = "PAUSED" =>
       /\ e.resume \in AWPrepStages \cup {"WAIT_FOR_USER_ACTION", "DETECT_DOWNLOAD"}
       /\ e.resume \in AWSellerStages => e.step = 2
       /\ e.resume = "DETECT_DOWNLOAD" => e.step = 3
  /\ e.step = 3 => v
  /\ e.stage = "COMPLETE" => g
  /\ ~e.started => e.stage \in {"PREPARE_SESSION", "PAUSED"} /\ e.step = 1

\* What an engine method returns when it is called on e: a driven stage asks for
\* its own probe, a run behind the seller's click does not come back.
AWAsked(o, e) ==
  /\ o.next \in AWEffects
  /\ o.eng.started
  /\ o.eng.ledger = e.ledger
  /\ o.eng.stage \in AWDriven => o.next = AWProbeOf[o.eng.stage]
  /\ o.next \in AWFetching => o.eng.stage \in AWDownstream
  /\ e.stage \in AWDownstream => o.eng.stage \in AWBehind

LEMMA AWOutIs == ASSUME NEW e, NEW f PROVE AWOut(e, f).eng = e /\ AWOut(e, f).next = f
  BY DEF AWOut

LEMMA AWFailOK ==
  ASSUME NEW e, NEW v \in BOOLEAN, NEW g \in BOOLEAN, AWEngineOK(e, v, g), e.started
  PROVE  AWEngineOK(AWFail(e).eng, v, g) /\ AWAsked(AWFail(e), e)
<1> DEFINE n == [e EXCEPT !.stage = "FAILED", !.blocker = "TERMINAL"]
<1>1. e \in AWEngines
  BY DEF AWEngineOK
<1>2. n \in AWEngines
  BY <1>1 DEF AWEngines, AWStages
<1>3. /\ n.stage = "FAILED" /\ n.step = e.step /\ n.started = e.started /\ n.ledger = e.ledger
  BY <1>1 DEF AWEngines
<1>4. AWFail(e).eng = n /\ AWFail(e).next = "CLEANUP"
  BY DEF AWFail, AWOut
<1> HIDE DEF n
<1>5. AWEngineOK(n, v, g)
  BY <1>2, <1>3 DEF AWEngineOK, AWSellerStages, AWDownstream
<1>6. AWAsked(AWFail(e), e)
  BY <1>3, <1>4 DEF AWAsked, AWEffects, AWDriven, AWPrepStages, AWDownstream, AWFetching, AWBehind
<1>7. QED
  BY <1>4, <1>5, <1>6

LEMMA AWCancelOK ==
  ASSUME NEW e, NEW v \in BOOLEAN, NEW g \in BOOLEAN, AWEngineOK(e, v, g), e.started
  PROVE  AWEngineOK(AWCancel(e).eng, v, g) /\ AWAsked(AWCancel(e), e)
<1> DEFINE n == [e EXCEPT !.stage = "CANCELLED", !.blocker = AWNone]
<1>1. e \in AWEngines
  BY DEF AWEngineOK
<1>2. n \in AWEngines
  BY <1>1 DEF AWEngines, AWStages, AWOver
<1>3. /\ n.stage = "CANCELLED" /\ n.step = e.step /\ n.started = e.started /\ n.ledger = e.ledger
  BY <1>1 DEF AWEngines
<1>4. AWCancel(e).eng = n /\ AWCancel(e).next = "CLEANUP"
  BY DEF AWCancel, AWOut
<1> HIDE DEF n
<1>5. AWEngineOK(n, v, g)
  BY <1>2, <1>3 DEF AWEngineOK, AWSellerStages, AWDownstream
<1>6. AWAsked(AWCancel(e), e)
  BY <1>3, <1>4 DEF AWAsked, AWEffects, AWDriven, AWPrepStages, AWDownstream, AWFetching, AWBehind,
                    AWOver
<1>7. QED
  BY <1>4, <1>5, <1>6

\* The engine e becomes n and asks for f.
AWMoves(e, n, f, v, g) ==
  /\ n \in AWEngines /\ f \in AWEffects
  /\ n.stage \in AWSellerStages => n.step = 2
  /\ n.stage \in AWDownstream \cup {"COMPLETE"} => n.step = 3
  /\ n.stage # "PAUSED"
  /\ n.step = 3 => v
  /\ n.stage = "COMPLETE" => g
  /\ n.started /\ n.ledger = e.ledger
  /\ n.stage \in AWDriven => f = AWProbeOf[n.stage]
  /\ f \in AWFetching => n.stage \in AWDownstream
  /\ e.stage \in AWDownstream => n.stage \in AWBehind

LEMMA AWMoveOK ==
  ASSUME NEW e, NEW n, NEW f, NEW v \in BOOLEAN, NEW g \in BOOLEAN, AWMoves(e, n, f, v, g)
  PROVE  AWEngineOK(AWOut(n, f).eng, v, g) /\ AWAsked(AWOut(n, f), e)
<1>1. AWEngineOK(n, v, g)
  BY DEF AWEngineOK, AWMoves
<1>2. QED
  BY <1>1, AWOutIs DEF AWAsked, AWMoves

\* A typed engine stays one when its place in the run is set.
AWPlace(e, s, step, done, b) ==
  [e EXCEPT !.stage = s, !.step = step, !.completed = done, !.blocker = b]

AWPlaceTyped(s, step, done, b) ==
  s \in AWStages /\ step \in 1..3 /\ done \in 0..3 /\ b \in {AWNone, "RECOVERABLE", "TERMINAL"}

AWPlacedAs(n, e, s, step) ==
  n \in AWEngines /\ n.stage = s /\ n.step = step /\ n.started = e.started /\ n.ledger = e.ledger

LEMMA AWPlaced ==
  ASSUME NEW e, NEW s, NEW step, NEW done, NEW b, e \in AWEngines, AWPlaceTyped(s, step, done, b)
  PROVE  AWPlacedAs(AWPlace(e, s, step, done, b), e, s, step)
<1> DEFINE m == [e EXCEPT !.stage = s, !.step = step]
           n == [m EXCEPT !.completed = done, !.blocker = b]
<1>1. m \in AWEngines /\ m.stage = s /\ m.step = step /\ m.started = e.started /\ m.ledger = e.ledger
  BY DEF AWEngines, AWPlaceTyped
<1>2. AWPlace(e, s, step, done, b) = n
  BY DEF AWPlace, AWEngines
<1> HIDE DEF m
<1>3. n \in AWEngines /\ n.stage = m.stage /\ n.step = m.step /\ n.started = m.started
      /\ n.ledger = m.ledger
  BY <1>1 DEF AWEngines, AWPlaceTyped
<1>4. QED
  BY <1>1, <1>2, <1>3 DEF AWPlacedAs

\* A probe's answer, given to the engine in the stage that asked for it.
LEMMA AWAnswerOK ==
  ASSUME NEW e, NEW v \in BOOLEAN, NEW g \in BOOLEAN, AWEngineOK(e, v, g), e.started,
         NEW f \in AWProbes, e.stage = AWStageOf(f), NEW a \in AWAnswers(f),
         NEW w \in BOOLEAN, w = (v \/ (f = "VERIFY" /\ a = "verified")),
         NEW h \in BOOLEAN, h = (g \/ (f = "INGEST" /\ a = "ok"))
  PROVE  AWEngineOK(AWOnAnswer(e, f, a).eng, w, h) /\ AWAsked(AWOnAnswer(e, f, a), e)
<1>1. e \in AWEngines /\ (v => w) /\ (g => h)
  BY DEF AWEngineOK, AWSellerStages, AWDownstream
<1>2. AWEngineOK(e, w, h)
  BY <1>1 DEF AWEngineOK, AWSellerStages, AWDownstream
<1>3. AWEngineOK(AWFail(e).eng, w, h) /\ AWAsked(AWFail(e), e)
  BY <1>2, AWFailOK
<1>4. CASE f = "PREPARE"
  <2>1. AWOnAnswer(e, f, a) = AWOnSurfaceReady(e, a) /\ e.stage = "PREPARE_SESSION"
    BY <1>4, AWStageTable DEF AWOnAnswer
  <2>2. CASE a = "ready"
    <3> DEFINE n == [e EXCEPT !.stage = "LOCATE_TARGET", !.step = 2, !.completed = 1,
                              !.blocker = AWNone]
    <3>1. /\ n \in AWEngines /\ n.stage = "LOCATE_TARGET" /\ n.step = 2
          /\ n.started = e.started /\ n.ledger = e.ledger
      <4>1. n = AWPlace(e, "LOCATE_TARGET", 2, 1, AWNone)
        BY <1>1 DEF AWPlace, AWEngines
      <4>2. AWPlaceTyped("LOCATE_TARGET", 2, 1, AWNone)
        BY <1>1, AWSets DEF AWEngines, AWPlaceTyped
      <4> HIDE DEF n
      <4>3. AWPlacedAs(n, e, "LOCATE_TARGET", 2)
        BY <1>1, <4>1, <4>2, AWPlaced
      <4>4. QED
        BY <4>3 DEF AWPlacedAs
    <3>2. AWOnAnswer(e, f, a) = AWOut(n, "LOCATE")
      BY <2>1, <2>2 DEF AWOnSurfaceReady
    <3> HIDE DEF n
    <3>3. "LOCATE" \in AWEffects /\ "LOCATE" = AWProbeOf["LOCATE_TARGET"] /\ "LOCATE" \notin AWFetching
      BY AWSets, AWProbeTable
    <3>4. AWMoves(e, n, "LOCATE", w, h)
      BY <2>1, <3>1, <3>2, <3>3, <1>1 DEF AWMoves, AWSellerStages, AWDownstream
    <3>5. QED
      BY <3>2, <3>4, AWMoveOK
  <2>3. CASE a = "session"
    <3> DEFINE n == [e EXCEPT !.stage = "AWAIT_SESSION_RECOVERY", !.step = 1,
                              !.blocker = "RECOVERABLE"]
    <3>1. /\ n \in AWEngines /\ n.stage = "AWAIT_SESSION_RECOVERY" /\ n.step = 1
          /\ n.started = e.started /\ n.ledger = e.ledger
      <4>1. n = AWPlace(e, "AWAIT_SESSION_RECOVERY", 1, e.completed, "RECOVERABLE")
        BY <1>1 DEF AWPlace, AWEngines
      <4>2. AWPlaceTyped("AWAIT_SESSION_RECOVERY", 1, e.completed, "RECOVERABLE")
        BY <1>1, AWSets DEF AWEngines, AWPlaceTyped
      <4> HIDE DEF n
      <4>3. AWPlacedAs(n, e, "AWAIT_SESSION_RECOVERY", 1)
        BY <1>1, <4>1, <4>2, AWPlaced
      <4>4. QED
        BY <4>3 DEF AWPlacedAs
    <3>2. AWOnAnswer(e, f, a) = AWOut(n, "NONE")
      BY <2>1, <2>3 DEF AWOnSurfaceReady, AWPark
    <3> HIDE DEF n
    <3>3. /\ "NONE" \in AWEffects /\ "NONE" \notin AWFetching
          /\ "AWAIT_SESSION_RECOVERY" \notin AWDriven
      BY AWSets
    <3>4. AWMoves(e, n, "NONE", w, h)
      BY <2>1, <3>1, <3>2, <3>3, <1>1 DEF AWMoves, AWSellerStages, AWDownstream
    <3>5. QED
      BY <3>2, <3>4, AWMoveOK
  <2>4. CASE a \notin {"ready", "session"}
    BY <1>3, <2>1, <2>4 DEF AWOnSurfaceReady
  <2>5. QED
    BY <2>2, <2>3, <2>4
<1>5. CASE f = "LOCATE"
  <2>1. AWOnAnswer(e, f, a) = AWOnLocated(e, a) /\ e.stage = "LOCATE_TARGET"
    BY <1>5, AWStageTable DEF AWOnAnswer
  <2>2. CASE a \in AWTargets
    <3> DEFINE n == [e EXCEPT !.stage = "HIGHLIGHT_TARGET", !.target = a]
    <3>1. /\ n \in AWEngines /\ n.stage = "HIGHLIGHT_TARGET" /\ n.step = e.step
          /\ n.started = e.started /\ n.ledger = e.ledger
      BY <1>1, <2>2, AWSets DEF AWEngines
    <3>2. AWOnAnswer(e, f, a) = AWOut(n, "HIGHLIGHT")
      BY <2>1, <2>2 DEF AWOnLocated
    <3> HIDE DEF n
    <3>3. /\ "HIGHLIGHT" \in AWEffects /\ "HIGHLIGHT" = AWProbeOf["HIGHLIGHT_TARGET"]
          /\ "HIGHLIGHT" \notin AWFetching
      BY AWSets, AWProbeTable
    <3>4. e.step = 2
      BY <2>1 DEF AWEngineOK, AWSellerStages, AWDownstream
    <3>5. AWMoves(e, n, "HIGHLIGHT", w, h)
      BY <2>1, <3>1, <3>2, <3>3, <3>4, <1>1 DEF AWMoves, AWSellerStages, AWDownstream
    <3>6. QED
      BY <3>2, <3>5, AWMoveOK
  <2>3. CASE a \notin AWTargets
    BY <1>3, <2>1, <2>3 DEF AWOnLocated
  <2>4. QED
    BY <2>2, <2>3
<1>6. CASE f = "HIGHLIGHT"
  <2>1. AWOnAnswer(e, f, a) = AWOnHighlighted(e) /\ e.stage = "HIGHLIGHT_TARGET"
    BY <1>6, AWStageTable DEF AWOnAnswer
  <2> DEFINE n == [e EXCEPT !.stage = "WAIT_FOR_USER_ACTION",
                            !.first = IF e.first = AWNone THEN e.target ELSE e.first]
  <2>2. /\ n \in AWEngines /\ n.stage = "WAIT_FOR_USER_ACTION" /\ n.step = e.step
        /\ n.started = e.started /\ n.ledger = e.ledger
    BY <1>1, AWSets DEF AWEngines
  <2>3. AWOnAnswer(e, f, a) = AWOut(n, "OBSERVE")
    BY <2>1 DEF AWOnHighlighted
  <2> HIDE DEF n
  <2>4. /\ "OBSERVE" \in AWEffects /\ "OBSERVE" \notin AWFetching
        /\ "WAIT_FOR_USER_ACTION" \notin AWDriven
    BY AWSets
  <2>5. e.step = 2
    BY <2>1 DEF AWEngineOK, AWSellerStages, AWDownstream
  <2>6. AWMoves(e, n, "OBSERVE", w, h)
    BY <2>1, <2>2, <2>3, <2>4, <2>5, <1>1 DEF AWMoves, AWSellerStages, AWDownstream
  <2>7. QED
    BY <2>3, <2>6, AWMoveOK
<1>7. CASE f = "VERIFY"
  <2>1. AWOnAnswer(e, f, a) = AWOnVerified(e, a) /\ e.stage = "VERIFY_TRANSITION"
    BY <1>7, AWStageTable DEF AWOnAnswer
  <2>2. CASE a = "verified"
    <3> DEFINE n == [e EXCEPT !.stage = "DETECT_DOWNLOAD", !.step = 3, !.completed = 2]
    <3>1. /\ n \in AWEngines /\ n.stage = "DETECT_DOWNLOAD" /\ n.step = 3
          /\ n.started = e.started /\ n.ledger = e.ledger
      <4>1. n = AWPlace(e, "DETECT_DOWNLOAD", 3, 2, e.blocker)
        BY <1>1 DEF AWPlace, AWEngines
      <4>2. AWPlaceTyped("DETECT_DOWNLOAD", 3, 2, e.blocker)
        BY <1>1, AWSets DEF AWEngines, AWPlaceTyped
      <4> HIDE DEF n
      <4>3. AWPlacedAs(n, e, "DETECT_DOWNLOAD", 3)
        BY <1>1, <4>1, <4>2, AWPlaced
      <4>4. QED
        BY <4>3 DEF AWPlacedAs
    <3>2. AWOnAnswer(e, f, a) = AWOut(n, "DETECT_DOWNLOAD")
      BY <2>1, <2>2 DEF AWOnVerified
    <3> HIDE DEF n
    <3>3. "DETECT_DOWNLOAD" \in AWEffects /\ "DETECT_DOWNLOAD" = AWProbeOf["DETECT_DOWNLOAD"]
      BY AWSets, AWProbeTable
    <3>4. AWMoves(e, n, "DETECT_DOWNLOAD", w, h)
      BY <1>7, <2>1, <2>2, <3>1, <3>2, <3>3, <1>1 DEF AWMoves, AWSellerStages, AWDownstream
    <3>5. QED
      BY <3>2, <3>4, AWMoveOK
  <2>3. CASE a = "unmet"
    <3> DEFINE n == [e EXCEPT !.stage = "WAIT_FOR_USER_ACTION"]
    <3>1. /\ n \in AWEngines /\ n.stage = "WAIT_FOR_USER_ACTION" /\ n.step = e.step
          /\ n.started = e.started /\ n.ledger = e.ledger
      BY <1>1, AWSets DEF AWEngines
    <3>2. AWOnAnswer(e, f, a) = AWOut(n, "OBSERVE")
      BY <2>1, <2>3 DEF AWOnVerified
    <3> HIDE DEF n
    <3>3. /\ "OBSERVE" \in AWEffects /\ "OBSERVE" \notin AWFetching
          /\ "WAIT_FOR_USER_ACTION" \notin AWDriven
      BY AWSets
    <3>4. e.step = 2
      BY <2>1 DEF AWEngineOK, AWSellerStages, AWDownstream
    <3>5. AWMoves(e, n, "OBSERVE", w, h)
      BY <2>1, <3>1, <3>2, <3>3, <3>4, <1>1 DEF AWMoves, AWSellerStages, AWDownstream
    <3>6. QED
      BY <3>2, <3>5, AWMoveOK
  <2>4. CASE a \notin {"verified", "unmet"}
    BY <1>3, <2>1, <2>4 DEF AWOnVerified
  <2>5. QED
    BY <2>2, <2>3, <2>4
<1>8. CASE f = "DETECT_DOWNLOAD"
  <2>1. AWOnAnswer(e, f, a) = AWOnDownloadDetected(e, a) /\ e.stage = "DETECT_DOWNLOAD"
    BY <1>8, AWStageTable DEF AWOnAnswer
  <2>2. CASE a \in AWArtifacts
    <3> DEFINE n == [e EXCEPT !.stage = "VALIDATE_ARTIFACT", !.artifact = a]
    <3>1. /\ n \in AWEngines /\ n.stage = "VALIDATE_ARTIFACT" /\ n.step = e.step
          /\ n.started = e.started /\ n.ledger = e.ledger
      BY <1>1, <2>2, AWSets DEF AWEngines
    <3>2. AWOnAnswer(e, f, a) = AWOut(n, "VALIDATE_ARTIFACT")
      BY <2>1, <2>2 DEF AWOnDownloadDetected
    <3> HIDE DEF n
    <3>3. "VALIDATE_ARTIFACT" \in AWEffects /\ "VALIDATE_ARTIFACT" = AWProbeOf["VALIDATE_ARTIFACT"]
      BY AWSets, AWProbeTable
    <3>4. e.step = 3 /\ w
      BY <1>1, <2>1 DEF AWEngineOK, AWSellerStages, AWDownstream
    <3>5. AWMoves(e, n, "VALIDATE_ARTIFACT", w, h)
      BY <2>1, <3>1, <3>2, <3>3, <3>4, <1>1 DEF AWMoves, AWSellerStages, AWDownstream, AWBehind
    <3>6. QED
      BY <3>2, <3>5, AWMoveOK
  <2>3. CASE a \notin AWArtifacts
    BY <1>3, <2>1, <2>3 DEF AWOnDownloadDetected
  <2>4. QED
    BY <2>2, <2>3
<1>9. CASE f = "VALIDATE_ARTIFACT"
  <2>1. AWOnAnswer(e, f, a) = AWOnArtifactValidated(e, a) /\ e.stage = "VALIDATE_ARTIFACT"
    BY <1>9, AWStageTable DEF AWOnAnswer
  <2>2. CASE a = "valid"
    <3> DEFINE n == [e EXCEPT !.stage = "INGEST_HANDOFF"]
    <3>1. /\ n \in AWEngines /\ n.stage = "INGEST_HANDOFF" /\ n.step = e.step
          /\ n.started = e.started /\ n.ledger = e.ledger
      BY <1>1, AWSets DEF AWEngines
    <3>2. AWOnAnswer(e, f, a) = AWOut(n, "INGEST")
      BY <2>1, <2>2 DEF AWOnArtifactValidated
    <3> HIDE DEF n
    <3>3. "INGEST" \in AWEffects /\ "INGEST" = AWProbeOf["INGEST_HANDOFF"]
      BY AWSets, AWProbeTable
    <3>4. e.step = 3 /\ w
      BY <1>1, <2>1 DEF AWEngineOK, AWSellerStages, AWDownstream
    <3>5. AWMoves(e, n, "INGEST", w, h)
      BY <2>1, <3>1, <3>2, <3>3, <3>4, <1>1 DEF AWMoves, AWSellerStages, AWDownstream, AWBehind
    <3>6. QED
      BY <3>2, <3>5, AWMoveOK
  <2>3. CASE a # "valid"
    BY <1>3, <2>1, <2>3 DEF AWOnArtifactValidated
  <2>4. QED
    BY <2>2, <2>3
<1>10. CASE f = "INGEST"
  <2>1. AWOnAnswer(e, f, a) = AWOnIngested(e, a) /\ e.stage = "INGEST_HANDOFF"
    BY <1>10, AWStageTable DEF AWOnAnswer
  <2>2. CASE a = "ok"
    <3> DEFINE n == [e EXCEPT !.stage = "COMPLETE", !.completed = 3, !.blocker = AWNone]
    <3>1. /\ n \in AWEngines /\ n.stage = "COMPLETE" /\ n.step = e.step
          /\ n.started = e.started /\ n.ledger = e.ledger
      <4>1. n = AWPlace(e, "COMPLETE", e.step, 3, AWNone)
        BY <1>1 DEF AWPlace, AWEngines
      <4>2. AWPlaceTyped("COMPLETE", e.step, 3, AWNone)
        BY <1>1, AWSets DEF AWEngines, AWPlaceTyped
      <4> HIDE DEF n
      <4>3. AWPlacedAs(n, e, "COMPLETE", e.step)
        BY <1>1, <4>1, <4>2, AWPlaced
      <4>4. QED
        BY <4>3 DEF AWPlacedAs
    <3>2. AWOnAnswer(e, f, a) = AWOut(n, "CLEANUP")
      BY <2>1, <2>2 DEF AWOnIngested
    <3> HIDE DEF n
    <3>3. "CLEANUP" \in AWEffects /\ "CLEANUP" \notin AWFetching /\ "COMPLETE" \notin AWDriven
      BY AWSets
    <3>4. e.step = 3 /\ w /\ h
      BY <1>1, <1>10, <2>1, <2>2 DEF AWEngineOK, AWSellerStages, AWDownstream
    <3>5. AWMoves(e, n, "CLEANUP", w, h)
      BY <2>1, <3>1, <3>2, <3>3, <3>4, <1>1 DEF AWMoves, AWSellerStages, AWDownstream, AWBehind, AWOver
    <3>6. QED
      BY <3>2, <3>5, AWMoveOK
  <2>3. CASE a # "ok"
    BY <1>3, <2>1, <2>3 DEF AWOnIngested
  <2>4. QED
    BY <2>2, <2>3
<1>11. QED
  BY <1>4, <1>5, <1>6, <1>7, <1>8, <1>9, <1>10, AWProbesAre

\* An accepted command.
LEMMA AWApplyOK ==
  ASSUME NEW e, NEW v \in BOOLEAN, NEW g \in BOOLEAN, AWEngineOK(e, v, g),
         NEW type \in AWCommands, AWValidNow(e, type)
  PROVE  /\ AWEngineOK(AWApply(e, type).eng, v, g) /\ AWAsked(AWApply(e, type), e)
         /\ e.stage \in AWBehind => /\ AWApply(e, type).eng.stage = "CANCELLED"
                                    /\ AWApply(e, type).next = "CLEANUP"
         /\ e.stage \notin AWOver
<1>1. e \in AWEngines
  BY DEF AWEngineOK
<1>2. e.stage \in AWStages /\ e.started \in BOOLEAN
  BY <1>1 DEF AWEngines
<1>3. CASE ~e.started
  <2>1. type = "START_RUN" /\ e.stage \in {"PREPARE_SESSION", "PAUSED"}
    BY <1>3 DEF AWValidNow, AWEngineOK
  <2> DEFINE n == [e EXCEPT !.started = TRUE, !.stage = "PREPARE_SESSION", !.step = 1]
  <2>2. /\ n \in AWEngines /\ n.stage = "PREPARE_SESSION" /\ n.step = 1 /\ n.started
        /\ n.ledger = e.ledger
    <3> DEFINE m == [e EXCEPT !.started = TRUE]
    <3>1. m \in AWEngines /\ m.started /\ m.ledger = e.ledger
      BY <1>1 DEF AWEngines
    <3>2. n = AWPlace(m, "PREPARE_SESSION", 1, e.completed, e.blocker)
      BY <1>1 DEF AWEngines, AWPlace
    <3>3. AWPlaceTyped("PREPARE_SESSION", 1, e.completed, e.blocker)
      BY <1>1, AWSets DEF AWEngines, AWPlaceTyped
    <3> HIDE DEF m, n
    <3>4. AWPlacedAs(n, m, "PREPARE_SESSION", 1)
      BY <3>1, <3>2, <3>3, AWPlaced
    <3>5. QED
      BY <3>1, <3>4 DEF AWPlacedAs
  <2>3. AWApply(e, type) = AWOut(n, "PREPARE")
    BY <2>1 DEF AWApply
  <2> HIDE DEF n
  <2>4. /\ "PREPARE" \in AWEffects /\ "PREPARE" = AWProbeOf["PREPARE_SESSION"]
        /\ "PREPARE" \notin AWFetching
    BY AWSets, AWProbeTable
  <2>5. AWMoves(e, n, "PREPARE", v, g)
    BY <2>1, <2>2, <2>4 DEF AWMoves, AWSellerStages, AWDownstream
  <2>6. QED
    BY <2>1, <2>3, <2>5, AWMoveOK DEF AWBehind, AWOver, AWDownstream
<1>4. CASE e.started
  <2>1. type \in AWAllowed(e.stage)
    BY <1>4 DEF AWValidNow
  <2>2. e.stage \notin AWOver \cup {"FAILED"}
    BY <2>1 DEF AWAllowed, AWOver, AWDriven, AWPrepStages, AWDownstream
  <2>3. CASE type = "CANCEL_RUN"
    <3>1. AWApply(e, type) = AWCancel(e)
      BY <2>3 DEF AWApply
    <3>2. AWCancel(e).eng.stage = "CANCELLED" /\ AWCancel(e).next = "CLEANUP"
      BY <1>1 DEF AWCancel, AWOut, AWEngines
    <3>3. QED
      BY <1>4, <2>2, <3>1, <3>2, AWCancelOK
  <2>4. CASE type # "CANCEL_RUN"
    <3>1. e.stage \notin AWDriven \/ e.stage \in AWPrepStages
      BY <2>1, <2>4, AWSets DEF AWAllowed
    <3>2. e.stage \notin AWBehind
      BY <2>2, <3>1 DEF AWBehind, AWDriven, AWPrepStages, AWDownstream
    <3>3. CASE type = "PAUSE_RUN"
      <4>1. e.stage \in AWPrepStages \cup {"WAIT_FOR_USER_ACTION"}
        BY <2>1, <3>3 DEF AWAllowed
      <4> DEFINE n == [e EXCEPT !.resume = e.stage, !.stage = "PAUSED"]
      <4>2. /\ n \in AWEngines /\ n.stage = "PAUSED" /\ n.step = e.step
            /\ n.started = e.started /\ n.ledger = e.ledger /\ n.resume = e.stage
        BY <1>1, <1>2, AWSets DEF AWEngines
      <4>3. AWApply(e, type).eng = n /\ AWApply(e, type).next = "NONE"
        BY <3>3 DEF AWApply, AWOut
      <4> HIDE DEF n
      <4>4. AWEngineOK(n, v, g)
        BY <1>4, <4>1, <4>2 DEF AWEngineOK, AWSellerStages, AWDownstream, AWPrepStages
      <4>5. AWAsked(AWApply(e, type), e)
        BY <1>4, <3>2, <4>2, <4>3, AWSets DEF AWAsked, AWBehind
      <4>6. QED
        BY <2>2, <3>2, <4>3, <4>4, <4>5
    <3>4. CASE type = "RESUME_RUN"
      <4>1. e.stage = "PAUSED"
        BY <2>1, <3>4 DEF AWAllowed
      <4> DEFINE to == IF e.resume = AWNone THEN "PREPARE_SESSION" ELSE e.resume
                 n == [e EXCEPT !.stage = to, !.resume = AWNone]
                 f == IF to = "WAIT_FOR_USER_ACTION" THEN "OBSERVE"
                      ELSE IF to \in AWDriven \ {"VERIFY_TRANSITION"} THEN AWProbeOf[to]
                      ELSE "NONE"
      <4>2. /\ to \in AWPrepStages \cup {"WAIT_FOR_USER_ACTION", "DETECT_DOWNLOAD"}
            /\ to \in AWSellerStages => e.step = 2
            /\ to = "DETECT_DOWNLOAD" => e.step = 3
            /\ e.step = 3 => v
        BY <4>1 DEF AWEngineOK, AWSellerStages, AWPrepStages
      <4>3. AWApply(e, type) = AWOut(n, f)
        BY <3>4 DEF AWApply, AWResume
      <4> HIDE DEF to
      <4>4. to \in AWStages
        BY <4>2, AWSets DEF AWPrepStages
      <4>5. /\ n \in AWEngines /\ n.stage = to /\ n.step = e.step
            /\ n.started = e.started /\ n.ledger = e.ledger
        BY <1>1, <4>4 DEF AWEngines
      <4>6. /\ f \in AWEffects /\ (to \in AWDriven => f = AWProbeOf[to])
            /\ (f \in AWFetching => to = "DETECT_DOWNLOAD")
        BY <4>2, AWSets, AWProbeTable DEF AWPrepStages
      <4> HIDE DEF n, f
      <4>7. AWMoves(e, n, f, v, g)
        BY <1>4, <3>2, <4>2, <4>5, <4>6 DEF AWMoves, AWSellerStages, AWDownstream, AWPrepStages, AWBehind
      <4>8. QED
        BY <2>2, <3>2, <4>3, <4>7, AWMoveOK
    <3>5. CASE type = "REQUEST_STEP_RECHECK" /\ e.stage = "AWAIT_SESSION_RECOVERY"
      <4> DEFINE n == [e EXCEPT !.stage = "PREPARE_SESSION"]
      <4>1. /\ n \in AWEngines /\ n.stage = "PREPARE_SESSION" /\ n.step = e.step
            /\ n.started = e.started /\ n.ledger = e.ledger
        BY <1>1, AWSets DEF AWEngines
      <4>2. AWApply(e, type) = AWOut(n, "PREPARE")
        BY <3>5 DEF AWApply
      <4> HIDE DEF n
      <4>3. /\ "PREPARE" \in AWEffects /\ "PREPARE" = AWProbeOf["PREPARE_SESSION"]
            /\ "PREPARE" \notin AWFetching
        BY AWSets, AWProbeTable
      <4>4. e.step = 3 => v
        BY DEF AWEngineOK
      <4>5. AWMoves(e, n, "PREPARE", v, g)
        BY <1>4, <3>2, <4>1, <4>3, <4>4 DEF AWMoves, AWSellerStages, AWDownstream, AWBehind
      <4>6. QED
        BY <2>2, <3>2, <4>2, <4>5, AWMoveOK
    <3>6. CASE type = "REQUEST_STEP_RECHECK" /\ e.stage # "AWAIT_SESSION_RECOVERY"
      <4>1. e.stage = "WAIT_FOR_USER_ACTION"
        BY <2>1, <3>6 DEF AWAllowed
      <4> DEFINE n == [e EXCEPT !.stage = "VERIFY_TRANSITION"]
      <4>2. /\ n \in AWEngines /\ n.stage = "VERIFY_TRANSITION" /\ n.step = e.step
            /\ n.started = e.started /\ n.ledger = e.ledger
        BY <1>1, AWSets DEF AWEngines
      <4>3. AWApply(e, type) = AWOut(n, "VERIFY")
        BY <3>6 DEF AWApply
      <4> HIDE DEF n
      <4>4. /\ "VERIFY" \in AWEffects /\ "VERIFY" = AWProbeOf["VERIFY_TRANSITION"]
            /\ "VERIFY" \notin AWFetching
        BY AWSets, AWProbeTable
      <4>5. e.step = 2
        BY <4>1 DEF AWEngineOK, AWSellerStages
      <4>6. AWMoves(e, n, "VERIFY", v, g)
        BY <1>4, <3>2, <4>2, <4>4, <4>5 DEF AWMoves, AWSellerStages, AWDownstream, AWBehind
      <4>7. QED
        BY <2>2, <3>2, <4>3, <4>6, AWMoveOK
    <3>7. type \notin {"START_RUN"}
      BY <2>1 DEF AWAllowed
    <3>8. QED
      BY <2>4, <3>3, <3>4, <3>5, <3>6, <3>7 DEF AWCommands
  <2>5. QED
    BY <2>3, <2>4
<1>5. QED
  BY <1>2, <1>3, <1>4

\* Writing a command into the ledger.
LEMMA AWLedgerOfOK ==
  ASSUME NEW e, NEW v \in BOOLEAN, NEW g \in BOOLEAN, AWEngineOK(e, v, g),
         NEW id \in AWIds \cup {AWNone}
  PROVE  /\ AWEngineOK(AWLedger(e, id), v, g)
         /\ AWLedger(e, id).stage = e.stage /\ AWLedger(e, id).started = e.started
         /\ AWLedger(e, id).ledger = e.ledger \cup ({id} \cap AWIds)
<1>1. e \in AWEngines
  BY DEF AWEngineOK
<1>2. CASE id \in AWIds
  <2> DEFINE n == [e EXCEPT !.ledger = @ \cup {id}]
  <2>1. /\ n \in AWEngines /\ n.stage = e.stage /\ n.step = e.step /\ n.started = e.started
        /\ n.resume = e.resume /\ n.ledger = e.ledger \cup {id}
    BY <1>1, <1>2 DEF AWEngines
  <2>2. AWLedger(e, id) = n
    BY <1>2 DEF AWLedger
  <2> HIDE DEF n
  <2>3. AWEngineOK(n, v, g)
    BY <2>1 DEF AWEngineOK
  <2>4. QED
    BY <1>2, <2>1, <2>2, <2>3
<1>3. CASE id \notin AWIds
  BY <1>3 DEF AWLedger
<1>4. QED
  BY <1>2, <1>3

-----------------------------------------------------------------------------
(* The invariant of the session *)

\* The engine in memory and the one on disk.
AWEnginesOK ==
  /\ AWEngineOK(awEng, awVerified, awIngested)
  /\ awDisk # AWNone => AWEngineOK(awDisk, awVerified, awIngested)

\* A chain belongs to a started run of a living process, and a chain that
\* fetches to one behind the seller's click.
AWChainsBelong ==
  /\ \A c \in AWSlots : awChain[c].at # "idle" => awUp /\ awEng.started
  /\ \A c \in AWSlots : awChain[c].at \in AWFetching => awEng.stage \in AWBehind

\* A run that is over on disk is so in memory.
AWOverIsKnown ==
  (awUp /\ awDisk # AWNone /\ awDisk.stage \in AWOver) => awEng.stage = awDisk.stage

\* What took effect is what the saved ledger holds, and memory holds the same.
AWSaved == IF awDisk = AWNone THEN {} ELSE awDisk.ledger
AWLedgerOK ==
  /\ \A i \in AWIds : awTook[i] = IF i \in AWSaved THEN 1 ELSE 0
  /\ awUp => awEng.ledger = AWSaved

AWInv ==
  /\ AWTypeOK
  /\ AWEnginesOK
  /\ AWChainsBelong
  /\ AWDrivenStageHasItsChain
  /\ AWOneDownstreamChain
  /\ AWOverIsKnown
  /\ AWLedgerOK

\* What a step may not do to a record that says the run is over.
AWOverStays == (awDisk # AWNone /\ awDisk.stage \in AWOver) => awDisk'.stage = awDisk.stage

AWAwaits == [at : (AWEffects \ {"NONE"}) \cup {"idle"},
             ref : AWTargets \cup AWArtifacts \cup {AWNone}]

LEMMA AWAwaitIs ==
  ASSUME NEW f \in AWEffects, NEW e \in AWEngines
  PROVE  AWAwait(f, e) \in AWAwaits /\ AWAwait(f, e).at = IF f = "NONE" THEN "idle" ELSE f
<1>1. CASE f = "NONE"
  BY <1>1 DEF AWAwait, AWIdle, AWAwaits
<1>2. CASE f # "NONE"
  <2>1. e.first \in AWTargets \cup {AWNone} /\ e.artifact \in AWArtifacts \cup {AWNone}
    BY DEF AWEngines
  <2>2. (CASE f = "VERIFY" -> e.first
           [] f \in {"VALIDATE_ARTIFACT", "INGEST"} -> e.artifact
           [] OTHER -> AWNone) \in AWTargets \cup AWArtifacts \cup {AWNone}
    BY <2>1
  <2>3. QED
    BY <1>2, <2>2 DEF AWAwait, AWAwaits
<1>3. QED
  BY <1>1, <1>2

\* One chain goes on, the others stay.
LEMMA AWChainGoesOn ==
  ASSUME AWTypeOK, NEW c \in AWSlots, NEW f \in AWEffects, NEW e \in AWEngines,
         awChain' = [awChain EXCEPT ![c] = AWAwait(f, e)]
  PROVE  /\ awChain' \in [AWSlots -> AWAwaits]
         /\ awChain'[c].at = IF f = "NONE" THEN "idle" ELSE f
         /\ \A d \in AWSlots : d # c => awChain'[d] = awChain[d]
<1>1. AWAwait(f, e) \in AWAwaits /\ AWAwait(f, e).at = IF f = "NONE" THEN "idle" ELSE f
  BY AWAwaitIs
<1>2. awChain \in [AWSlots -> AWAwaits]
  BY DEF AWTypeOK, AWAwaits
<1>3. QED
  BY <1>1, <1>2

\* Saving the engine: what it holds and how it compares with the record before.
LEMMA AWSaveKeeps ==
  ASSUME AWInv, awUp, UNCHANGED awTook, awEng' \in AWEngines, awEng'.ledger = awEng.ledger,
         awDisk' \in AWEngines, awDisk'.ledger = awEng.ledger
  PROVE  AWLedgerOK'
<1>1. awDisk' # AWNone
  BY AWNoneIsNoRecord
<1>2. QED
  BY <1>1 DEF AWInv, AWLedgerOK, AWSaved

\* The results a chain publishes for one answer: one, or two where the handoff is
\* declined.
AWFollowed(o, e, v, g) ==
  /\ \A k \in 1..Len(AWFollow(o)) :
       /\ AWEngineOK(AWFollow(o)[k].eng, v, g) /\ AWAsked(AWFollow(o)[k], e)
       /\ k # 1 => AWFollow(o)[k - 1] = o /\ o.next = "INGEST"
  /\ AWLast(AWFollow(o)) \in {AWFollow(o)[k] : k \in 1..Len(AWFollow(o))}

LEMMA AWFollowOK ==
  ASSUME NEW o, NEW e, NEW v \in BOOLEAN, NEW g \in BOOLEAN, AWEngineOK(o.eng, v, g), AWAsked(o, e)
  PROVE  AWFollowed(o, e, v, g)
<1>1. AWFollow(o) = <<o>> \/ (AWFollow(o) = <<o, AWCancel(o.eng)>> /\ o.next = "INGEST")
  <2>1. CASE o.next = "INGEST" /\ awDecline
    BY <2>1 DEF AWFollow
  <2>2. CASE ~(o.next = "INGEST" /\ awDecline)
    BY <2>2 DEF AWFollow
  <2>3. QED
    BY <2>1, <2>2
<1>2. AWEngineOK(AWCancel(o.eng).eng, v, g) /\ AWAsked(AWCancel(o.eng), o.eng)
  BY AWCancelOK DEF AWAsked
<1>3. AWCancel(o.eng).eng.stage = "CANCELLED"
  BY DEF AWCancel, AWOut, AWEngineOK, AWEngines
<1>4. AWAsked(AWCancel(o.eng), e)
  BY <1>2, <1>3 DEF AWAsked, AWBehind, AWOver
<1>5. CASE AWFollow(o) = <<o>>
  <2>1. Len(AWFollow(o)) = 1 /\ AWFollow(o)[1] = o
    BY <1>5
  <2>2. 1..Len(AWFollow(o)) = {1}
    BY <2>1
  <2>3. AWLast(AWFollow(o)) = AWFollow(o)[1]
    BY <2>1 DEF AWLast
  <2>4. QED
    BY <2>1, <2>2, <2>3 DEF AWFollowed
<1>6. CASE AWFollow(o) = <<o, AWCancel(o.eng)>> /\ o.next = "INGEST"
  <2>1. Len(AWFollow(o)) = 2 /\ AWFollow(o)[1] = o /\ AWFollow(o)[2] = AWCancel(o.eng)
    BY <1>6
  <2>2. 1..Len(AWFollow(o)) = {1, 2}
    BY <2>1
  <2>3. AWLast(AWFollow(o)) = AWFollow(o)[2]
    BY <2>1 DEF AWLast
  <2>4. \A k \in {1, 2} : /\ AWEngineOK(AWFollow(o)[k].eng, v, g) /\ AWAsked(AWFollow(o)[k], e)
                          /\ k # 1 => AWFollow(o)[k - 1] = o /\ o.next = "INGEST"
    BY <1>2, <1>4, <1>6, <2>1
  <2>5. QED
    BY <2>2, <2>3, <2>4 DEF AWFollowed
<1>7. QED
  BY <1>1, <1>5, <1>6

\* What a chain whose probe answers may do to the engine: the published results s
\* of an answer a to the probe f, one of which the engine becomes.
LEMMA AWAnswered ==
  ASSUME AWInv, NEW c \in AWSlots, awChain[c].at \in AWProbes,
         awEng.stage = AWStageOf(awChain[c].at), NEW a \in AWAnswers(awChain[c].at),
         AWRemember(awChain[c].at, a), awUp
  PROVE  LET s == AWFollow(AWOnAnswer(awEng, awChain[c].at, a)) IN
         /\ awVerified' \in BOOLEAN /\ awIngested' \in BOOLEAN /\ UNCHANGED awTook
         /\ awVerified => awVerified'
         /\ awIngested => awIngested'
         /\ \A k \in 1..Len(s) :
              /\ AWEngineOK(s[k].eng, awVerified', awIngested') /\ AWAsked(s[k], awEng)
              /\ k # 1 => /\ AWEngineOK(s[k - 1].eng, awVerified', awIngested')
                          /\ s[k - 1].eng.ledger = awEng.ledger
                          /\ s[k - 1].eng.stage \notin AWOver
         /\ AWLast(s) \in {s[k] : k \in 1..Len(s)}
<1> DEFINE f == awChain[c].at
           o == AWOnAnswer(awEng, f, a)
<1>1. /\ awVerified \in BOOLEAN /\ awIngested \in BOOLEAN
      /\ AWEngineOK(awEng, awVerified, awIngested)
  BY DEF AWInv, AWTypeOK, AWEnginesOK
<1>2. /\ awVerified' = (awVerified \/ (f = "VERIFY" /\ a = "verified"))
      /\ awIngested' = (awIngested \/ (f = "INGEST" /\ a = "ok"))
      /\ UNCHANGED awTook
  BY DEF AWRemember
<1>3. awVerified' \in BOOLEAN /\ awIngested' \in BOOLEAN
  BY <1>2
<1>4. awEng.started
  <2>1. f # "idle"
    BY AWProbesAre
  <2>2. QED
    BY <2>1 DEF AWInv, AWChainsBelong
<1>5. AWEngineOK(o.eng, awVerified', awIngested') /\ AWAsked(o, awEng)
  BY <1>1, <1>2, <1>3, <1>4, AWAnswerOK
<1> HIDE DEF o
<1>6. AWFollowed(o, awEng, awVerified', awIngested')
  BY <1>3, <1>5, AWFollowOK
<1>7. o.next = "INGEST" => o.eng.stage \notin AWOver
  BY <1>5 DEF AWAsked, AWFetching, AWDownstream, AWOver
<1>8. o.eng.ledger = awEng.ledger
  BY <1>5 DEF AWAsked
<1>9. QED
  BY <1>2, <1>3, <1>5, <1>6, <1>7, <1>8 DEF o, AWFollowed

\* The chains after the chain c went on with the result r of an engine method.
LEMMA AWChainsAfter ==
  ASSUME AWInv, awUp, awUp', NEW c \in AWSlots, awChain[c].at \in AWProbes,
         awEng.stage = AWStageOf(awChain[c].at),
         NEW r, r.eng \in AWEngines, AWAsked(r, awEng), awEng' = r.eng,
         awChain' = [awChain EXCEPT ![c] = AWAwait(r.next, r.eng)]
  PROVE  /\ awChain' \in [AWSlots -> AWAwaits]
         /\ AWChainsBelong' /\ AWDrivenStageHasItsChain' /\ AWOneDownstreamChain'
<1>1. r.next \in AWEffects
  BY DEF AWAsked
<1>2. AWTypeOK
  BY DEF AWInv
<1>3. /\ awChain' \in [AWSlots -> AWAwaits]
      /\ awChain'[c].at = IF r.next = "NONE" THEN "idle" ELSE r.next
      /\ \A d \in AWSlots : d # c => awChain'[d] = awChain[d]
  BY <1>1, <1>2, AWChainGoesOn
<1>4. \A d \in AWSlots : d # c /\ awChain[d].at \in AWFetching => FALSE
  <2>1. SUFFICES ASSUME NEW d \in AWSlots, d # c, awChain[d].at \in AWFetching PROVE FALSE
    OBVIOUS
  <2>2. awEng.stage \in AWBehind
    BY <2>1 DEF AWInv, AWChainsBelong
  <2>3. awChain[c].at \in AWFetching
    BY <2>2, AWProbesAre, AWStageTable, AWSets DEF AWBehind, AWDownstream, AWOver
  <2>4. QED
    BY <2>1, <2>3 DEF AWInv, AWOneDownstreamChain, AWFetching
<1>5. AWChainsBelong'
  <2>1. \A d \in AWSlots : awChain'[d].at \in AWFetching => awEng'.stage \in AWBehind
    <3>1. SUFFICES ASSUME NEW d \in AWSlots, awChain'[d].at \in AWFetching
                   PROVE  awEng'.stage \in AWBehind
      OBVIOUS
    <3>2. d = c
      BY <1>3, <1>4, <3>1
    <3>3. r.next \in AWFetching
      BY <1>3, <3>1, <3>2, AWSets
    <3>4. QED
      BY <3>3 DEF AWAsked, AWBehind
  <2>2. QED
    BY <2>1 DEF AWChainsBelong, AWAsked
<1>6. AWDrivenStageHasItsChain'
  <2>1. awEng'.stage \in AWDriven => awChain'[c].at = AWProbeOf[awEng'.stage]
    BY <1>3, AWSets, AWProbeTable DEF AWAsked
  <2>2. QED
    BY <2>1 DEF AWDrivenStageHasItsChain
<1>7. AWOneDownstreamChain'
  BY <1>3, <1>4 DEF AWOneDownstreamChain, AWFetching
<1>8. QED
  BY <1>3, <1>5, <1>6, <1>7

-----------------------------------------------------------------------------
(* One lemma for each action *)

LEMMA AWAnswerKeeps ==
  ASSUME AWInv, NEW c \in AWSlots, awUp, awChain[c].at \in AWProbes, AWAnswer(c)
  PROVE  AWInv' /\ AWOverStays
<1> DEFINE f == awChain[c].at
<1>1. PICK a \in AWAnswers(f) :
        LET s == AWFollow(AWOnAnswer(awEng, f, a)) IN
        /\ awEng.stage = AWStageOf(f)
        /\ awEng' = AWLast(s).eng
        /\ awDisk' = AWLast(s).eng
        /\ awChain' = [awChain EXCEPT ![c] = AWAwait(AWLast(s).next, AWLast(s).eng)]
        /\ AWRemember(f, a)
        /\ UNCHANGED <<awUp, awDecline, awWatch, awFaults, awBroken>>
  BY DEF AWAnswer
<1> DEFINE s == AWFollow(AWOnAnswer(awEng, f, a))
           r == AWLast(s)
<1>2. /\ awVerified' \in BOOLEAN /\ awIngested' \in BOOLEAN /\ UNCHANGED awTook
      /\ AWEngineOK(r.eng, awVerified', awIngested') /\ AWAsked(r, awEng)
  BY <1>1, AWAnswered
<1> HIDE DEF s, r
<1>3. awEng' = r.eng /\ awDisk' = r.eng /\ awEng' \in AWEngines /\ awEng'.ledger = awEng.ledger
  BY <1>1, <1>2 DEF r, s, AWEngineOK, AWAsked
<1>4. awChain' = [awChain EXCEPT ![c] = AWAwait(r.next, r.eng)] /\ awEng.stage = AWStageOf(f)
  BY <1>1 DEF r, s
<1>5. UNCHANGED <<awUp, awDecline, awWatch, awFaults, awBroken>>
  BY <1>1 DEF AWInv, AWTypeOK
<1>6. /\ awChain' \in [AWSlots -> AWAwaits]
      /\ AWChainsBelong' /\ AWDrivenStageHasItsChain' /\ AWOneDownstreamChain'
  BY <1>2, <1>3, <1>4, <1>5, AWChainsAfter
<1>7. AWLedgerOK'
  BY <1>2, <1>3, AWSaveKeeps
<1>8. AWEnginesOK' /\ AWOverIsKnown'
  BY <1>2, <1>3 DEF AWEnginesOK, AWOverIsKnown
<1>9. AWTypeOK'
  BY <1>2, <1>3, <1>5, <1>6 DEF AWInv, AWTypeOK, AWAwaits
<1>10. AWOverStays
  BY <1>4, AWProbesAre, AWStageTable DEF AWOverStays, AWInv, AWOverIsKnown, AWOver
<1>11. QED
  BY <1>6, <1>7, <1>8, <1>9, <1>10 DEF AWInv

\* A chain that stops, or goes on to clean up.
LEMMA AWChainStops ==
  ASSUME AWInv, awUp, awUp', NEW c \in AWSlots, awChain[c].at # "idle", NEW f \in {"CLEANUP", "NONE"},
         awChain' = [awChain EXCEPT ![c] = AWAwait(f, awEng)],
         awEng'.started, awEng.stage \in AWDownstream => awEng'.stage \in AWBehind,
         awEng.stage \in AWOver \cup {"FAILED"} => awEng' = awEng
  PROVE  /\ awChain' \in [AWSlots -> AWAwaits]
         /\ AWChainsBelong' /\ AWOneDownstreamChain'
         /\ \A d \in AWSlots : d # c => awChain'[d] = awChain[d]
<1>1. f \in AWEffects /\ awEng \in AWEngines /\ AWTypeOK
  BY AWSets DEF AWInv, AWTypeOK
<1>2. /\ awChain' \in [AWSlots -> AWAwaits]
      /\ awChain'[c].at = IF f = "NONE" THEN "idle" ELSE f
      /\ \A d \in AWSlots : d # c => awChain'[d] = awChain[d]
  BY <1>1, AWChainGoesOn
<1>3. awChain'[c].at \notin AWFetching
  BY <1>2, AWSets
<1>4. awEng.stage \in AWBehind => awEng'.stage \in AWBehind
  BY DEF AWBehind
<1>5. \A d \in AWSlots : awChain'[d].at \in AWFetching => d # c /\ awChain[d].at \in AWFetching
  BY <1>2, <1>3
<1>6. AWChainsBelong'
  BY <1>4, <1>5 DEF AWInv, AWChainsBelong
<1>7. AWOneDownstreamChain'
  BY <1>5 DEF AWInv, AWOneDownstreamChain, AWFetching
<1>8. QED
  BY <1>2, <1>6, <1>7

LEMMA AWChainIsStarted ==
  ASSUME AWInv, NEW c \in AWSlots, awChain[c].at # "idle" PROVE awEng.started /\ awUp
  BY DEF AWInv, AWChainsBelong

LEMMA AWFaultTyped ==
  ASSUME AWInv, awFaults < AWMaxFaults, awFaults' = awFaults + 1 PROVE awFaults' \in 0..AWMaxFaults
  BY AWAssumption DEF AWInv, AWTypeOK

LEMMA AWAnswerUnsavedKeeps ==
  ASSUME AWInv, NEW c \in AWSlots, awUp, awChain[c].at \in AWProbes, AWAnswerUnsaved(c)
  PROVE  AWInv' /\ AWOverStays
<1> DEFINE f == awChain[c].at
<1>1. PICK a \in AWAnswers(f) :
        LET s == AWFollow(AWOnAnswer(awEng, f, a)) IN
        \E k \in 1..Len(s) :
          /\ awEng.stage = AWStageOf(f)
          /\ awFaults < AWMaxFaults
          /\ awFaults' = awFaults + 1
          /\ awBroken' = TRUE
          /\ awEng' = s[k].eng
          /\ awDisk' = IF k = 1 THEN awDisk ELSE s[k - 1].eng
          /\ awChain' = [awChain EXCEPT ![c] = AWAwait("CLEANUP", awEng)]
          /\ AWRemember(f, a)
          /\ UNCHANGED <<awUp, awDecline, awWatch>>
  BY DEF AWAnswerUnsaved
<1> DEFINE s == AWFollow(AWOnAnswer(awEng, f, a))
<1>2. PICK k \in 1..Len(s) :
          /\ awEng.stage = AWStageOf(f)
          /\ awFaults < AWMaxFaults
          /\ awFaults' = awFaults + 1
          /\ awBroken' = TRUE
          /\ awEng' = s[k].eng
          /\ awDisk' = IF k = 1 THEN awDisk ELSE s[k - 1].eng
          /\ awChain' = [awChain EXCEPT ![c] = AWAwait("CLEANUP", awEng)]
          /\ AWRemember(f, a)
          /\ UNCHANGED <<awUp, awDecline, awWatch>>
  BY <1>1
<1>3. /\ awVerified' \in BOOLEAN /\ awIngested' \in BOOLEAN /\ UNCHANGED awTook
      /\ awVerified => awVerified'
      /\ awIngested => awIngested'
      /\ AWEngineOK(s[k].eng, awVerified', awIngested') /\ AWAsked(s[k], awEng)
      /\ k # 1 => /\ AWEngineOK(s[k - 1].eng, awVerified', awIngested')
                  /\ s[k - 1].eng.ledger = awEng.ledger
                  /\ s[k - 1].eng.stage \notin AWOver
  BY <1>2, AWAnswered
<1> HIDE DEF s
<1>4. /\ AWEngineOK(awEng', awVerified', awIngested') /\ awEng'.started
      /\ awEng'.ledger = awEng.ledger
      /\ awEng.stage \in AWDownstream => awEng'.stage \in AWBehind
      /\ awEng' \in AWEngines
  BY <1>2, <1>3 DEF AWAsked, AWEngineOK
<1>5. awEng.stage \in AWDriven /\ awEng.stage \notin AWOver \cup {"FAILED"}
  BY <1>2, AWProbesAre, AWStageTable, AWSets DEF AWOver
<1>6. awDisk # AWNone => awDisk.stage \notin AWOver
  BY <1>5 DEF AWInv, AWOverIsKnown
<1>7. f # "idle" /\ awUp' /\ "CLEANUP" \in {"CLEANUP", "NONE"}
  BY <1>2, AWProbesAre
<1>8. awChain' = [awChain EXCEPT ![c] = AWAwait("CLEANUP", awEng)]
  BY <1>2
<1>9. /\ awChain' \in [AWSlots -> AWAwaits] /\ AWChainsBelong' /\ AWOneDownstreamChain'
  BY <1>4, <1>5, <1>7, <1>8, AWChainStops
<1>10. CASE k = 1
  <2>1. awDisk' = awDisk
    BY <1>2, <1>10
  <2>2. awDisk' \in AWEngines \cup {AWNone} /\ AWLedgerOK'
    BY <1>2, <1>3, <1>4, <2>1 DEF AWInv, AWTypeOK, AWLedgerOK, AWSaved
  <2>3. awDisk' # AWNone => AWEngineOK(awDisk', awVerified', awIngested')
    BY <1>3, <2>1 DEF AWInv, AWEnginesOK, AWEngineOK
  <2>4. AWOverIsKnown' /\ AWOverStays
    BY <1>6, <2>1 DEF AWOverIsKnown, AWOverStays
  <2>5. QED
    BY <1>2, <1>3, <1>4, <1>9, <2>2, <2>3, <2>4, AWFaultTyped DEF AWInv, AWTypeOK, AWAwaits,
       AWEnginesOK, AWDrivenStageHasItsChain
<1>11. CASE k # 1
  <2>1. awDisk' = s[k - 1].eng
    BY <1>2, <1>11
  <2>2. /\ AWEngineOK(awDisk', awVerified', awIngested') /\ awDisk'.ledger = awEng.ledger
        /\ awDisk'.stage \notin AWOver /\ awDisk' \in AWEngines
    BY <1>3, <1>11, <2>1 DEF AWEngineOK
  <2>3. AWLedgerOK'
    BY <1>3, <1>4, <2>2, AWSaveKeeps
  <2>4. AWOverIsKnown' /\ AWOverStays
    BY <1>6, <2>2 DEF AWOverIsKnown, AWOverStays
  <2>5. QED
    BY <1>2, <1>3, <1>4, <1>9, <2>2, <2>3, <2>4, AWFaultTyped DEF AWInv, AWTypeOK, AWAwaits,
       AWEnginesOK, AWDrivenStageHasItsChain
<1>12. QED
  BY <1>10, <1>11

\* A chain that stops, or goes on to clean up, while the engine stays: unless
\* something broke, it did not await what the engine's stage waits for.
LEMMA AWChainLeaves ==
  ASSUME AWInv, NEW c \in AWSlots, awChain[c].at # "idle", NEW f \in {"CLEANUP", "NONE"},
         awChain' = [awChain EXCEPT ![c] = AWAwait(f, awEng)],
         UNCHANGED <<awUp, awDecline, awEng, awDisk, awHistory>>,
         awWatch' \in BOOLEAN, awFaults' \in 0..AWMaxFaults,
         awBroken' \in BOOLEAN,
         ~awBroken' => ~awBroken,
         ~awBroken' /\ awEng.stage \in AWDriven => awChain[c].at # AWProbeOf[awEng.stage]
  PROVE  AWInv' /\ AWOverStays
<1>1. UNCHANGED <<awUp, awDecline, awEng, awDisk, awTook, awVerified, awIngested>>
  BY DEF awHistory
<1>2. awUp /\ awUp' /\ awEng'.started
  BY <1>1, AWChainIsStarted
<1>3. awEng.stage \in AWDownstream => awEng'.stage \in AWBehind
  BY <1>1 DEF AWBehind
<1>4. /\ awChain' \in [AWSlots -> AWAwaits]
      /\ AWChainsBelong' /\ AWOneDownstreamChain'
      /\ \A d \in AWSlots : d # c => awChain'[d] = awChain[d]
  BY <1>1, <1>2, <1>3, AWChainStops
<1>5. AWDrivenStageHasItsChain'
  <2>1. SUFFICES ASSUME awEng.stage \in AWDriven, ~awBroken'
                 PROVE  \E d \in AWSlots : awChain'[d].at = AWProbeOf[awEng.stage]
    BY <1>1 DEF AWDrivenStageHasItsChain
  <2>2. PICK d \in AWSlots : awChain[d].at = AWProbeOf[awEng.stage]
    BY <1>1, <1>2, <2>1 DEF AWInv, AWDrivenStageHasItsChain
  <2>3. QED
    BY <1>4, <2>1, <2>2
<1>6. AWTypeOK'
  BY <1>1, <1>4 DEF AWInv, AWTypeOK, AWAwaits
<1>7. AWEnginesOK' /\ AWOverIsKnown' /\ AWLedgerOK'
  BY <1>1 DEF AWInv, AWEnginesOK, AWOverIsKnown, AWLedgerOK, AWSaved
<1>8. AWOverStays
  BY <1>1 DEF AWOverStays
<1>9. QED
  BY <1>4, <1>5, <1>6, <1>7, <1>8 DEF AWInv

LEMMA AWLateAnswerKeeps ==
  ASSUME AWInv, NEW c \in AWSlots, awUp, awChain[c].at \in AWProbes, AWLateAnswer(c)
  PROVE  AWInv' /\ AWOverStays
<1>1. /\ awEng.stage # AWStageOf(awChain[c].at)
      /\ awChain' = [awChain EXCEPT ![c] = AWAwait("CLEANUP", awEng)]
      /\ UNCHANGED <<awUp, awDecline, awEng, awDisk, awWatch, awFaults, awBroken, awHistory>>
  BY DEF AWLateAnswer
<1>2. awChain[c].at # "idle"
  BY AWProbesAre
<1>3. awEng.stage \in AWDriven => awChain[c].at # AWProbeOf[awEng.stage]
  BY <1>1, AWStageOfProbe
<1>4. awWatch' \in BOOLEAN /\ awFaults' \in 0..AWMaxFaults /\ awBroken' \in BOOLEAN
  BY <1>1 DEF AWInv, AWTypeOK
<1>5. QED
  BY <1>1, <1>2, <1>3, <1>4, AWChainLeaves

LEMMA AWRejectsKeeps ==
  ASSUME AWInv, NEW c \in AWSlots, AWRejects(c) PROVE AWInv' /\ AWOverStays
<1>1. /\ awChain[c].at \in AWProbes \cup {"OBSERVE"}
      /\ awFaults < AWMaxFaults /\ awFaults' = awFaults + 1
      /\ awBroken'
      /\ awChain' = [awChain EXCEPT ![c] = AWAwait("CLEANUP", awEng)]
      /\ UNCHANGED <<awUp, awDecline, awEng, awDisk, awWatch, awHistory>>
  BY DEF AWRejects
<1>2. awChain[c].at # "idle"
  BY <1>1, AWProbesAre
<1>3. awBroken' \in BOOLEAN
  BY DEF AWRejects
<1>4. awWatch' \in BOOLEAN /\ awFaults' \in 0..AWMaxFaults
  BY <1>1, AWFaultTyped DEF AWInv, AWTypeOK
<1>5. QED
  BY <1>1, <1>2, <1>3, <1>4, AWChainLeaves

LEMMA AWArmedKeeps ==
  ASSUME AWInv, NEW c \in AWSlots, AWArmed(c) PROVE AWInv' /\ AWOverStays
<1>1. /\ awChain[c].at = "OBSERVE"
      /\ awChain' = [awChain EXCEPT ![c] = AWAwait("NONE", awEng)]
      /\ UNCHANGED <<awUp, awDecline, awEng, awDisk, awFaults, awBroken, awHistory>>
  BY DEF AWArmed, AWAwait
<1>2. awChain[c].at # "idle" /\ (awEng.stage \in AWDriven => awChain[c].at # AWProbeOf[awEng.stage])
  BY <1>1, AWProbeTable, AWSets
<1>3. awWatch' \in BOOLEAN
  BY DEF AWArmed
<1>4. awFaults' \in 0..AWMaxFaults /\ awBroken' \in BOOLEAN
  BY <1>1 DEF AWInv, AWTypeOK
<1>5. QED
  BY <1>1, <1>2, <1>3, <1>4, AWChainLeaves

LEMMA AWCleanedKeeps ==
  ASSUME AWInv, NEW c \in AWSlots, AWCleaned(c) PROVE AWInv' /\ AWOverStays
<1>1. /\ awChain[c].at = "CLEANUP"
      /\ awChain' = [awChain EXCEPT ![c] = AWAwait("NONE", awEng)]
      /\ UNCHANGED <<awUp, awDecline, awEng, awDisk, awWatch, awFaults, awBroken, awHistory>>
  BY DEF AWCleaned, AWAwait
<1>2. awChain[c].at # "idle" /\ (awEng.stage \in AWDriven => awChain[c].at # AWProbeOf[awEng.stage])
  BY <1>1, AWProbeTable, AWSets
<1>4. awWatch' \in BOOLEAN /\ awFaults' \in 0..AWMaxFaults /\ awBroken' \in BOOLEAN
  BY <1>1 DEF AWInv, AWTypeOK
<1>5. QED
  BY <1>1, <1>2, <1>4, AWChainLeaves

LEMMA AWSellerActsKeeps == ASSUME AWInv, AWSellerActs PROVE AWInv' /\ AWOverStays
<1>1. /\ awUp /\ awWatch' \in BOOLEAN
      /\ UNCHANGED <<awUp, awDecline, awChain, awFaults, awBroken, awTook, awVerified,
                     awIngested>>
  BY DEF AWSellerActs, awHistory
<1>2. CASE UNCHANGED <<awEng, awDisk>>
  <2>1. AWTypeOK'
    BY <1>1, <1>2 DEF AWInv, AWTypeOK
  <2>2. QED
    BY <1>1, <1>2, <2>1 DEF AWInv, AWEnginesOK, AWChainsBelong, AWDrivenStageHasItsChain,
       AWOneDownstreamChain, AWOverIsKnown, AWLedgerOK, AWSaved, AWOverStays
<1>3. CASE /\ awEng.stage = "WAIT_FOR_USER_ACTION"
           /\ awEng' = [awEng EXCEPT !.observed = TRUE]
           /\ awDisk' = awEng'
  <2>1. awEng \in AWEngines
    BY DEF AWInv, AWTypeOK
  <2>2. /\ awEng' \in AWEngines /\ awEng'.stage = awEng.stage /\ awEng'.step = awEng.step
        /\ awEng'.started = awEng.started /\ awEng'.resume = awEng.resume
        /\ awEng'.ledger = awEng.ledger
    BY <1>3, <2>1 DEF AWEngines
  <2>3. awDisk' = awEng'
    BY <1>3
  <2>4. AWEngineOK(awEng', awVerified', awIngested')
    BY <1>1, <2>2 DEF AWInv, AWEnginesOK, AWEngineOK
  <2>5. AWEnginesOK' /\ AWOverIsKnown'
    BY <2>3, <2>4 DEF AWEnginesOK, AWOverIsKnown
  <2>6. AWLedgerOK'
    BY <1>1, <2>2, <2>3, AWSaveKeeps
  <2>7. AWTypeOK'
    BY <1>1, <2>2, <2>3 DEF AWInv, AWTypeOK
  <2>8. AWChainsBelong' /\ AWDrivenStageHasItsChain' /\ AWOneDownstreamChain'
    BY <1>1, <2>2 DEF AWInv, AWChainsBelong, AWDrivenStageHasItsChain, AWOneDownstreamChain
  <2>9. AWOverStays
    BY <1>1, <1>3 DEF AWOverStays, AWInv, AWOverIsKnown, AWOver
  <2>10. QED
    BY <2>5, <2>6, <2>7, <2>8, <2>9 DEF AWInv
<1>4. QED
  BY <1>2, <1>3 DEF AWSellerActs

LEMMA AWCommandIgnoredKeeps ==
  ASSUME AWInv, NEW type, NEW id, NEW fresh, AWCommandIgnored(type, id, fresh)
  PROVE  AWInv' /\ AWOverStays
<1>1. /\ awUp /\ awDisk' = awEng
      /\ UNCHANGED <<awUp, awDecline, awEng, awChain, awWatch, awFaults, awBroken,
                     awTook, awVerified, awIngested>>
  BY DEF AWCommandIgnored, awHistory
<1>2. awEng \in AWEngines
  BY DEF AWInv, AWTypeOK
<1>3. AWTypeOK'
  BY <1>1, <1>2 DEF AWInv, AWTypeOK
<1>4. AWLedgerOK'
  BY <1>1, <1>2, AWSaveKeeps
<1>5. AWEnginesOK' /\ AWOverIsKnown' /\ AWOverStays
  BY <1>1 DEF AWInv, AWEnginesOK, AWOverIsKnown, AWOverStays
<1>6. AWChainsBelong' /\ AWDrivenStageHasItsChain' /\ AWOneDownstreamChain'
  BY <1>1 DEF AWInv, AWChainsBelong, AWDrivenStageHasItsChain, AWOneDownstreamChain
<1>7. QED
  BY <1>3, <1>4, <1>5, <1>6 DEF AWInv

\* The chains after an accepted command: a new chain, or none.
LEMMA AWChainsAfterCommand ==
  ASSUME AWInv, awUp, awUp', NEW r, NEW e, r.eng \in AWEngines, AWAsked(r, e), awEng' = r.eng,
         awEng.stage \in AWBehind => r.eng.stage = "CANCELLED" /\ r.next = "CLEANUP",
         \/ r.next = "NONE" /\ UNCHANGED awChain
         \/ \E c \in AWSlots : /\ r.next # "NONE" /\ awChain[c] = AWIdle
                               /\ awChain' = [awChain EXCEPT ![c] = AWAwait(r.next, r.eng)]
  PROVE  /\ awChain' \in [AWSlots -> AWAwaits]
         /\ AWChainsBelong' /\ AWDrivenStageHasItsChain' /\ AWOneDownstreamChain'
<1>1. /\ r.next \in AWEffects /\ awEng'.started /\ AWTypeOK
      /\ awEng'.stage \in AWDriven => r.next = AWProbeOf[awEng'.stage]
      /\ r.next \in AWFetching => awEng'.stage \in AWDownstream
  BY DEF AWAsked, AWInv
<1>2. awEng.stage \in AWBehind => awEng'.stage \in AWBehind /\ r.next \notin AWFetching
  BY AWSets DEF AWBehind, AWOver
<1>3. CASE r.next = "NONE" /\ UNCHANGED awChain
  <2>1. awEng'.stage \notin AWDriven
    BY <1>1, <1>3, AWProbeTable, AWSets
  <2>2. AWChainsBelong' /\ AWOneDownstreamChain'
    BY <1>1, <1>2, <1>3 DEF AWInv, AWChainsBelong, AWOneDownstreamChain
  <2>3. QED
    BY <1>1, <1>3, <2>1, <2>2 DEF AWTypeOK, AWAwaits, AWDrivenStageHasItsChain
<1>4. ASSUME NEW c \in AWSlots, r.next # "NONE", awChain[c] = AWIdle,
             awChain' = [awChain EXCEPT ![c] = AWAwait(r.next, r.eng)]
      PROVE  /\ awChain' \in [AWSlots -> AWAwaits]
             /\ AWChainsBelong' /\ AWDrivenStageHasItsChain' /\ AWOneDownstreamChain'
  <2>1. /\ awChain' \in [AWSlots -> AWAwaits] /\ awChain'[c].at = r.next
        /\ \A d \in AWSlots : d # c => awChain'[d] = awChain[d]
    BY <1>1, <1>4, AWChainGoesOn
  <2>2. \A d \in AWSlots : d # c /\ awChain'[d].at \in AWFetching =>
          awChain[d].at \in AWFetching /\ awEng.stage \in AWBehind
    BY <2>1 DEF AWInv, AWChainsBelong
  <2>3. AWChainsBelong'
    <3>1. \A d \in AWSlots : awChain'[d].at \in AWFetching => awEng'.stage \in AWBehind
      BY <1>1, <1>2, <2>1, <2>2 DEF AWBehind
    <3>2. QED
      BY <1>1, <3>1 DEF AWChainsBelong
  <2>4. AWDrivenStageHasItsChain'
    BY <1>1, <2>1 DEF AWDrivenStageHasItsChain
  <2>5. ASSUME NEW i \in AWSlots, NEW j \in AWSlots,
               awChain'[i].at \in AWFetching, awChain'[j].at \in AWFetching
        PROVE  i = j
    <3>1. CASE i # c /\ j # c
      BY <2>2, <2>5, <3>1 DEF AWInv, AWOneDownstreamChain, AWFetching
    <3>2. CASE i = c \/ j = c
      BY <1>2, <2>1, <2>2, <2>5, <3>2
    <3>3. QED
      BY <3>1, <3>2
  <2>6. AWOneDownstreamChain'
    BY <2>5 DEF AWOneDownstreamChain, AWFetching
  <2>7. QED
    BY <2>1, <2>3, <2>4, <2>6
<1>5. QED
  BY <1>3, <1>4

LEMMA AWCommandTakenKeeps ==
  ASSUME AWInv, NEW type \in AWCommands, NEW id \in AWIds \cup {AWNone}, AWCommandTaken(type, id)
  PROVE  AWInv' /\ AWOverStays
<1> DEFINE e == AWLedger(awEng, id)
           o == AWApply(e, type)
<1>1. /\ awUp /\ AWValidNow(awEng, type) /\ id \notin awEng.ledger
      /\ awEng' = o.eng /\ awDisk' = o.eng
      /\ awTook' = [i \in AWIds |-> IF i = id THEN awTook[i] + 1 ELSE awTook[i]]
      /\ UNCHANGED <<awUp, awDecline, awWatch, awFaults, awBroken,
                     awVerified, awIngested>>
  BY DEF AWCommandTaken, AWAccepts
<1>2. \/ o.next = "NONE" /\ UNCHANGED awChain
      \/ \E c \in AWSlots : /\ o.next # "NONE" /\ awChain[c] = AWIdle
                            /\ awChain' = [awChain EXCEPT ![c] = AWAwait(o.next, o.eng)]
  BY DEF AWCommandTaken
<1>3. /\ awVerified \in BOOLEAN /\ awIngested \in BOOLEAN
      /\ AWEngineOK(awEng, awVerified, awIngested) /\ AWTypeOK
  BY DEF AWInv, AWTypeOK, AWEnginesOK
<1>4. /\ AWEngineOK(e, awVerified, awIngested)
      /\ e.stage = awEng.stage /\ e.started = awEng.started
      /\ e.ledger = awEng.ledger \cup ({id} \cap AWIds)
  BY <1>3, AWLedgerOfOK
<1>5. AWValidNow(e, type)
  BY <1>1, <1>4 DEF AWValidNow
<1> HIDE DEF e
<1>6. /\ AWEngineOK(o.eng, awVerified, awIngested) /\ AWAsked(o, e)
      /\ e.stage \in AWBehind => o.eng.stage = "CANCELLED" /\ o.next = "CLEANUP"
      /\ e.stage \notin AWOver
  BY <1>3, <1>4, <1>5, AWApplyOK
<1> HIDE DEF o
<1>7. o.eng \in AWEngines /\ o.eng.ledger = e.ledger
  BY <1>6 DEF AWEngineOK, AWAsked
<1>8. /\ awChain' \in [AWSlots -> AWAwaits]
      /\ AWChainsBelong' /\ AWDrivenStageHasItsChain' /\ AWOneDownstreamChain'
  BY <1>1, <1>2, <1>4, <1>6, <1>7, AWChainsAfterCommand
<1>9. AWLedgerOK'
  <2>1. awDisk' # AWNone /\ awDisk' = o.eng /\ awEng' = o.eng
    BY <1>1, <1>7, AWNoneIsNoRecord
  <2>2. awEng.ledger = AWSaved /\ AWSaved' = AWSaved \cup ({id} \cap AWIds)
    BY <1>1, <1>4, <1>7, <2>1 DEF AWInv, AWLedgerOK, AWSaved
  <2>3. id \notin AWSaved
    BY <1>1, <2>2
  <2>4. ASSUME NEW i \in AWIds PROVE awTook'[i] = IF i \in AWSaved' THEN 1 ELSE 0
    <3>1. awTook[i] = IF i \in AWSaved THEN 1 ELSE 0
      BY DEF AWInv, AWLedgerOK
    <3>2. awTook'[i] = IF i = id THEN awTook[i] + 1 ELSE awTook[i]
      BY <1>1
    <3>3. CASE i = id
      <4>1. awTook[i] = 0 /\ i \in AWSaved'
        BY <2>2, <2>3, <3>1, <3>3
      <4>2. QED
        BY <3>2, <3>3, <4>1
    <3>4. CASE i # id
      <4>1. i \in AWSaved' <=> i \in AWSaved
        BY <2>2, <3>4
      <4>2. QED
        BY <3>1, <3>2, <3>4, <4>1
    <3>5. QED
      BY <3>3, <3>4
  <2>5. awEng'.ledger = AWSaved'
    BY <1>4, <1>7, <2>1, <2>2
  <2>6. QED
    BY <2>4, <2>5 DEF AWLedgerOK
<1>10. AWTypeOK'
  <2>1. awTook' \in [AWIds -> Nat]
    BY <1>1, <1>3 DEF AWTypeOK
  <2>2. QED
    BY <1>1, <1>3, <1>7, <1>8, <2>1 DEF AWTypeOK, AWAwaits
<1>11. AWEnginesOK' /\ AWOverIsKnown'
  BY <1>1, <1>6 DEF AWEnginesOK, AWOverIsKnown
<1>12. AWOverStays
  BY <1>1, <1>4, <1>6 DEF AWOverStays, AWInv, AWOverIsKnown
<1>13. QED
  BY <1>8, <1>9, <1>10, <1>11, <1>12 DEF AWInv

LEMMA AWFreshOK == ASSUME NEW v, NEW g PROVE AWEngineOK(AWFresh, v, g) /\ AWFresh.ledger = {}
<1>1. AWFresh \in AWEngines
  BY AWSets DEF AWFresh, AWEngines
<1>2. QED
  BY <1>1 DEF AWFresh, AWEngineOK, AWSellerStages, AWDownstream

LEMMA AWCrashKeeps == ASSUME AWInv, AWCrash PROVE AWInv' /\ AWOverStays
<1>1. /\ awFaults < AWMaxFaults /\ awFaults' = awFaults + 1
      /\ ~awUp' /\ awEng' = AWFresh
      /\ awChain' = [c \in AWSlots |-> AWIdle]
      /\ UNCHANGED <<awDecline, awDisk, awTook, awVerified, awIngested>>
  BY DEF AWCrash, awHistory
<1>2. awUp' \in BOOLEAN /\ awWatch' \in BOOLEAN /\ awBroken' \in BOOLEAN
  BY DEF AWCrash
<1>3. AWEngineOK(AWFresh, awVerified', awIngested') /\ AWFresh \in AWEngines
  BY AWFreshOK DEF AWEngineOK
<1>4. awChain' \in [AWSlots -> AWAwaits] /\ \A c \in AWSlots : awChain'[c].at = "idle"
  BY <1>1 DEF AWIdle, AWAwaits
<1>5. "idle" \notin AWFetching
  BY AWSets
<1>6. AWTypeOK'
  BY <1>1, <1>2, <1>3, <1>4, AWFaultTyped DEF AWInv, AWTypeOK, AWAwaits
<1>7. AWEnginesOK'
  BY <1>1, <1>3 DEF AWInv, AWEnginesOK
<1>8. AWChainsBelong' /\ AWOneDownstreamChain'
  BY <1>4, <1>5 DEF AWChainsBelong, AWOneDownstreamChain, AWFetching
<1>9. AWDrivenStageHasItsChain' /\ AWOverIsKnown' /\ AWLedgerOK' /\ AWOverStays
  BY <1>1 DEF AWDrivenStageHasItsChain, AWOverIsKnown, AWInv, AWLedgerOK, AWSaved, AWOverStays
<1>10. QED
  BY <1>6, <1>7, <1>8, <1>9 DEF AWInv

LEMMA AWPauseForRestoreOK ==
  ASSUME NEW e, NEW v, NEW g, AWEngineOK(e, v, g)
  PROVE  /\ AWEngineOK(AWPauseForRestore(e), v, g) /\ AWPauseForRestore(e).ledger = e.ledger
         /\ AWPauseForRestore(e).stage = "PAUSED"
<1> DEFINE n == AWPauseForRestore(e)
           to == AWSafeStage(e)
<1>1. e \in AWEngines
  BY DEF AWEngineOK
<1>2. /\ to \in {"PREPARE_SESSION", "DETECT_DOWNLOAD"}
      /\ to = "DETECT_DOWNLOAD" => e.step = 3
      /\ to \in AWStages
  BY <1>1, AWSets DEF AWSafeStage, AWEngines
<1> HIDE DEF to
<1>3. n = [e EXCEPT !.resume = to, !.stage = "PAUSED", !.blocker = AWNone]
  BY DEF AWPauseForRestore, to
<1> HIDE DEF n
<1>4. n \in AWEngines
  <2> DEFINE m == [e EXCEPT !.resume = to]
  <2>1. m \in AWEngines
    BY <1>1, <1>2 DEF AWEngines
  <2>2. n = [m EXCEPT !.stage = "PAUSED", !.blocker = AWNone]
    BY <1>1, <1>3 DEF AWEngines
  <2> HIDE DEF m
  <2>3. QED
    BY <2>1, <2>2, AWSets DEF AWEngines
<1>5. /\ n.stage = "PAUSED" /\ n.resume = to /\ n.step = e.step /\ n.started = e.started
      /\ n.ledger = e.ledger
  BY <1>1, <1>3 DEF AWEngines
<1>6. AWEngineOK(n, v, g)
  BY <1>2, <1>4, <1>5 DEF AWEngineOK, AWSellerStages, AWDownstream, AWPrepStages
<1>7. QED
  BY <1>5, <1>6 DEF n

LEMMA AWBootKeeps == ASSUME AWInv, AWBoot PROVE AWInv' /\ AWOverStays
<1>1. /\ ~awUp /\ awUp' \in BOOLEAN /\ awDecline' \in BOOLEAN
      /\ UNCHANGED <<awChain, awWatch, awFaults, awBroken, awTook, awVerified, awIngested>>
  BY DEF AWBoot, awHistory
<1>2. \A c \in AWSlots : awChain[c].at = "idle"
  BY <1>1 DEF AWInv, AWChainsBelong
<1>3. "idle" \notin AWFetching
  BY AWSets
<1>4. AWChainsBelong' /\ AWOneDownstreamChain'
  BY <1>1, <1>2, <1>3 DEF AWChainsBelong, AWOneDownstreamChain, AWFetching
<1>5. CASE awDisk = AWNone /\ awEng' = AWFresh /\ UNCHANGED awDisk
  <2>1. AWEngineOK(awEng', awVerified', awIngested') /\ awEng' \in AWEngines /\ awEng'.ledger = {}
    BY <1>5, AWFreshOK DEF AWEngineOK
  <2>2. ~awEng'.started
    BY <1>5 DEF AWFresh
  <2>3. AWTypeOK'
    BY <1>1, <1>5, <2>1 DEF AWInv, AWTypeOK
  <2>4. AWEnginesOK' /\ AWOverIsKnown' /\ AWDrivenStageHasItsChain' /\ AWOverStays
    BY <1>5, <2>1, <2>2 DEF AWEnginesOK, AWOverIsKnown, AWDrivenStageHasItsChain, AWOverStays
  <2>5. AWLedgerOK'
    BY <1>1, <1>5, <2>1 DEF AWInv, AWLedgerOK, AWSaved
  <2>6. QED
    BY <1>4, <2>3, <2>4, <2>5 DEF AWInv
<1>6. CASE /\ awDisk # AWNone
           /\ awDisk.stage \notin AWOver
           /\ awEng' = AWPauseForRestore(awDisk)
           /\ awDisk' = awEng'
  <2>1. AWEngineOK(awDisk, awVerified, awIngested)
    BY <1>6 DEF AWInv, AWEnginesOK
  <2>2. /\ AWEngineOK(awEng', awVerified', awIngested') /\ awEng'.ledger = awDisk.ledger
        /\ awEng'.stage = "PAUSED" /\ awEng' \in AWEngines
    BY <1>1, <1>6, <2>1, AWPauseForRestoreOK DEF AWEngineOK
  <2>3. AWTypeOK'
    BY <1>1, <1>6, <2>2 DEF AWInv, AWTypeOK
  <2>4. AWEnginesOK' /\ AWOverIsKnown' /\ AWOverStays
    BY <1>6, <2>2 DEF AWEnginesOK, AWOverIsKnown, AWOverStays
  <2>5. AWDrivenStageHasItsChain'
    BY <2>2, AWSets DEF AWDrivenStageHasItsChain
  <2>6. AWLedgerOK'
    BY <1>1, <1>6, <2>2, AWNoneIsNoRecord DEF AWInv, AWLedgerOK, AWSaved
  <2>7. QED
    BY <1>4, <2>3, <2>4, <2>5, <2>6 DEF AWInv
<1>7. QED
  BY <1>5, <1>6 DEF AWBoot

-----------------------------------------------------------------------------
(* The invariant is inductive *)

LEMMA AWInitInv == ASSUME AWInit PROVE AWInv
<1>1. AWEngineOK(awEng, awVerified, awIngested) /\ awEng \in AWEngines
  BY AWFreshOK DEF AWInit, AWEngineOK
<1>2. awChain \in [AWSlots -> AWAwaits] /\ \A c \in AWSlots : awChain[c].at = "idle"
  BY DEF AWInit, AWIdle, AWAwaits
<1>3. "idle" \notin AWFetching
  BY AWSets
<1>4. /\ awUp \in BOOLEAN /\ awDecline \in BOOLEAN /\ awWatch \in BOOLEAN
      /\ awBroken \in BOOLEAN /\ awVerified \in BOOLEAN /\ awIngested \in BOOLEAN
  BY DEF AWInit
<1>5. awFaults \in 0..AWMaxFaults /\ awTook \in [AWIds -> Nat]
  BY AWAssumption DEF AWInit
<1>6. ~awUp /\ awDisk = AWNone /\ (\A i \in AWIds : awTook[i] = 0)
  BY DEF AWInit
<1>7. AWTypeOK
  BY <1>1, <1>2, <1>4, <1>5, <1>6 DEF AWTypeOK, AWAwaits
<1>8. AWChainsBelong /\ AWOneDownstreamChain
  BY <1>2, <1>3 DEF AWChainsBelong, AWOneDownstreamChain, AWFetching
<1>9. AWEnginesOK /\ AWDrivenStageHasItsChain /\ AWOverIsKnown /\ AWLedgerOK
  BY <1>1, <1>6 DEF AWEnginesOK, AWDrivenStageHasItsChain, AWOverIsKnown, AWLedgerOK, AWSaved
<1>10. QED
  BY <1>7, <1>8, <1>9 DEF AWInv

LEMMA AWStepInv == ASSUME AWInv, [AWNext]_awVars PROVE AWInv' /\ AWOverStays
<1>1. CASE UNCHANGED awVars
  <2>1. UNCHANGED <<awUp, awDecline, awEng, awDisk, awChain, awWatch, awFaults, awBroken,
                    awTook, awVerified, awIngested>>
    BY <1>1 DEF awVars
  <2>2. AWTypeOK'
    BY <2>1 DEF AWInv, AWTypeOK
  <2>3. QED
    BY <2>1, <2>2 DEF AWInv, AWEnginesOK, AWChainsBelong, AWDrivenStageHasItsChain,
       AWOneDownstreamChain, AWOverIsKnown, AWLedgerOK, AWSaved, AWOverStays
<1>2. ASSUME NEW c \in AWSlots, AWChainStep(c) PROVE AWInv' /\ AWOverStays
  <2>1. CASE AWChainAnswers(c)
    BY <2>1, AWAnswerKeeps, AWAnswerUnsavedKeeps, AWLateAnswerKeeps DEF AWChainAnswers
  <2>2. QED
    BY <1>2, <2>1, AWRejectsKeeps, AWArmedKeeps, AWCleanedKeeps DEF AWChainStep
<1>3. CASE AWSellerActs
  BY <1>3, AWSellerActsKeeps
<1>4. ASSUME NEW type \in AWCommands, NEW id \in AWIds \cup {AWNone}, AWCommandTaken(type, id)
      PROVE  AWInv' /\ AWOverStays
  BY <1>4, AWCommandTakenKeeps
<1>5. ASSUME NEW type \in AWCommands, NEW id \in AWIds \cup {AWNone}, NEW fresh \in BOOLEAN,
             AWCommandIgnored(type, id, fresh)
      PROVE  AWInv' /\ AWOverStays
  BY <1>5, AWCommandIgnoredKeeps
<1>6. CASE AWCrash
  BY <1>6, AWCrashKeeps
<1>7. CASE AWBoot
  BY <1>7, AWBootKeeps
<1>8. QED
  BY <1>1, <1>2, <1>3, <1>4, <1>5, <1>6, <1>7 DEF AWNext

\* Whatever chains, commands, failed saves and restarts come, the engine in memory
\* and the record on disk are consistent, and every chain belongs to the run's
\* stage; the theorems below rest on it.
THEOREM AWInvariant == AWSpec => []AWInv
<1>1. AWInit => AWInv
  BY AWInitInv
<1>2. AWInv /\ [AWNext]_awVars => AWInv'
  BY AWStepInv
<1>3. QED
  BY <1>1, <1>2, PTL DEF AWSpec

-----------------------------------------------------------------------------
(* What follows *)

\* Every variable of the session keeps its type.
THEOREM AWTypeCorrect == AWSpec => []AWTypeOK
<1>1. AWInv => AWTypeOK
  BY DEF AWInv
<1>2. QED
  BY <1>1, AWInvariant, PTL

\* With any number of chains, a stage the agent drives has the chain that awaits its
\* probe, as long as no probe rejected and no save failed.
THEOREM AWDrivenIsDriven == AWSpec => []AWDrivenStageHasItsChain
<1>1. AWInv => AWDrivenStageHasItsChain
  BY DEF AWInv
<1>2. QED
  BY <1>1, AWInvariant, PTL

\* Past the seller's click no two chains are at work.
THEOREM AWOneChainFetches == AWSpec => []AWOneDownstreamChain
<1>1. AWInv => AWOneDownstreamChain
  BY DEF AWInv
<1>2. QED
  BY <1>1, AWInvariant, PTL

\* Completion, in memory or on disk, was earned by a verification and a handoff.
THEOREM AWCompleteIsEarned == AWSpec => []AWCompletionIsEarned
<1>1. AWInv => AWCompletionIsEarned
  BY DEF AWInv, AWEnginesOK, AWEngineOK, AWCompletionIsEarned
<1>2. QED
  BY <1>1, AWInvariant, PTL

\* A command identity takes effect once, across replays, failed saves and restarts.
THEOREM AWReplayTakesOnce == AWSpec => []AWReplayIsNoop
<1>1. AWInv => AWReplayIsNoop
  BY DEF AWInv, AWLedgerOK, AWReplayIsNoop
<1>2. QED
  BY <1>1, AWInvariant, PTL

\* The run waits for the seller at the seller's step only.
THEOREM AWWaitIsStorable == AWSpec => []AWWaitingViewIsStorable
<1>1. AWInv => AWWaitingViewIsStorable
  BY DEF AWInv, AWEnginesOK, AWEngineOK, AWSellerStages, AWWaitingViewIsStorable
<1>2. QED
  BY <1>1, AWInvariant, PTL

\* A record that says the run is over keeps its stage.
THEOREM AWOverIsKept == AWSpec => AWTerminalStays
<1>1. AWInv /\ [AWNext]_awVars => [AWOverStays]_awVars
  BY AWStepInv
<1>2. QED
  BY <1>1, AWInvariant, PTL DEF AWSpec, AWTerminalStays, AWOverStays

===============================================================================
