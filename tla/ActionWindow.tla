---------------------------- MODULE ActionWindow ----------------------------
(***************************************************************************)
(* One Action Window export run of the local agent: the engine that decides *)
(* (action-window/engine.ts), the session that carries the engine's effects *)
(* out against the marketplace page (session.ts), the record of the run on  *)
(* disk and its restore after a restart (operation-run.ts, run-store.ts,    *)
(* run-lifecycle.ts).                                                       *)
(*                                                                          *)
(* The engine is a record and a set of functions from a record to the next  *)
(* record and the effect it asks for.  The session is a set of drive        *)
(* chains: a chain awaits one probe of the driver and everything between    *)
(* two awaits is one step, as in the JavaScript event loop.  A command may  *)
(* come between any two steps and starts a chain of its own.                *)
(*                                                                          *)
(* Abstracted: the text of events and views; the revision, of which only    *)
(* the comparison with a command's expectedRevision is kept (`fresh'); the  *)
(* commands that change nothing but the guidance flag; the overlay.         *)
(***************************************************************************)
EXTENDS Naturals, FiniteSets, Sequences

CONSTANTS
  AWTargets,    \* signatures a located control can have
  AWArtifacts,  \* references a detected download can have
  AWIds,        \* command identities that may be sent again
  AWNone,       \* null
  AWSlots,      \* drive chains that can be in flight together
  AWMaxFaults   \* bound: rejected probes, failed saves and crashes

ASSUME AWAssumption ==
  /\ AWNone \notin AWTargets \cup AWArtifacts \cup AWIds
  /\ AWMaxFaults \in Nat

VARIABLES
  awUp,       \* the agent process runs
  awDecline,  \* this process declines the ingest handoff (--no-ingest)
  awEng,      \* the engine in memory
  awDisk,     \* the saved record of the run, or AWNone
  awChain,    \* what each drive chain awaits
  awWatch,    \* some watchUserAction task is waiting for the seller
  awFaults,   \* faults so far
  awBroken,   \* a probe rejected or a save failed in this process
  awTook,     \* history: how often each command identity took effect
  awVerified, \* history: a verification succeeded
  awIngested  \* history: an ingest handoff succeeded

awVars == <<awUp, awDecline, awEng, awDisk, awChain, awWatch,
            awFaults, awBroken, awTook, awVerified, awIngested>>
awHistory == <<awTook, awVerified, awIngested>>

-----------------------------------------------------------------------------
(* Stages and commands (stages.ts) *)

AWPrepStages == {"PREPARE_SESSION", "LOCATE_TARGET", "HIGHLIGHT_TARGET"}
AWDownstream == {"DETECT_DOWNLOAD", "VALIDATE_ARTIFACT", "INGEST_HANDOFF"}
AWDriven == AWPrepStages \cup {"VERIFY_TRANSITION"} \cup AWDownstream
AWOver == {"COMPLETE", "CANCELLED"}
AWStages ==
  AWDriven \cup AWOver
    \cup {"WAIT_FOR_USER_ACTION", "AWAIT_SESSION_RECOVERY", "FAILED", "PAUSED"}

\* (Broken variant: any driven stage can be paused.)
AWAllowedPause(stage) ==
  IF stage \in AWDriven THEN {"PAUSE_RUN", "CANCEL_RUN"}
  ELSE IF stage = "WAIT_FOR_USER_ACTION"
       THEN {"REQUEST_STEP_RECHECK", "PAUSE_RUN", "CANCEL_RUN"}
  ELSE IF stage = "AWAIT_SESSION_RECOVERY" THEN {"REQUEST_STEP_RECHECK", "CANCEL_RUN"}
  ELSE IF stage = "PAUSED" THEN {"RESUME_RUN", "CANCEL_RUN"}
  ELSE {}

\* (Broken variant: a run that is over can be rechecked.)
AWAllowedOver(stage) ==
  IF stage \in AWPrepStages THEN {"PAUSE_RUN", "CANCEL_RUN"}
  ELSE IF stage = "PAUSED" THEN {"RESUME_RUN", "CANCEL_RUN"}
  ELSE IF stage \in AWDriven THEN {"CANCEL_RUN"}
  ELSE {"REQUEST_STEP_RECHECK", "CANCEL_RUN"}

\* The commands with an effect that a stage accepts.
AWAllowed(stage) ==
  IF stage \in AWPrepStages THEN {"PAUSE_RUN", "CANCEL_RUN"}
  ELSE IF stage = "WAIT_FOR_USER_ACTION"
       THEN {"REQUEST_STEP_RECHECK", "PAUSE_RUN", "CANCEL_RUN"}
  ELSE IF stage = "AWAIT_SESSION_RECOVERY" THEN {"REQUEST_STEP_RECHECK", "CANCEL_RUN"}
  ELSE IF stage = "PAUSED" THEN {"RESUME_RUN", "CANCEL_RUN"}
  ELSE IF stage \in AWDriven THEN {"CANCEL_RUN"}
  ELSE {}

AWCommands == {"START_RUN", "REQUEST_STEP_RECHECK", "PAUSE_RUN", "RESUME_RUN", "CANCEL_RUN"}

\* The probe whose answer a driven stage waits for.
AWProbeOf ==
  [s \in AWDriven |->
     IF s = "PREPARE_SESSION" THEN "PREPARE"
     ELSE IF s = "LOCATE_TARGET" THEN "LOCATE"
     ELSE IF s = "HIGHLIGHT_TARGET" THEN "HIGHLIGHT"
     ELSE IF s = "VERIFY_TRANSITION" THEN "VERIFY"
     ELSE IF s = "INGEST_HANDOFF" THEN "INGEST"
     ELSE s]
AWProbes == {AWProbeOf[s] : s \in AWDriven}
AWEffects == AWProbes \cup {"OBSERVE", "CLEANUP", "NONE"}

-----------------------------------------------------------------------------
(* The engine (engine.ts) *)

AWEngines ==
  [started : BOOLEAN,
   stage : AWStages,
   resume : AWStages \cup {AWNone},
   step : 1..3,                                  \* activeStepIndex
   completed : 0..3,                             \* completedSteps
   blocker : {AWNone, "RECOVERABLE", "TERMINAL"},
   target : AWTargets \cup {AWNone},             \* targetSig
   observed : BOOLEAN,
   first : AWTargets \cup {AWNone},              \* the first TARGET_HIGHLIGHTED event
   artifact : AWArtifacts \cup {AWNone},         \* the last DOWNLOAD_DETECTED event
   ledger : SUBSET AWIds]                        \* appliedCommandIds

\* No record on disk is told apart from an engine.
ASSUME AWNoneIsNoRecord == AWNone \notin AWEngines

AWFresh ==
  [started |-> FALSE, stage |-> "PREPARE_SESSION", resume |-> AWNone, step |-> 1,
   completed |-> 0, blocker |-> AWNone, target |-> AWNone, observed |-> FALSE,
   first |-> AWNone, artifact |-> AWNone, ledger |-> {}]

\* What an engine call returns: the engine after it and the effect it asks for.
AWOut(e, f) == [eng |-> e, next |-> f]

AWFail(e) == AWOut([e EXCEPT !.stage = "FAILED", !.blocker = "TERMINAL"], "CLEANUP")
AWCancel(e) == AWOut([e EXCEPT !.stage = "CANCELLED", !.blocker = AWNone], "CLEANUP")
AWPark(e) ==
  AWOut([e EXCEPT !.stage = "AWAIT_SESSION_RECOVERY", !.step = 1,
                  !.blocker = "RECOVERABLE"], "NONE")

\* (Broken variant: the step is counted up from the one the run was restored at.)
AWOnSurfaceReadyCounts(e, a) ==
  IF a = "ready"
  THEN AWOut([e EXCEPT !.stage = "LOCATE_TARGET", !.step = @ + 1, !.completed = 1,
                       !.blocker = AWNone], "LOCATE")
  ELSE IF a = "session" THEN AWPark(e) ELSE AWFail(e)

\* A seller-fixable surface parks the run, any other bad surface fails it.
AWOnSurfaceReady(e, a) ==
  IF a = "ready"
  THEN AWOut([e EXCEPT !.stage = "LOCATE_TARGET", !.step = 2, !.completed = 1,
                       !.blocker = AWNone], "LOCATE")
  ELSE IF a = "session" THEN AWPark(e) ELSE AWFail(e)

AWOnLocated(e, a) ==
  IF a \in AWTargets
  THEN AWOut([e EXCEPT !.stage = "HIGHLIGHT_TARGET", !.target = a], "HIGHLIGHT")
  ELSE AWFail(e)

AWOnHighlighted(e) ==
  AWOut([e EXCEPT !.stage = "WAIT_FOR_USER_ACTION",
                  !.first = IF e.first = AWNone THEN e.target ELSE e.first], "OBSERVE")

AWOnVerified(e, a) ==
  IF a = "verified"
  THEN AWOut([e EXCEPT !.stage = "DETECT_DOWNLOAD", !.step = 3, !.completed = 2],
             "DETECT_DOWNLOAD")
  ELSE IF a = "unmet" THEN AWOut([e EXCEPT !.stage = "WAIT_FOR_USER_ACTION"], "OBSERVE")
  ELSE AWFail(e)

AWOnDownloadDetected(e, a) ==
  IF a \in AWArtifacts
  THEN AWOut([e EXCEPT !.stage = "VALIDATE_ARTIFACT", !.artifact = a], "VALIDATE_ARTIFACT")
  ELSE AWFail(e)

AWOnArtifactValidated(e, a) ==
  IF a = "valid" THEN AWOut([e EXCEPT !.stage = "INGEST_HANDOFF"], "INGEST") ELSE AWFail(e)

AWOnIngested(e, a) ==
  IF a = "ok"
  THEN AWOut([e EXCEPT !.stage = "COMPLETE", !.completed = 3, !.blocker = AWNone], "CLEANUP")
  ELSE AWFail(e)

\* What a probe can answer.
AWAnswers(f) ==
  CASE f = "PREPARE"           -> {"ready", "session", "unsupported"}
    [] f = "LOCATE"            -> AWTargets \cup {"none-or-many"}
    [] f = "HIGHLIGHT"         -> {"done"}
    [] f = "VERIFY"            -> {"verified", "unmet", "drift"}
    [] f = "DETECT_DOWNLOAD"   -> AWArtifacts \cup {"timeout"}
    [] f = "VALIDATE_ARTIFACT" -> {"valid", "invalid"}
    [] f = "INGEST"            -> {"ok", "failed"}

\* The engine method a probe's answer is given to.
AWOnAnswer(e, f, a) ==
  CASE f = "PREPARE"           -> AWOnSurfaceReady(e, a)
    [] f = "LOCATE"            -> AWOnLocated(e, a)
    [] f = "HIGHLIGHT"         -> AWOnHighlighted(e)
    [] f = "VERIFY"            -> AWOnVerified(e, a)
    [] f = "DETECT_DOWNLOAD"   -> AWOnDownloadDetected(e, a)
    [] f = "VALIDATE_ARTIFACT" -> AWOnArtifactValidated(e, a)
    [] f = "INGEST"            -> AWOnIngested(e, a)

\* (Broken variant: a resumed stage is not driven again.)
AWResumeIdle(e) ==
  LET to == IF e.resume = AWNone THEN "PREPARE_SESSION" ELSE e.resume IN
  AWOut([e EXCEPT !.stage = to, !.resume = AWNone],
        IF to = "WAIT_FOR_USER_ACTION" THEN "OBSERVE" ELSE "NONE")

\* Resume re-enters the stage that was interrupted and asks for its effect again.
AWResume(e) ==
  LET to == IF e.resume = AWNone THEN "PREPARE_SESSION" ELSE e.resume IN
  AWOut([e EXCEPT !.stage = to, !.resume = AWNone],
        IF to = "WAIT_FOR_USER_ACTION" THEN "OBSERVE"
        ELSE IF to \in AWDriven \ {"VERIFY_TRANSITION"} THEN AWProbeOf[to]
        ELSE "NONE")

\* The switch of command(): what an accepted command does.
AWApply(e, type) ==
  CASE type = "START_RUN"  ->
         AWOut([e EXCEPT !.started = TRUE, !.stage = "PREPARE_SESSION", !.step = 1], "PREPARE")
    [] type = "REQUEST_STEP_RECHECK" ->
         IF e.stage = "AWAIT_SESSION_RECOVERY"
         THEN AWOut([e EXCEPT !.stage = "PREPARE_SESSION"], "PREPARE")
         ELSE AWOut([e EXCEPT !.stage = "VERIFY_TRANSITION"], "VERIFY")
    [] type = "PAUSE_RUN"  -> AWOut([e EXCEPT !.resume = e.stage, !.stage = "PAUSED"], "NONE")
    [] type = "RESUME_RUN" -> AWResume(e)
    [] type = "CANCEL_RUN" -> AWCancel(e)

\* The guards of command(), apart from the revision and the ledger.
AWValidNow(e, type) ==
  IF e.started THEN type \in AWAllowed(e.stage) ELSE type = "START_RUN"

-----------------------------------------------------------------------------
(* Drive chains (session.ts) *)

AWIdle == [at |-> "idle", ref |-> AWNone]
AWStageOf(f) == CHOOSE s \in AWDriven : AWProbeOf[s] = f

\* What a chain awaits next, with the references drive() reads from the
\* engine's events when it calls the driver: highlightedSig() and
\* detectedArtifactRef().
AWAwait(f, e) ==
  IF f = "NONE" THEN AWIdle
  ELSE [at |-> f, ref |-> CASE f = "VERIFY" -> e.first
                            [] f \in {"VALIDATE_ARTIFACT", "INGEST"} -> e.artifact
                            [] OTHER -> AWNone]

\* Under --no-ingest the INGEST effect awaits nothing: it cancels the run in
\* the same step.
AWFollow(o) ==
  IF o.next = "INGEST" /\ awDecline THEN <<o, AWCancel(o.eng)>> ELSE <<o>>

AWLast(s) == s[Len(s)]

-----------------------------------------------------------------------------
(* Steps of a chain *)

AWInit ==
  /\ awUp = FALSE
  /\ awDecline = FALSE
  /\ awEng = AWFresh
  /\ awDisk = AWNone
  /\ awChain = [c \in AWSlots |-> AWIdle]
  /\ awWatch = FALSE
  /\ awFaults = 0
  /\ awBroken = FALSE
  /\ awTook = [i \in AWIds |-> 0]
  /\ awVerified = FALSE
  /\ awIngested = FALSE

AWRemember(f, a) ==
  /\ awVerified' = (awVerified \/ (f = "VERIFY" /\ a = "verified"))
  /\ awIngested' = (awIngested \/ (f = "INGEST" /\ a = "ok"))
  /\ UNCHANGED awTook

\* The probe answers while the engine is where the probe was asked for: the
\* engine moves, the state is published and saved, the chain goes on.
AWAnswer(c) ==
  \E a \in AWAnswers(awChain[c].at) :
    LET f == awChain[c].at
        s == AWFollow(AWOnAnswer(awEng, f, a)) IN
    /\ awEng.stage = AWStageOf(f)
    /\ awEng' = AWLast(s).eng
    /\ awDisk' = AWLast(s).eng
    /\ awChain' = [awChain EXCEPT ![c] = AWAwait(AWLast(s).next, AWLast(s).eng)]
    /\ AWRemember(f, a)
    /\ UNCHANGED <<awUp, awDecline, awWatch, awFaults, awBroken>>

\* The same, but the k-th save throws: the engine has moved, the record on
\* disk has not, and fatalCleanup() runs.
AWAnswerUnsaved(c) ==
  \E a \in AWAnswers(awChain[c].at) :
    LET f == awChain[c].at
        s == AWFollow(AWOnAnswer(awEng, f, a)) IN
    \E k \in 1..Len(s) :
      /\ awEng.stage = AWStageOf(f)
      /\ awFaults < AWMaxFaults
      /\ awFaults' = awFaults + 1
      /\ awBroken' = TRUE
      /\ awEng' = s[k].eng
      /\ awDisk' = IF k = 1 THEN awDisk ELSE s[k - 1].eng
      /\ awChain' = [awChain EXCEPT ![c] = AWAwait("CLEANUP", awEng)]
      /\ AWRemember(f, a)
      /\ UNCHANGED <<awUp, awDecline, awWatch>>

\* The probe answers after the run has moved on (paused, cancelled, failed,
\* or carried further by another chain): expect() throws, fatalCleanup() runs.
AWLateAnswer(c) ==
  /\ awEng.stage # AWStageOf(awChain[c].at)
  /\ awChain' = [awChain EXCEPT ![c] = AWAwait("CLEANUP", awEng)]
  /\ UNCHANGED <<awUp, awDecline, awEng, awDisk, awWatch, awFaults, awBroken, awHistory>>

AWChainAnswers(c) ==
  /\ awUp
  /\ awChain[c].at \in AWProbes
  /\ AWAnswer(c) \/ AWAnswerUnsaved(c) \/ AWLateAnswer(c)

\* The driver's promise rejects: the engine hears nothing, fatalCleanup() runs.
AWRejects(c) ==
  /\ awUp
  /\ awChain[c].at \in AWProbes \cup {"OBSERVE"}
  /\ awFaults < AWMaxFaults
  /\ awFaults' = awFaults + 1
  /\ awBroken' = TRUE
  /\ awChain' = [awChain EXCEPT ![c] = AWAwait("CLEANUP", awEng)]
  /\ UNCHANGED <<awUp, awDecline, awEng, awDisk, awWatch, awHistory>>

\* armObserve() resolves: the chain ends and leaves a watchUserAction() task.
AWArmed(c) ==
  /\ awUp
  /\ awChain[c].at = "OBSERVE"
  /\ awChain' = [awChain EXCEPT ![c] = AWIdle]
  /\ awWatch' = TRUE
  /\ UNCHANGED <<awUp, awDecline, awEng, awDisk, awFaults, awBroken, awHistory>>

\* cleanup() resolves, for a finished run as for a failed chain.
AWCleaned(c) ==
  /\ awUp
  /\ awChain[c].at = "CLEANUP"
  /\ awChain' = [awChain EXCEPT ![c] = AWIdle]
  /\ UNCHANGED <<awUp, awDecline, awEng, awDisk, awWatch, awFaults, awBroken, awHistory>>

-----------------------------------------------------------------------------
(* The seller and the process *)

\* A watchUserAction() task resolves; it counts only at the barrier.
AWSellerActs ==
  /\ awUp
  /\ awWatch
  /\ awWatch' \in BOOLEAN
  /\ \/ /\ awEng.stage = "WAIT_FOR_USER_ACTION"
        /\ awEng' = [awEng EXCEPT !.observed = TRUE]
        /\ awDisk' = awEng'
     \/ UNCHANGED <<awEng, awDisk>>
  /\ UNCHANGED <<awUp, awDecline, awChain, awFaults, awBroken, awHistory>>

\* The guards of command() in their order: not started, already applied,
\* not allowed here, stale.  `id' is an identity the panel may send again, or
\* AWNone for one it uses once.
AWAccepts(type, id, fresh) ==
  /\ AWValidNow(awEng, type)
  /\ id \notin awEng.ledger
  /\ fresh

AWLedger(e, id) == IF id \in AWIds THEN [e EXCEPT !.ledger = @ \cup {id}] ELSE e

\* An accepted command starts a chain of its own; the state is published and
\* saved before the chain's first call of the driver.
AWCommandTaken(type, id) ==
  /\ awUp
  /\ AWAccepts(type, id, TRUE)
  /\ LET o == AWApply(AWLedger(awEng, id), type) IN
     /\ awEng' = o.eng
     /\ awDisk' = o.eng
     /\ IF o.next = "NONE" THEN UNCHANGED awChain
        ELSE \E c \in AWSlots :
               /\ awChain[c] = AWIdle
               /\ awChain' = [awChain EXCEPT ![c] = AWAwait(o.next, o.eng)]
  /\ awTook' = [i \in AWIds |-> IF i = id THEN awTook[i] + 1 ELSE awTook[i]]
  /\ UNCHANGED <<awUp, awDecline, awWatch, awFaults, awBroken,
                 awVerified, awIngested>>

\* A command that is refused, or was applied before, still publishes and saves.
AWCommandIgnored(type, id, fresh) ==
  /\ awUp
  /\ ~AWAccepts(type, id, fresh)
  /\ awDisk' = awEng
  /\ UNCHANGED <<awUp, awDecline, awEng, awChain, awWatch, awFaults,
                 awBroken, awHistory>>

\* The process dies: by a signal, or because a save throws where nothing
\* catches it (in handle() and in watchUserAction()).
AWCrash ==
  /\ awUp
  /\ awFaults < AWMaxFaults
  /\ awFaults' = awFaults + 1
  /\ awUp' = FALSE
  /\ awEng' = AWFresh
  /\ awChain' = [c \in AWSlots |-> AWIdle]
  /\ awWatch' = FALSE
  /\ awBroken' = FALSE
  /\ UNCHANGED <<awDecline, awDisk, awHistory>>

-----------------------------------------------------------------------------
(* Start and restore (operation-run.ts, run-lifecycle.ts) *)

\* (Broken variant: a run saved at the seller's step goes on behind it.)
AWSafeStageSkips(e) ==
  IF e.stage # "FAILED" /\ e.step >= 2 THEN "DETECT_DOWNLOAD" ELSE "PREPARE_SESSION"

\* (Broken variant: a run saved behind the seller's step waits for the seller again.)
AWSafeStageWaits(e) ==
  IF e.stage # "FAILED" /\ e.step >= 3 THEN "WAIT_FOR_USER_ACTION" ELSE "PREPARE_SESSION"

\* The stage a saved run may safely re-enter: never past a page it cannot see.
AWSafeStage(e) ==
  IF e.stage # "FAILED" /\ e.step >= 3 THEN "DETECT_DOWNLOAD" ELSE "PREPARE_SESSION"

\* (Broken variant: the restored engine starts with an empty ledger.)
AWPauseForRestoreForgets(e) ==
  [e EXCEPT !.resume = AWSafeStage(e), !.stage = "PAUSED", !.blocker = AWNone, !.ledger = {}]

AWPauseForRestore(e) ==
  [e EXCEPT !.resume = AWSafeStage(e), !.stage = "PAUSED", !.blocker = AWNone]

\* A process starts and opens the run: a new one, or the saved one held at a
\* pause that is saved again.  A finished run is not opened again.
AWBoot ==
  /\ ~awUp
  /\ awUp' = TRUE
  /\ awDecline' \in BOOLEAN
  /\ \/ /\ awDisk = AWNone
        /\ awEng' = AWFresh
        /\ UNCHANGED awDisk
     \/ /\ awDisk # AWNone
        /\ awDisk.stage \notin AWOver
        /\ awEng' = AWPauseForRestore(awDisk)
        /\ awDisk' = awEng'
  /\ UNCHANGED <<awChain, awWatch, awFaults, awBroken, awHistory>>

AWChainStep(c) == AWChainAnswers(c) \/ AWRejects(c) \/ AWArmed(c) \/ AWCleaned(c)

AWNext ==
  \/ \E c \in AWSlots : AWChainStep(c)
  \/ AWSellerActs
  \/ \E type \in AWCommands, id \in AWIds \cup {AWNone} :
       \/ AWCommandTaken(type, id)
       \/ \E fresh \in BOOLEAN : AWCommandIgnored(type, id, fresh)
  \/ AWCrash
  \/ AWBoot

\* Every await of the driver ends (each probe has its own timeout), and a
\* helper that went down is started again.
AWCallEnds(c) == AWChainAnswers(c) \/ AWArmed(c) \/ AWCleaned(c)
AWFairness ==
  /\ \A c \in AWSlots : WF_awVars(AWCallEnds(c))
  /\ WF_awVars(AWBoot)

AWSpec == AWInit /\ [][AWNext]_awVars /\ AWFairness

-----------------------------------------------------------------------------
(* Properties *)

AWTypeOK ==
  /\ awUp \in BOOLEAN /\ awDecline \in BOOLEAN
  /\ awEng \in AWEngines
  /\ awDisk \in AWEngines \cup {AWNone}
  /\ awChain \in [AWSlots -> [at : (AWEffects \ {"NONE"}) \cup {"idle"},
                              ref : AWTargets \cup AWArtifacts \cup {AWNone}]]
  /\ awWatch \in BOOLEAN
  /\ awFaults \in 0..AWMaxFaults /\ awBroken \in BOOLEAN
  /\ awTook \in [AWIds -> Nat]
  /\ awVerified \in BOOLEAN /\ awIngested \in BOOLEAN

\* A run that is in a stage the local agent drives has a chain that awaits that
\* stage's probe; else it would show progress for ever.  Commands, late answers
\* of older chains and restarts must not take the last chain away.
AWDrivenStageHasItsChain ==
  (awUp /\ awEng.started /\ awEng.stage \in AWDriven /\ ~awBroken)
    => \E c \in AWSlots : awChain[c].at = AWProbeOf[awEng.stage]

\* Past the seller's own click one chain at most is at work: no two chains take
\* the same download, or hand it over twice.
AWOneDownstreamChain ==
  \A c, d \in AWSlots :
    (awChain[c].at \in AWDownstream \cup {"INGEST"} /\ awChain[d].at \in AWDownstream \cup {"INGEST"})
      => c = d

\* A completed run was verified and its file was ingested, whatever commands,
\* late answers, failed saves and restarts came between.
AWCompletionIsEarned ==
  (awEng.stage = "COMPLETE" \/ (awDisk # AWNone /\ awDisk.stage = "COMPLETE"))
    => awVerified /\ awIngested

\* A record that says the run is over is never written again with another stage.
AWTerminalStays ==
  [][(awDisk # AWNone /\ awDisk.stage \in AWOver) => awDisk'.stage = awDisk.stage]_awVars

\* A command delivered twice takes effect once, unless its first effect was lost
\* with the process before it was saved.
AWReplayIsNoop == \A i \in AWIds : awTook[i] <= 1

\* The run waits for the seller only at the seller's step, also when it waits
\* again after a pause, an unmet verification or a restart; a view that waits at
\* another step is one that saveOperationRun() refuses.
AWWaitingViewIsStorable == awEng.stage = "WAIT_FOR_USER_ACTION" => awEng.step = 2

\* The local agent owes the run its next step: the stage is one it drives, and no
\* driver call rejected and no save failed.
AWOwesStep == awUp /\ awEng.started /\ awEng.stage \in AWDriven /\ ~awBroken

=============================================================================
