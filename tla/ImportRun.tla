----------------------------- MODULE ImportRun -----------------------------
(***************************************************************************)
(* One segment of the initial review import of the local agent: the engine  *)
(* (initial-import/import-engine.ts) and the session that drives it against *)
(* the marketplace page (import-session.ts).                                *)
(*                                                                          *)
(* Several tasks run over one engine: drive chains started by commands, the *)
(* barrier watchers that wait for the seller's own action, the park watcher *)
(* that looks again at a parked run, the watchdog of PREPARE and the watch  *)
(* on the window.  Everything between two awaits is one step.  The engine's *)
(* result handlers refuse only a finished run: a late result moves a run    *)
(* that was paused, parked or carried further by another chain.             *)
(*                                                                          *)
(* Abstracted: the second date step, which goes as the first; the guidance  *)
(* panel (its intents are commands); step numbers, signatures, events and   *)
(* revisions (a stale command changes nothing); blocker codes, of which the *)
(* stage keeps what decides; and the scope evidence, of which imGate keeps   *)
(* whether the gate let the run by.                                          *)
(***************************************************************************)
EXTENDS Naturals, FiniteSets

CONSTANTS
  IMSlots,      \* drive chains that can be in flight together
  IMMaxUpsets   \* bound: pauses, rejected driver calls and packs, PREPAREs that hang
                \* and shut windows, together

ASSUME IMAssumption == 0 \notin IMSlots /\ IMMaxUpsets \in Nat

VARIABLES
  imUp,        \* the agent process runs
  imStarted,   \* started
  imStage,     \* stage, with the target it is about
  imApply,     \* facts.requiresApply
  imGate,      \* history: "open" where the last scope verdict was a match or the
               \* seller has confirmed the range since, "holds" where not, and
               \* "overrun" where it held but a call made before was answered past it
  imChain,     \* what each drive chain awaits
  imWatch,     \* some watchBarrier() task waits at the barrier the run rests at
  imStale,     \* some watchBarrier() task waits at one the run has left
  imParkWatch, \* parkWatchStage, "none" for null
  imParkDrives, \* the slot of the chain the park watcher awaits, 0 for none
  imBusy,      \* autoBusy
  imClosed,    \* surfaceClosed
  imOpen,      \* a window is watched for its close
  imDog,       \* the PREPARE watchdog is armed
  imShut,      \* history: a window was shut
  imUpsets     \* pauses and faults so far

imVars == <<imUp, imStarted, imStage, imApply, imGate, imChain, imWatch, imStale,
            imParkWatch, imParkDrives, imBusy, imClosed, imOpen, imDog, imShut, imUpsets>>

-----------------------------------------------------------------------------
(* Stages and effects (import-stages.ts, import-engine.ts) *)

IMTargets == {"date", "apply_range", "export", "consent"}

\* A stage or an effect `at' a target, or one about none.
IMAt(at, on) == [at |-> at, on |-> on]
IMJust(at) == IMAt(at, "none")

IMTerminal == {IMJust(s) : s \in {"COMPLETED", "FAILED", "CANCELLED"}}
IMParks == {IMJust(s) : s \in {"SESSION_BLOCKED", "SURFACE_BLOCKED", "SCOPE_BLOCKED"}}
IMProcessing == {IMJust(s) : s \in {"DETECT_DOWNLOAD", "VALIDATE_ARTIFACT", "INGEST"}}
IMConfirm == IMJust("WAIT_FOR_RANGE_CONFIRM")
IMStages ==
  {IMAt(s, t) : s \in {"LOCATE", "HIGHLIGHT", "WAIT_FOR"}, t \in IMTargets}
    \cup {IMJust("PREPARE_SESSION"), IMJust("READ_SCOPE"), IMConfirm, IMJust("PAUSED")}
    \cup IMTerminal \cup IMParks \cup IMProcessing

IMNothing == IMJust("NONE")
IMEffects ==
  {IMAt(f, t) : f \in {"locate", "prefilled", "highlight", "highlightAll", "observe"}, t \in IMTargets}
    \cup {IMJust(f) : f \in {"PREPARE", "READ_FACTS", "READ_SCOPE", "CLEAR_HIGHLIGHT",
                             "DETECT_DOWNLOAD", "VALIDATE_ARTIFACT", "INGEST", "CLEANUP", "NONE"}}

\* What an engine method returns: the stage, the facts and the gate after it, and
\* the effect it asks for.
IMNow == [stage |-> imStage, apply |-> imApply, gate |-> imGate, next |-> IMNothing]
IMGo(stage, next) == [IMNow EXCEPT !.stage = stage, !.next = next]
IMAsk(next) == [IMNow EXCEPT !.next = next]
IMFail == IMGo(IMJust("FAILED"), IMJust("CLEANUP"))
IMParkAt(s) == IMGo(IMJust(s), IMNothing)

\* (Broken variant: a surface without an apply control skips the scope gate.)
IMAdvanceUngated(t) ==
  CASE t = "date" /\ imApply -> IMGo(IMAt("LOCATE", "apply_range"), IMAt("locate", "apply_range"))
    [] t = "date" /\ ~imApply -> IMGo(IMAt("LOCATE", "export"), IMAt("locate", "export"))
    [] t = "apply_range" -> IMGo(IMJust("READ_SCOPE"), IMJust("READ_SCOPE"))
    [] t = "export" -> IMGo(IMAt("LOCATE", "consent"), IMAt("locate", "consent"))
    [] t = "consent" -> IMGo(IMJust("DETECT_DOWNLOAD"), IMJust("DETECT_DOWNLOAD"))

IMAdvanceAfterBarrier(t) ==
  CASE t = "date" /\ imApply -> IMGo(IMAt("LOCATE", "apply_range"), IMAt("locate", "apply_range"))
    [] t = "apply_range" \/ (t = "date" /\ ~imApply) ->
         IMGo(IMJust("READ_SCOPE"), IMJust("READ_SCOPE"))
    [] t = "export" -> IMGo(IMAt("LOCATE", "consent"), IMAt("locate", "consent"))
    [] t = "consent" -> IMGo(IMJust("DETECT_DOWNLOAD"), IMJust("DETECT_DOWNLOAD"))

\* What the driver can answer to each effect.
IMAnswers(f) ==
  CASE f.at \in {"locate", "highlight"} -> {"one", "many", "zero"}
    [] f.at \in {"prefilled", "highlightAll"} -> BOOLEAN
    [] f.at = "PREPARE" -> {"ready", "login", "unsettled"}
    [] f.at = "READ_FACTS" -> BOOLEAN
    [] f.at = "READ_SCOPE" -> {"MATCH", "MISMATCH", "UNREADABLE"}
    [] OTHER -> BOOLEAN

IMOnLocated(t, a) ==
  IF a = "many" /\ t = "export"
  THEN IMGo(IMAt("HIGHLIGHT", t), IMAt("highlightAll", t))
  ELSE IF a # "one" THEN IMFail
  ELSE IMGo(IMAt("HIGHLIGHT", t), IMAt(IF t = "date" THEN "prefilled" ELSE "highlight", t))

IMOnPrefilled(t, satisfied) ==
  IF imStage # IMAt("HIGHLIGHT", t) THEN IMNow
  ELSE IF satisfied THEN IMAdvanceAfterBarrier(t) ELSE IMAsk(IMAt("highlight", t))

IMOnHighlighted(t, a) ==
  IF a = "many" /\ t = "export" THEN IMAsk(IMAt("highlightAll", t))
  ELSE IF a # "one" THEN IMFail
  ELSE IMGo(IMAt("WAIT_FOR", t), IMAt("observe", t))

\* (Broken variant: the painted candidates are not observed.)
IMOnCandidatesUnwatched(t, painted) ==
  IF imStage # IMAt("HIGHLIGHT", t) THEN IMNow
  ELSE IF painted THEN IMGo(IMAt("WAIT_FOR", t), IMNothing) ELSE IMFail

IMOnCandidates(t, painted) ==
  IF imStage # IMAt("HIGHLIGHT", t) THEN IMNow
  ELSE IF painted THEN IMGo(IMAt("WAIT_FOR", t), IMAt("observe", t)) ELSE IMFail

IMOnSurfaceReady(a) ==
  CASE a = "ready"     -> IMAsk(IMJust("READ_FACTS"))
    [] a = "login"     -> IMParkAt("SESSION_BLOCKED")
    [] a = "unsettled" -> IMParkAt("SURFACE_BLOCKED")

IMOnFactsRead(apply) ==
  [IMGo(IMAt("LOCATE", "date"), IMAt("locate", "date")) EXCEPT !.apply = apply]

\* The scope gate: a mismatch stops the run, an unreadable scope is put to the
\* seller, a match goes on to the export.
IMOnScopeRead(m) ==
  CASE m = "MISMATCH"   -> [IMGo(IMJust("SCOPE_BLOCKED"), IMJust("CLEAR_HIGHLIGHT")) EXCEPT
                              !.gate = "holds"]
    [] m = "UNREADABLE" -> [IMGo(IMConfirm, IMJust("CLEAR_HIGHLIGHT")) EXCEPT !.gate = "holds"]
    [] m = "MATCH"      -> [IMGo(IMAt("LOCATE", "export"), IMAt("locate", "export")) EXCEPT
                              !.gate = "open"]

IMOnDownloadDetected(ok) ==
  IF ok THEN IMGo(IMJust("VALIDATE_ARTIFACT"), IMJust("VALIDATE_ARTIFACT")) ELSE IMFail
IMOnArtifactValidated(ok) == IF ok THEN IMGo(IMJust("INGEST"), IMJust("INGEST")) ELSE IMFail
IMOnIngested(ok) == IF ok THEN IMGo(IMJust("COMPLETED"), IMJust("CLEANUP")) ELSE IMFail

\* (Broken variant: a finished run is not told apart.)
IMOnAnswerAlways(f, a) ==
  CASE f.at = "locate"            -> IMOnLocated(f.on, a)
    [] f.at = "prefilled"         -> IMOnPrefilled(f.on, a)
    [] f.at = "highlight"         -> IMOnHighlighted(f.on, a)
    [] f.at = "highlightAll"      -> IMOnCandidates(f.on, a)
    [] f.at = "PREPARE"           -> IMOnSurfaceReady(a)
    [] f.at = "READ_FACTS"        -> IMOnFactsRead(a)
    [] f.at = "READ_SCOPE"        -> IMOnScopeRead(a)
    [] f.at = "DETECT_DOWNLOAD"   -> IMOnDownloadDetected(a)
    [] f.at = "VALIDATE_ARTIFACT" -> IMOnArtifactValidated(a)
    [] f.at = "INGEST"            -> IMOnIngested(a)

\* The engine method a driver's answer is given to; a finished run ignores it.
IMOnAnswer(f, a) ==
  IF imStage \in IMTerminal THEN IMNow
  ELSE CASE f.at = "locate"            -> IMOnLocated(f.on, a)
         [] f.at = "prefilled"         -> IMOnPrefilled(f.on, a)
         [] f.at = "highlight"         -> IMOnHighlighted(f.on, a)
         [] f.at = "highlightAll"      -> IMOnCandidates(f.on, a)
         [] f.at = "PREPARE"           -> IMOnSurfaceReady(a)
         [] f.at = "READ_FACTS"        -> IMOnFactsRead(a)
         [] f.at = "READ_SCOPE"        -> IMOnScopeRead(a)
         [] f.at = "DETECT_DOWNLOAD"   -> IMOnDownloadDetected(a)
         [] f.at = "VALIDATE_ARTIFACT" -> IMOnArtifactValidated(a)
         [] f.at = "INGEST"            -> IMOnIngested(a)

\* Stages and effects past the scope gate.
IMPastGate(s) ==
  \/ s.on \in {"export", "consent"}
  \/ s.at \in {"DETECT_DOWNLOAD", "VALIDATE_ARTIFACT", "INGEST", "COMPLETED"}

\* The answer with its history: a call past the gate that is answered while the gate
\* holds was made before the verdict, and no handler but the finished run's refuses it.
IMAnswered(f, a) ==
  LET r == IMOnAnswer(f, a) IN
  IF r.gate = "holds" /\ IMPastGate(f) /\ IMPastGate(r.stage)
  THEN [r EXCEPT !.gate = "overrun"] ELSE r

IMRecheck ==
  CASE imStage = IMJust("SCOPE_BLOCKED") -> IMGo(IMJust("READ_SCOPE"), IMJust("READ_SCOPE"))
    [] imStage \in IMParks \ {IMJust("SCOPE_BLOCKED")} ->
         IMGo(IMJust("PREPARE_SESSION"), IMJust("PREPARE"))
    [] imStage = IMConfirm -> [IMGo(IMAt("LOCATE", "export"), IMAt("locate", "export")) EXCEPT
                                 !.gate = "open"]
    [] imStage.at = "WAIT_FOR" -> IMAsk(IMAt("observe", imStage.on))

-----------------------------------------------------------------------------
(* Tasks (import-session.ts) *)

IMIdle == IMJust("idle")
IMInit ==
  /\ imUp = TRUE
  /\ imStarted = FALSE
  /\ imStage = IMJust("PREPARE_SESSION")
  /\ imApply = FALSE
  /\ imGate = "holds"
  /\ imChain = [c \in IMSlots |-> IMIdle]
  /\ imWatch = FALSE
  /\ imStale = FALSE
  /\ imParkWatch = "none"
  /\ imParkDrives = 0
  /\ imBusy = FALSE
  /\ imClosed = FALSE
  /\ imOpen = FALSE
  /\ imDog = FALSE
  /\ imShut = FALSE
  /\ imUpsets = 0

IMUpset == imUpsets < IMMaxUpsets /\ imUpsets' = imUpsets + 1

\* The engine after a method's result r.  A barrier watcher whose barrier the run
\* leaves is left behind: it finds that out when it next looks.
IMBecomes(r) ==
  /\ imStage' = r.stage
  /\ imApply' = r.apply
  /\ imGate' = r.gate
  /\ imWatch' = (imWatch /\ r.stage = imStage)
  /\ imStale' = (imStale \/ (imWatch /\ r.stage # imStage))

\* maybeWatchPark(), which every publishState() calls, with the loop `owner'
\* that still owns the watch ("none" for no loop).  With the window closed the
\* new loop ends before its first await and calls maybeWatchPark() again, which
\* starts another: the recursion overflows the stack, the rejected promise has
\* no handler but the process's own, and that one exits.
IMWatchPark(owner) ==
  IF owner = "none" /\ imStage' \in IMParks
  THEN /\ imParkWatch' = IF imClosed' THEN "none" ELSE imStage'.at
       /\ imUp' = ~imClosed'
  ELSE imParkWatch' = owner /\ UNCHANGED imUp

\* The condition of the watcher's loop: it stays while its park lasts and the
\* window is there; on its way out it hands over to the next one.
IMOwnerAfter(owner) ==
  IF owner # "none" /\ ~imClosed' /\ imStage' = IMJust(owner) THEN owner ELSE "none"

\* (Broken variant: the park watcher never learns that its task ended.)
IMDriveKeepsPark(c, next, park) ==
  LET ends == next = IMNothing \/ imClosed' IN
  /\ imChain' = [imChain EXCEPT ![c] = IF ends THEN IMIdle ELSE next]
  /\ imBusy' = (~ends /\ (imBusy \/ imChain[c] = IMIdle))
  /\ imParkDrives' = park
  /\ IMWatchPark(imParkWatch)

\* publishState() and drive(next) by the task in slot c: it awaits its next
\* driver call, or it ends; nothing is driven on a closed window.  autoBusy is set
\* where a task starts and cleared where one ends, whatever others do.  The task the park watcher awaits, if it is `park', gives the watch
\* back when it ends.
IMDrive(c, next, park) ==
  LET ends == next = IMNothing \/ imClosed' IN
  /\ imChain' = [imChain EXCEPT ![c] = IF ends THEN IMIdle ELSE next]
  /\ imBusy' = (~ends /\ (imBusy \/ imChain[c] = IMIdle))
  /\ imParkDrives' = IF ends /\ park = c THEN 0 ELSE park
  /\ IMWatchPark(IF ends /\ park = c THEN IMOwnerAfter(imParkWatch) ELSE imParkWatch)

\* PREPARE arms the watchdog when it is driven.
IMArms(dog, next) == imDog' = (dog \/ (next = IMJust("PREPARE") /\ ~imClosed'))

\* A step that publishes and drives nothing.
IMPublish ==
  /\ IMWatchPark(imParkWatch)
  /\ UNCHANGED <<imChain, imParkDrives, imBusy>>

-----------------------------------------------------------------------------
(* Commands (ImportSegmentSession.handle, ImportSegmentEngine.command) *)

\* A task started on the engine's result r, in a free slot.
IMTask(c, r, park) ==
  /\ imChain[c] = IMIdle
  /\ IMBecomes(r)
  /\ IMArms(imDog, r.next)
  /\ IMDrive(c, r.next, park)

IMCommand(c, r) ==
  /\ imClosed' = FALSE
  /\ IF r.next = IMNothing
     THEN IMBecomes(r) /\ IMPublish /\ UNCHANGED imDog
     ELSE IMTask(c, r, imParkDrives)
  /\ UNCHANGED <<imOpen, imShut>>

IMStartRun(c) ==
  /\ imUp /\ ~imStarted
  /\ imStarted' = TRUE
  /\ IMCommand(c, IMGo(IMJust("PREPARE_SESSION"), IMJust("PREPARE")))
  /\ UNCHANGED imUpsets

\* importAllowedCommands().
IMMayCommand == imUp /\ imStarted /\ imStage \notin IMTerminal
IMMayPause ==
  IMMayCommand /\ imStage \notin {IMJust("PAUSED"), IMJust("SESSION_BLOCKED"), IMJust("SURFACE_BLOCKED")}
IMMayRecheck ==
  IMMayCommand /\ (imStage \in IMParks \cup {IMConfirm} \/ imStage.at = "WAIT_FOR")

IMPauseRun(c) ==
  /\ IMMayPause
  /\ IMUpset
  /\ IMCommand(c, IMParkAt("PAUSED"))
  /\ UNCHANGED imStarted

\* resume(): PAUSED is no barrier, so whatever the pause interrupted, the run
\* reads the scope next.
IMResumeRun(c) ==
  /\ IMMayCommand
  /\ imStage = IMJust("PAUSED")
  /\ IMCommand(c, IMGo(IMJust("READ_SCOPE"), IMJust("READ_SCOPE")))
  /\ UNCHANGED <<imStarted, imUpsets>>

\* CANCEL_RUN and, where the run is not paused, SWITCH_TO_MANUAL.
IMCancelRun(c) ==
  /\ IMMayCommand
  /\ IMCommand(c, IMGo(IMJust("CANCELLED"), IMJust("CLEANUP")))
  /\ UNCHANGED <<imStarted, imUpsets>>

IMRecheckStep(c) ==
  /\ IMMayRecheck
  /\ IMCommand(c, IMRecheck)
  /\ UNCHANGED <<imStarted, imUpsets>>

\* A repeated START_RUN, which SET_GUIDANCE_ENABLED and FIND_CURRENT_STEP equal
\* here, moves nothing but the latch.
IMStartAgain(c) ==
  /\ imUp /\ imStarted /\ imClosed
  /\ IMCommand(c, IMNow)
  /\ UNCHANGED <<imStarted, imUpsets>>

-----------------------------------------------------------------------------
(* The driver's answers *)

\* A driver call of the task in slot c resolved; PREPARE's stops the watchdog
\* and starts the watch on the window.
IMChainAnswers(c) ==
  /\ imUp
  /\ imChain[c].at \notin {"idle", "observe", "CLEAR_HIGHLIGHT", "CLEANUP"}
  /\ UNCHANGED imClosed
  /\ LET f == imChain[c] IN
     \E a \in IMAnswers(f) :
       LET r == IMAnswered(f, a) IN
       /\ IMBecomes(r)
       /\ imDog' = (imDog /\ f # IMJust("PREPARE"))
       /\ imOpen' = (imOpen \/ f = IMJust("PREPARE"))
       /\ IMDrive(c, r.next, imParkDrives)
  /\ UNCHANGED <<imStarted, imShut, imUpsets>>

\* The highlight is cleared or the page cleaned up: the task ends.
IMChainEnds(c) ==
  /\ imUp
  /\ imChain[c].at \in {"CLEAR_HIGHLIGHT", "CLEANUP"}
  /\ IMBecomes(IMNow)
  /\ UNCHANGED imClosed
  /\ IMDrive(c, IMNothing, imParkDrives)
  /\ UNCHANGED <<imStarted, imOpen, imDog, imShut, imUpsets>>

\* The observation is armed: the task ends and leaves a barrier watcher behind.
IMChainObserves(c) ==
  /\ imUp
  /\ imChain[c].at = "observe"
  /\ IF imStage = IMAt("WAIT_FOR", imChain[c].on)
     THEN imWatch' = TRUE /\ UNCHANGED imStale
     ELSE imStale' = TRUE /\ UNCHANGED imWatch
  /\ UNCHANGED <<imStage, imApply, imGate, imClosed>>
  /\ IMDrive(c, IMNothing, imParkDrives)
  /\ UNCHANGED <<imStarted, imOpen, imDog, imShut, imUpsets>>

\* onDriveError(): a reliability failure parks the run, anything else fails it;
\* a finished run stays.
IMChainRejects(c) ==
  /\ imUp /\ IMUpset
  /\ imChain[c] # IMIdle
  /\ UNCHANGED imClosed
  /\ \E s \in IF imStage \in IMTerminal THEN {imStage.at} ELSE {"SURFACE_BLOCKED", "FAILED"} :
       IMBecomes(IMParkAt(s))
  /\ imDog' = FALSE
  /\ IMDrive(c, IMNothing, imParkDrives)
  /\ UNCHANGED <<imStarted, imOpen, imShut>>

-----------------------------------------------------------------------------
(* The watchers *)

\* watchBarrier(): the seller acted at the barrier.  A watcher left behind acts too when
\* the run is back at its barrier; which barrier that was is not kept.
IMSellerActs(c) ==
  /\ imUp
  /\ imWatch \/ (imStale /\ imStage.at = "WAIT_FOR")
  /\ UNCHANGED imClosed
  /\ IMTask(c, IMAdvanceAfterBarrier(imStage.on), imParkDrives)
  /\ UNCHANGED <<imStarted, imOpen, imShut, imUpsets>>

\* The watchers left behind end: they saw that the run is elsewhere, or the
\* seller acted where they wait, which drives nothing but clears autoBusy.
IMStaleEnds ==
  /\ imUp /\ imStale
  /\ imStale' = FALSE
  /\ imBusy' \in {imBusy, FALSE}
  /\ UNCHANGED <<imUp, imStarted, imStage, imApply, imGate, imChain, imWatch, imParkWatch,
                 imParkDrives, imClosed, imOpen, imDog, imShut, imUpsets>>

\* watchPark(): the signal it waits for came.
IMParkWaits == imUp /\ imParkWatch # "none" /\ imParkDrives = 0
IMParkHolds == imStage = IMJust(imParkWatch) /\ ~imClosed
IMParkLooks(c) ==
  /\ IMParkWaits /\ IMParkHolds
  /\ ~imBusy
  /\ UNCHANGED imClosed
  /\ IMTask(c, IMRecheck, c)
  /\ UNCHANGED <<imStarted, imOpen, imShut, imUpsets>>
\* (Broken variant: the loop that ends hands the watch to nobody.)
IMParkLeavesNobody ==
  /\ IMParkWaits /\ ~IMParkHolds
  /\ imParkWatch' = "none"
  /\ UNCHANGED <<imUp, imStarted, imStage, imClosed, imApply, imGate, imChain, imWatch,
                 imStale, imParkDrives, imBusy, imOpen, imDog, imShut, imUpsets>>

IMParkLeaves ==
  /\ IMParkWaits /\ ~IMParkHolds
  /\ UNCHANGED <<imStage, imClosed>>
  /\ IMWatchPark("none")
  /\ UNCHANGED <<imStarted, imApply, imGate, imChain, imWatch, imStale, imParkDrives,
                 imBusy, imOpen, imDog, imShut, imUpsets>>

\* A run that is not over is parked by something that happens to it.
IMParked ==
  /\ imUp /\ IMUpset
  /\ imStage \notin IMTerminal
  /\ IMBecomes(IMParkAt("SURFACE_BLOCKED"))
  /\ IMPublish
  /\ UNCHANGED imStarted

\* The PREPARE watchdog; off PREPARE_SESSION it does nothing.
IMDogBites ==
  /\ imDog
  /\ imStage = IMJust("PREPARE_SESSION")
  /\ imDog' = FALSE
  /\ UNCHANGED <<imClosed, imOpen, imShut>>
  /\ IMParked

\* onSurfaceClosed(): the seller shut the watched window.
IMWindowCloses ==
  /\ imOpen
  /\ imOpen' = FALSE
  /\ imClosed' = TRUE
  /\ imShut' = TRUE
  /\ UNCHANGED imDog
  /\ IMParked

\* A guidance pack that fails its validation, also before START_RUN.
IMPackRejected == UNCHANGED <<imClosed, imOpen, imDog, imShut>> /\ IMParked

IMNext ==
  \/ \E c \in IMSlots :
       \/ IMStartRun(c) \/ IMPauseRun(c) \/ IMResumeRun(c) \/ IMCancelRun(c)
       \/ IMRecheckStep(c) \/ IMStartAgain(c)
       \/ IMChainAnswers(c) \/ IMChainEnds(c) \/ IMChainObserves(c) \/ IMChainRejects(c)
       \/ IMSellerActs(c) \/ IMParkLooks(c)
  \/ IMStaleEnds \/ IMParkLeaves \/ IMDogBites \/ IMWindowCloses \/ IMPackRejected

\* Driver calls settle; the timers of the park watcher run, but where the
\* surface has an apply control a scope park waits for the seller's own press.
IMCallEnds(c) == IMChainAnswers(c) \/ IMChainEnds(c) \/ IMChainObserves(c)
IMParkProbes ==
  /\ imStage = IMJust("SCOPE_BLOCKED") => ~imApply
  /\ \E c \in IMSlots : IMParkLooks(c)
IMFairness ==
  /\ \A c \in IMSlots : WF_imVars(IMCallEnds(c))
  /\ WF_imVars(IMParkLeaves)
  /\ WF_imVars(IMParkProbes)

IMSpec == IMInit /\ [][IMNext]_imVars /\ IMFairness

-----------------------------------------------------------------------------
(* Properties *)

IMTypeOK ==
  /\ imUp \in BOOLEAN /\ imStarted \in BOOLEAN /\ imStage \in IMStages /\ imApply \in BOOLEAN
  /\ imGate \in {"holds", "open", "overrun"}
  /\ imChain \in [IMSlots -> IMEffects \cup {IMIdle}]
  /\ imWatch \in BOOLEAN /\ imStale \in BOOLEAN
  /\ imParkWatch \in {"none", "SESSION_BLOCKED", "SURFACE_BLOCKED", "SCOPE_BLOCKED"}
  /\ imParkDrives \in IMSlots \cup {0}
  /\ imBusy \in BOOLEAN /\ imClosed \in BOOLEAN /\ imOpen \in BOOLEAN /\ imDog \in BOOLEAN
  /\ imShut \in BOOLEAN /\ imUpsets \in 0..IMMaxUpsets

\* "A park cannot be entered without a watcher": from whatever task a run parks,
\* a loop owns the park watch.
IMParkIsWatched == (imUp /\ imStage \in IMParks) => imParkWatch # "none"

\* "A status that claims we are waiting has to mean we are actually watching":
\* a run at a barrier has a task that waits for the seller there, or one that is
\* about to, as long as no window was shut (a chain that answers after that moves
\* the run to a barrier and drives nothing).
IMWaitIsWatched ==
  (imUp /\ ~imShut /\ imStage.at = "WAIT_FOR") =>
    \/ imWatch
    \/ \E c \in IMSlots : imChain[c] = IMAt("observe", imStage.on)

\* A started run that finished stays finished, whatever answers, watchers and
\* commands still arrive.
IMTerminalStays == [][(imStarted /\ imStage \in IMTerminal) => (imStage' = imStage)]_imVars

\* The scope gate: a run stands before the export, at the file or behind it only where
\* the last verdict that came was a match, or the seller has confirmed an unreadable
\* range since, whatever was paused, parked or rechecked.  The exception is what the
\* code does with a call past the gate that was in flight when a later verdict refused:
\* its answer carries the run on.
IMIngestNeedsGate == IMPastGate(imStage) => imGate # "holds"

\* The session owes the run a look: it is parked on its session or its surface,
\* and its window was not shut.
IMAwaitsProbe ==
  imUp /\ ~imClosed /\ imStage \in {IMJust("SESSION_BLOCKED"), IMJust("SURFACE_BLOCKED")}

=============================================================================
