------------------------------ MODULE AgentRun ------------------------------
(***************************************************************************)
(* A checkpointed run of the agent runtime: it prepares a reply draft, parks *)
(* on a person's approval, and a later HTTP request resumes it               *)
(* (agent-runtime: http/AgentRunService.ts, runtime.ts, reviewRuntime.ts,    *)
(* graph/performRecord.ts, graph/performReviewRecord.ts, and the client of   *)
(* the run store, spring/AgentRunStateClient.ts).                            *)
(*                                                                          *)
(* Each request builds its own runtime, so every resume goes through the     *)
(* durable path; it holds nothing but its lease on the run's row, and each   *)
(* call of the backend is a step of its own.  Between two of them another    *)
(* resume of the same run, a person at the workspace, a redeployment of the  *)
(* backend or the end of the lease may come.                                 *)
(*                                                                          *)
(* Abstracted: what a draft says, of which text stands for title, body and   *)
(* fingerprint together; the proposal of an inquiry, which is idempotent and *)
(* never undone; trails and logs.                                            *)
(***************************************************************************)
EXTENDS Naturals, FiniteSets

CONSTANTS
  ARCalls,     \* resume requests for the run
  ARTexts,     \* reply texts
  ARNone,      \* null
  ARMaxPerson, \* bound: acts of people at the workspace, and redeployments
  ARMaxFaults  \* bound: calls that die, or whose backend call fails

ASSUME ARAssumption ==
  /\ ARNone \notin ARTexts \cup {"APPROVED", "REJECTED"}
  /\ ARNone \notin [version : Nat, text : ARTexts \cup {ARNone}]
  /\ ARNone \notin [text : ARTexts, by : ARCalls]
  /\ ARMaxPerson \in Nat /\ ARMaxFaults \in Nat

VARIABLES
  arDomain,    \* "INQUIRY" or "REVIEW"
  arLive,      \* the backend has reply adapters registered: it can send
  arHead,      \* the head of the reply drafts: version 0 is none
  arApproval,  \* the standing approval, or ARNone
  arCommanded, \* the run's approval command was applied
  arMints,     \* guided-session refs minted by the run
  arSnap,      \* the draft the checkpoint showed
  arRow,       \* the run's row in the run store
  arCall,      \* the resume requests
  arPerson,    \* acts of people and redeployments so far
  arFaults,    \* faults so far
  arBound,     \* history: the text the run's command bound, and the request that did
  arLapse      \* history: some lease has run out

arVars == <<arDomain, arLive, arHead, arApproval, arCommanded, arMints, arSnap, arRow,
            arCall, arPerson, arFaults, arBound, arLapse>>
arBackend == <<arHead, arApproval, arCommanded, arMints, arBound>>
arWorld == <<arDomain, arLive, arSnap, arPerson, arFaults, arLapse>>

ARDraft == [version : Nat, text : ARTexts \cup {ARNone}]
AROutcomes == {ARNone, "APPROVED", "REJECTED"}
ARRows == [status : {"none", "AWAITING_APPROVAL", "RESUMING", "DONE"}, version : Nat,
           lapsed : BOOLEAN, outcome : AROutcomes]
ARRequests ==
  [pc : {"new", "load", "detail", "head", "save_draft", "confirm", "approve", "mint",
         "save", "ended"},
   approved : BOOLEAN, edit : ARTexts \cup {ARNone}, version : Nat,
   text : ARTexts \cup {ARNone}, base : Nat, outcome : AROutcomes]
ARNoDraft == [version |-> 0, text |-> ARNone]

ARRequest == [pc |-> "new", approved |-> FALSE, edit |-> ARNone, version |-> 0,
              text |-> ARNone, base |-> 0, outcome |-> ARNone]

ARInit ==
  /\ arDomain \in {"INQUIRY", "REVIEW"}
  /\ arLive = FALSE
  /\ arHead = ARNoDraft
  /\ arApproval = ARNone
  /\ arCommanded = FALSE
  /\ arMints = 0
  /\ arSnap = ARNoDraft
  /\ arRow = [status |-> "none", version |-> 0, lapsed |-> FALSE, outcome |-> ARNone]
  /\ arCall = [c \in ARCalls |-> ARRequest]
  /\ arPerson = 0
  /\ arFaults = 0
  /\ arBound = ARNone
  /\ arLapse = FALSE

ARGoto(c, pc) == arCall' = [arCall EXCEPT ![c].pc = pc]
AREnd(c) == ARGoto(c, "ended")
ARAt(c, pc) == arCall[c].pc = pc

\* A new head, on the version its writer has read; an approval freezes drafts.
ARCanSave(base) == arApproval = ARNone /\ base = arHead.version
ARNewHead(t) == [version |-> arHead.version + 1, text |-> t]

-----------------------------------------------------------------------------
(* Start: the graph up to its checkpoint, then the row *)

\* The draft the checkpoint shows: the head there is, or a new one.
ARPrepare ==
  /\ arRow.status = "none"
  /\ arSnap = ARNoDraft
  /\ ~arLive
  /\ \/ arHead.version > 0 /\ arSnap' = arHead /\ UNCHANGED arHead
     \/ /\ ARCanSave(IF arDomain = "REVIEW" THEN 0 ELSE arHead.version)
        /\ \E t \in ARTexts : arHead' = ARNewHead(t)
        /\ arSnap' = arHead'
  /\ UNCHANGED <<arDomain, arLive, arApproval, arCommanded, arMints, arRow, arCall,
                 arPerson, arFaults, arBound, arLapse>>

\* An inquiry the composer abstains on parks without a draft.
ARPark ==
  /\ arRow.status = "none"
  /\ arDomain = "REVIEW" => arSnap # ARNoDraft
  /\ arRow' = [arRow EXCEPT !.status = "AWAITING_APPROVAL", !.version = 1]
  /\ UNCHANGED <<arWorld, arBackend, arCall>>

-----------------------------------------------------------------------------
(* Resume (AgentRunService.resume, resumeFromDurable) *)

\* (Broken variant: a run another request holds can be claimed too.)
ARClaimableAlways == arRow.status \in {"AWAITING_APPROVAL", "RESUMING"}

\* claim(): the run leaves the claimable state, or a lapsed claim is taken over.
ARClaimable ==
  \/ arRow.status = "AWAITING_APPROVAL"
  \/ arRow.status = "RESUMING" /\ arRow.lapsed

\* The check that the backend cannot send, then the claim; a finished run goes
\* on to its replay, a run another request holds is refused.  Only an approval of
\* an inquiry reads the operator's own text.
ARClaim(c, approved, edit) ==
  /\ ARAt(c, "new")
  /\ arRow.status # "none"
  /\ edit # ARNone => approved /\ arDomain = "INQUIRY"
  /\ arCall' = [arCall EXCEPT ![c].approved = approved, ![c].edit = edit,
       ![c].pc = IF ~arLive /\ (ARClaimable \/ arRow.status = "DONE") THEN "load" ELSE "ended"]
  /\ arRow' = IF ~arLive /\ ARClaimable
              THEN [arRow EXCEPT !.status = "RESUMING", !.version = @ + 1, !.lapsed = FALSE]
              ELSE arRow
  /\ UNCHANGED <<arWorld, arBackend>>

\* (Broken variant: a run that is done is performed again instead of replayed.)
ARLoadPerforms(c) ==
  /\ ARAt(c, "load")
  /\ IF arLive THEN AREnd(c)
     ELSE arCall' = [arCall EXCEPT
            ![c].version = arRow.version,
            ![c].outcome = IF arCall[c].approved THEN "APPROVED" ELSE "REJECTED",
            ![c].pc = CASE arDomain = "INQUIRY" -> "detail"
                        [] arDomain = "REVIEW" /\ arCall[c].approved -> "approve"
                        [] OTHER -> "save"]
  /\ UNCHANGED <<arWorld, arBackend, arRow>>

\* The check again, then the load, which notes the version the save will name.
ARLoad(c) ==
  /\ ARAt(c, "load")
  /\ IF arLive \/ arRow.status = "DONE" THEN AREnd(c)
     ELSE arCall' = [arCall EXCEPT
            ![c].version = arRow.version,
            ![c].outcome = IF arCall[c].approved THEN "APPROVED" ELSE "REJECTED",
            ![c].pc = CASE arDomain = "INQUIRY" -> "detail"
                        [] arDomain = "REVIEW" /\ arCall[c].approved -> "approve"
                        [] OTHER -> "save"]
  /\ UNCHANGED <<arWorld, arBackend, arRow>>

\* (Broken variant: whatever head there is stands for the one that was shown.)
ARSawSomeHead == arHead.version > 0

\* The saved draft read back is the one the checkpoint showed.
ARSawHead == arHead.version > 0 /\ arSnap.text # ARNone /\ arHead.text = arSnap.text

\* (Broken variant: a changed draft ends the resume as if it had been performed.)
ARDetailSaves(c) ==
  /\ ARAt(c, "detail")
  /\ LET q == arCall[c] IN
     IF ~q.approved \/ (q.edit = ARNone /\ ~ARSawHead) THEN ARGoto(c, "save")
     ELSE arCall' = [arCall EXCEPT ![c].pc = "head",
                       ![c].text = IF q.edit = ARNone THEN arHead.text ELSE q.edit]
  /\ UNCHANGED <<arWorld, arBackend, arRow>>

\* GET_DETAIL: an approval without a text of its own is refused (DRAFT_CHANGED)
\* unless the head is the draft it was given on; the claim is not given back.
ARDetail(c) ==
  /\ ARAt(c, "detail")
  /\ LET q == arCall[c] IN
     IF ~q.approved THEN ARGoto(c, "save")
     ELSE IF q.edit = ARNone /\ ~ARSawHead THEN AREnd(c)
     ELSE arCall' = [arCall EXCEPT ![c].pc = "head",
                       ![c].text = IF q.edit = ARNone THEN arHead.text ELSE q.edit]
  /\ UNCHANGED <<arWorld, arBackend, arRow>>

-----------------------------------------------------------------------------
(* performRecord *)

\* The head is read again: an identical one is reused.
ARReadHead(c) ==
  /\ ARAt(c, "head")
  /\ arCall' = [arCall EXCEPT ![c].base = arHead.version,
       ![c].pc = IF arHead.version > 0 /\ arHead.text = arCall[c].text
                 THEN "confirm" ELSE "save_draft"]
  /\ UNCHANGED <<arWorld, arBackend, arRow>>

ARSaveDraft(c) ==
  /\ ARAt(c, "save_draft")
  /\ IF ARCanSave(arCall[c].base)
     THEN arHead' = ARNewHead(arCall[c].text) /\ ARGoto(c, "confirm")
     ELSE UNCHANGED arHead /\ AREnd(c)
  /\ UNCHANGED <<arWorld, arApproval, arCommanded, arMints, arBound, arRow>>

\* (Broken variant: the command names the checkpoint's draft, which need not be.)
ARApplySnapshot(c) ==
  /\ arApproval' = arHead
  /\ arCommanded' = TRUE
  /\ arBound' = [text |-> arSnap.text, by |-> c]

\* The run's command takes effect.
ARApply(c) ==
  /\ arApproval' = arHead
  /\ arCommanded' = TRUE
  /\ arBound' = [text |-> arHead.text, by |-> c]

ARReplays(c) == arCommanded /\ arBound.text = arCall[c].text
ARCanConfirm(c) == arApproval = ARNone /\ arHead.text = arCall[c].text /\ arLive

\* confirm-publish with the run's own command and the fingerprint it saved or
\* reused: a replay, a first binding of the head, or a conflict.  An approval
\* nothing could carry to the channel is refused too.
ARConfirm(c) ==
  /\ ARAt(c, "confirm")
  /\ IF ARReplays(c) THEN ARGoto(c, "save") /\ UNCHANGED <<arApproval, arCommanded, arBound>>
     ELSE IF ARCanConfirm(c) THEN ARApply(c) /\ ARGoto(c, "save")
     ELSE AREnd(c) /\ UNCHANGED <<arApproval, arCommanded, arBound>>
  /\ UNCHANGED <<arWorld, arHead, arMints, arRow>>

-----------------------------------------------------------------------------
(* performReviewRecord *)

\* The approval of the version the checkpoint showed, with the run's command.
ARCanApprove == arApproval = ARNone /\ arHead.version = arSnap.version
ARApprove(c) ==
  /\ ARAt(c, "approve")
  /\ IF arCommanded THEN ARGoto(c, "mint") /\ UNCHANGED <<arApproval, arCommanded, arBound>>
     ELSE IF ARCanApprove THEN ARApply(c) /\ ARGoto(c, "mint")
     ELSE AREnd(c) /\ UNCHANGED <<arApproval, arCommanded, arBound>>
  /\ UNCHANGED <<arWorld, arHead, arMints, arRow>>

\* The guided session: every call mints a ref, if an approval stands.
ARMint(c) ==
  /\ ARAt(c, "mint")
  /\ IF arApproval = ARNone THEN AREnd(c) /\ UNCHANGED arMints
     ELSE ARGoto(c, "save") /\ arMints' = arMints + 1
  /\ UNCHANGED <<arWorld, arHead, arApproval, arCommanded, arBound, arRow>>

-----------------------------------------------------------------------------
(* The end of a resume, and everything that comes between *)

\* (Broken variant: the row is written whatever its version.)
ARSaveBlind(c) ==
  /\ ARAt(c, "save")
  /\ arRow' = [arRow EXCEPT !.status = "DONE", !.version = @ + 1,
                            !.outcome = arCall[c].outcome]
  /\ AREnd(c)
  /\ UNCHANGED <<arWorld, arBackend>>

\* The row is written if its version is the one the load noted.
ARSave(c) ==
  /\ ARAt(c, "save")
  /\ arRow' = IF arRow.version = arCall[c].version
              THEN [arRow EXCEPT !.status = "DONE", !.version = @ + 1,
                                 !.outcome = arCall[c].outcome]
              ELSE arRow
  /\ AREnd(c)
  /\ UNCHANGED <<arWorld, arBackend>>

\* The process dies, or a backend call fails or its answer is lost.
ARDies(c) ==
  /\ arCall[c].pc \notin {"new", "ended"}
  /\ arFaults < ARMaxFaults
  /\ arFaults' = arFaults + 1
  /\ AREnd(c)
  /\ UNCHANGED <<arDomain, arLive, arSnap, arPerson, arLapse, arBackend, arRow>>

\* Two minutes pass since the claim, whether or not its holder is alive.
ARLeaseLapses ==
  /\ arRow.status = "RESUMING" /\ ~arRow.lapsed
  /\ arRow' = [arRow EXCEPT !.lapsed = TRUE]
  /\ arLapse' = TRUE
  /\ UNCHANGED <<arDomain, arLive, arSnap, arPerson, arFaults, arBackend, arCall>>

\* EXTERNAL: people at the workspace save, approve and withdraw with commands of
\* their own; the backend is redeployed with or without its adapters.
ARPersonSaves == ARCanSave(arHead.version) /\ (\E t \in ARTexts : arHead' = ARNewHead(t))
                   /\ UNCHANGED <<arApproval, arLive>>
ARPersonApproves ==
  /\ arApproval = ARNone /\ arHead.version > 0
  /\ arDomain = "INQUIRY" => arLive
  /\ arApproval' = arHead
  /\ UNCHANGED <<arHead, arLive>>
ARPersonWithdraws ==
  /\ arDomain = "REVIEW" /\ arApproval # ARNone
  /\ arApproval' = ARNone
  /\ UNCHANGED <<arHead, arLive>>
ARRedeploys == arLive' = ~arLive /\ UNCHANGED <<arHead, arApproval>>
ARPeople ==
  /\ arPerson < ARMaxPerson
  /\ arPerson' = arPerson + 1
  /\ ARPersonSaves \/ ARPersonApproves \/ ARPersonWithdraws \/ ARRedeploys
  /\ UNCHANGED <<arDomain, arCommanded, arMints, arSnap, arRow, arCall, arFaults, arBound, arLapse>>

ARNext ==
  \/ ARPrepare \/ ARPark
  \/ \E c \in ARCalls :
       \/ \E approved \in BOOLEAN, edit \in ARTexts \cup {ARNone} : ARClaim(c, approved, edit)
       \/ ARLoad(c) \/ ARDetail(c) \/ ARReadHead(c) \/ ARSaveDraft(c) \/ ARConfirm(c)
       \/ ARApprove(c) \/ ARMint(c) \/ ARSave(c) \/ ARDies(c)
  \/ ARLeaseLapses \/ ARPeople

ARSpec == ARInit /\ [][ARNext]_arVars

-----------------------------------------------------------------------------
(* What a run promises *)

Contract == INSTANCE RunContract WITH
  Texts <- ARTexts, None <- ARNone,
  shown <- arSnap.text,
  written <- {arCall[c].edit : c \in ARCalls} \ {ARNone},
  bound <- IF arCommanded THEN arBound.text ELSE ARNone,
  outcome <- arRow.outcome

-----------------------------------------------------------------------------
(* Properties *)

ARTypeOK ==
  /\ arDomain \in {"INQUIRY", "REVIEW"} /\ arLive \in BOOLEAN
  /\ arHead \in ARDraft /\ arSnap \in ARDraft
  /\ arApproval \in ARDraft \cup {ARNone}
  /\ arCommanded \in BOOLEAN /\ arMints \in Nat
  /\ arRow \in ARRows
  /\ arCall \in [ARCalls -> ARRequests]
  /\ arPerson \in 0..ARMaxPerson /\ arFaults \in 0..ARMaxFaults
  /\ arBound \in [text : ARTexts, by : ARCalls] \cup {ARNone} /\ arLapse \in BOOLEAN

\* The text the run's command binds is the one its checkpoint showed, or the one
\* the very request that binds it wrote, however the draft was edited between, and whatever an
\* earlier resume left behind when it died.
ARApprovedTextWasRead ==
  arBound # ARNone =>
    arBound.text \in {arSnap.text, arCall[arBound.by].edit}

\* A run recorded as approved has had its approval command applied.
ARDoneIsBound == (arRow.status = "DONE" /\ arRow.outcome = "APPROVED") => arCommanded

\* A finished run is never reopened, nor its outcome replaced by that of a resume
\* that lost its lease and ends later.
ARDoneStays == [][(arRow.status = "DONE") => (arRow' = arRow)]_arVars

\* Whatever requests race, die or outlive their lease, AgentRunService with its two
\* performRecords does what the contract of a run allows: one text is bound, once, after
\* it was shown or written, and one outcome is recorded, approved only if bound.
ImplementsRunContract == Contract!Spec

\* "Same-checkpoint double-resume, concurrent: one 200, one 409": as long as no
\* lease ran out, however many resumes raced, one guided session was minted.
ARMintOnceWhileLeased == ~arLapse => arMints <= 1

=============================================================================
