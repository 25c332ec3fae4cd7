------------------------ MODULE InquiryPublishProofs ------------------------
(***************************************************************************)
(* Proofs about InquiryPublish, for any sets of seller threads, jobs,      *)
(* texts, commands and corrections and any value of the bounds: types,     *)
(* the approval of what goes out, and the truth of what is called          *)
(* answered.                                                               *)
(***************************************************************************)
EXTENDS InquiryPublish, FiniteSetTheorems, TLAPS

\* A request that is about to copy its outcome to the work item holds one of the two
\* statuses that are phases as well.
PhaseStep == \A r \in Requests : pc[r] = "phase" => x[r].status \in {"EXECUTED", "FAILED"}

LEMMA NoCandidateType == NoCandidate \in Candidates
BY TextsAssumption, CommandsAssumption DEF NoCandidate, Candidates

LEMMA RowConstants == /\ NoExecution \in Executions
                      /\ Pending \in Executions
                      /\ FreshInquiry \in Inquiries
                      /\ [FreshInquiry EXCEPT !.sendable = FALSE] \in Inquiries
BY DEF NoExecution, Pending, FreshInquiry, Executions, Inquiries, Statuses, Reasons

\* The local state of the requests has its types.
LocalsOK ==
  /\ pc \in [Requests -> Steps]
  /\ cand \in [Requests -> Candidates]
  /\ x \in [Requests -> Executions]
  /\ q \in [Requests -> Inquiries]
  /\ outcome \in [Requests -> Outcomes]
  /\ PhaseStep

\* Everything that is not local to a request has its type.
RowsOK ==
  /\ phase \in Phases
  /\ drafts \in Seq(Texts)
  /\ approvals \subseteq Approvals
  /\ execution \in Executions
  /\ inquiry \in Inquiries
  /\ audited \subseteq Nat
  /\ rearms \subseteq (Reasons \X Corrections) /\ IsFiniteSet(rearms)
  /\ posted \in Seq(Texts)
  /\ elsewhere \in BOOLEAN
  /\ live \in BOOLEAN
  /\ boot \in {"done", "scan", "save"}
  /\ bootx \in Executions
  /\ crashes \in Nat
  /\ deaths \in Nat

\* The inductive form of TypeOK, in two halves because an ending request touches only
\* the locals and most steps only one row.
TInv == RowsOK /\ LocalsOK

LEMMA TypeOKFollows == TInv => TypeOK
BY DEF TInv, RowsOK, LocalsOK, TypeOK

\* Going to another call, or ending, with the copies dropped.
LEMMA DropKeepsLocals ==
  ASSUME LocalsOK, NEW r \in Requests, NEW s \in Steps, s # "phase", Goto(r, s), Drop(r)
  PROVE  LocalsOK'
BY NoCandidateType, RowConstants
   DEF LocalsOK, PhaseStep, Drop, Goto, Steps, Outcomes

LEMMA FinishKeepsLocals ==
  ASSUME LocalsOK, NEW r \in Requests, Finish(r)
  PROVE  LocalsOK'
BY DropKeepsLocals DEF Finish, Steps

\* Going to another call with another copy of the inquiry.
LEMMA InquiryCopyKeepsLocals ==
  ASSUME LocalsOK, NEW r \in Requests, NEW s \in Steps, s # "phase", NEW row \in Inquiries,
         Goto(r, s), q' = [q EXCEPT ![r] = row], UNCHANGED <<cand, x, outcome>>
  PROVE  LocalsOK'
BY DEF LocalsOK, PhaseStep, Goto, Steps

\* Going to another call with the copies kept, unless that call is "phase".
LEMMA GotoKeepsLocals ==
  ASSUME LocalsOK, NEW r \in Requests, NEW s \in Steps, s # "phase",
         Goto(r, s), KeepCopies
  PROVE  LocalsOK'
BY DEF LocalsOK, PhaseStep, Goto, KeepCopies, Steps

\* A CONFIRMED or refused answer leaves a status that is a phase, and every answer
\* leaves an execution row.
LEMMA AfterOutcomeType ==
  ASSUME NEW row \in Executions, NEW o \in Outcomes
  PROVE  /\ AfterOutcome(row, o) \in Executions
         /\ o = "CONFIRMED" => AfterOutcome(row, o).status = "EXECUTED"
         /\ o = "PERMANENT_FAILURE" => AfterOutcome(row, o).status = "FAILED"
         /\ o = "DELIVERY_UNKNOWN" => AfterOutcome(row, o).status = "DELIVERY_UNKNOWN"
         /\ o = "RETRYABLE_FAILURE" => AfterOutcome(row, o).status = "ACTION_PENDING"
<1>1. CASE o = "CONFIRMED"
  BY <1>1 DEF AfterOutcome, Executions, Statuses, Reasons
<1>2. CASE o = "PERMANENT_FAILURE"
  BY <1>2 DEF AfterOutcome, Executions, Statuses, Reasons
<1>3. CASE o = "DELIVERY_UNKNOWN"
  BY <1>3 DEF AfterOutcome, Executions, Statuses, Reasons
<1>4. CASE o = "RETRYABLE_FAILURE"
  BY <1>4 DEF AfterOutcome, Executions, Statuses, Reasons
<1> QED BY <1>1, <1>2, <1>3, <1>4 DEF Outcomes

LEMMA AttemptType == TInv => Attempt \in Nat
<1> SUFFICES ASSUME TInv PROVE Attempt \in Nat
  OBVIOUS
<1>1. Cardinality(rearms) \in Nat
  BY FS_CardinalityType DEF TInv, RowsOK
<1> QED BY <1>1 DEF Attempt

-----------------------------------------------------------------------------
(* Type correctness.                                                         *)

LEMMA InitType == Init => TInv
<1> SUFFICES ASSUME Init PROVE TInv
  OBVIOUS
<1>1. IsFiniteSet(rearms) /\ rearms \subseteq (Reasons \X Corrections)
  BY FS_EmptySet DEF Init
<1>2. PhaseStep BY DEF Init, PhaseStep
<1>3. inquiry \in Inquiries /\ execution \in Executions /\ bootx \in Executions
  BY RowConstants DEF Init
<1>4. /\ pc \in [Requests -> Steps]
      /\ cand \in [Requests -> Candidates]
      /\ x \in [Requests -> Executions]
      /\ q \in [Requests -> Inquiries]
      /\ outcome \in [Requests -> Outcomes]
  BY NoCandidateType, RowConstants DEF Init, Steps, Outcomes
<1>5. drafts \in Seq(Texts) /\ posted \in Seq(Texts)
  BY DEF Init
<1> QED
  BY <1>1, <1>2, <1>3, <1>4, <1>5 DEF Init, TInv, RowsOK, LocalsOK, Phases

\* The detached copies and the rows that replace one another keep their types.
LEMMA RowUpdates ==
  ASSUME NEW row \in Executions, NEW i \in Inquiries, NEW said \in BOOLEAN,
         NEW stamped \in BOOLEAN, NEW reply \in BOOLEAN
  PROVE  /\ [row EXCEPT !.status = "FAILED", !.reason = "CONTRADICTED"] \in Executions
         /\ [row EXCEPT !.status = "DISPATCHING"] \in Executions
         /\ [row EXCEPT !.status = "DELIVERY_UNKNOWN"] \in Executions
         /\ [row EXCEPT !.status = "COMPLETED"] \in Executions
         /\ FromSource(i, said, stamped, reply) \in Inquiries
         /\ [i EXCEPT !.sendable = FALSE] \in Inquiries
         /\ [i EXCEPT !.answered = TRUE, !.stamp = IF @ = "none" THEN "ours" ELSE @] \in Inquiries
BY DEF Executions, Inquiries, Statuses, Reasons, FromSource

LEMMA EditDraftType ==
  ASSUME TInv, NEW r \in Requests, NEW t \in Texts, EditDraft(r, t)
  PROVE  TInv'
<1>1. RowsOK'
  BY DEF TInv, EditDraft, RowsOK, rows, channel, server, locals
<1>2. LocalsOK'
  <2>1. Len(drafts) + 1 \in Nat
    BY DEF TInv, RowsOK
  <2>2. cand' \in [Requests -> Candidates]
    BY <2>1 DEF TInv, LocalsOK, EditDraft, Candidates
  <2> QED BY <2>2 DEF TInv, EditDraft, LocalsOK, PhaseStep, Goto, Steps
<1> QED BY <1>1, <1>2 DEF TInv

LEMMA InsertDraftType ==
  ASSUME TInv, NEW r \in Requests, InsertDraft(r)
  PROVE  TInv'
<1>1. RowsOK'
  BY DEF TInv, InsertDraft, RowsOK, LocalsOK, Candidates, channel, server
<1>2. LocalsOK'
  <2>1. Finish(r) BY DEF InsertDraft
  <2> QED BY <2>1, FinishKeepsLocals DEF TInv
<1> QED BY <1>1, <1>2 DEF TInv

LEMMA ConfirmFirstType ==
  ASSUME TInv, NEW r \in Requests, NEW c \in Commands, NEW t \in Texts, ConfirmFirst(r, c, t)
  PROVE  TInv'
<1>1. RowsOK'
  BY DEF TInv, ConfirmFirst, RowsOK, rows, channel, server, locals
<1>2. LocalsOK'
  BY DEF TInv, ConfirmFirst, RowsOK, LocalsOK, PhaseStep, Goto, Steps, Candidates
<1> QED BY <1>1, <1>2 DEF TInv

LEMMA ConfirmReplayType ==
  ASSUME TInv, NEW r \in Requests, NEW c \in Commands, NEW t \in Texts, ConfirmReplay(r, c, t)
  PROVE  TInv'
<1>1. RowsOK'
  BY DEF TInv, ConfirmReplay, RowsOK, rows, channel, server, locals
<1>2. LocalsOK'
  <2>1. Goto(r, "read") /\ KeepCopies BY DEF ConfirmReplay
  <2>2. "read" \in Steps /\ "read" # "phase" BY DEF Steps
  <2> QED BY <2>1, <2>2, GotoKeepsLocals DEF TInv
<1> QED BY <1>1, <1>2 DEF TInv

LEMMA BindRefusedType ==
  ASSUME TInv, NEW r \in Requests, BindRefused(r)
  PROVE  TInv'
<1>1. RowsOK'
  BY DEF TInv, BindRefused, RowsOK, rows, channel, server, locals
<1>2. LocalsOK'
  <2>1. Finish(r) BY DEF BindRefused
  <2> QED BY <2>1, FinishKeepsLocals DEF TInv
<1> QED BY <1>1, <1>2 DEF TInv

LEMMA ReadPendingType ==
  ASSUME TInv, NEW r \in Requests, ReadPending(r)
  PROVE  TInv'
<1>1. RowsOK'
  BY DEF TInv, ReadPending, RowsOK, rows, channel, server, locals
<1>2. LocalsOK'
  BY DEF TInv, ReadPending, LocalsOK, PhaseStep, Goto, Steps, RowsOK
<1> QED BY <1>1, <1>2 DEF TInv

LEMMA NothingPendingType ==
  ASSUME TInv, NEW r \in Requests, NothingPending(r)
  PROVE  TInv'
<1>1. RowsOK'
  BY DEF TInv, NothingPending, RowsOK, rows, channel, server, locals
<1>2. LocalsOK'
  <2>1. Finish(r) BY DEF NothingPending
  <2> QED BY <2>1, FinishKeepsLocals DEF TInv
<1> QED BY <1>1, <1>2 DEF TInv

LEMMA RecordRefusalType ==
  ASSUME TInv, NEW r \in Requests, RecordRefusal(r)
  PROVE  TInv'
<1>1. RowsOK'
  BY RowUpdates DEF TInv, RecordRefusal, RowsOK, rows, channel, server, locals, LocalsOK
<1>2. LocalsOK'
  <2>1. Goto(r, "refusedPhase") /\ Drop(r) BY DEF RecordRefusal
  <2>2. "refusedPhase" \in Steps /\ "refusedPhase" # "phase" BY DEF Steps
  <2> QED BY <2>1, <2>2, DropKeepsLocals DEF TInv
<1> QED BY <1>1, <1>2 DEF TInv

LEMMA RefusedPhaseType ==
  ASSUME TInv, NEW r \in Requests, RefusedPhase(r)
  PROVE  TInv'
<1>1. RowsOK'
  BY DEF TInv, RefusedPhase, RowsOK, rows, channel, server, locals, Phases
<1>2. LocalsOK'
  <2>1. Finish(r) BY DEF RefusedPhase
  <2> QED BY <2>1, FinishKeepsLocals DEF TInv
<1> QED BY <1>1, <1>2 DEF TInv

LEMMA MarkDispatchingType ==
  ASSUME TInv, NEW r \in Requests, MarkDispatching(r)
  PROVE  TInv'
<1>1. RowsOK'
  BY RowUpdates DEF TInv, MarkDispatching, RowsOK, rows, channel, server, locals, LocalsOK
<1>2. LocalsOK'
  BY RowUpdates DEF TInv, MarkDispatching, LocalsOK, PhaseStep, Goto, Steps
<1> QED BY <1>1, <1>2 DEF TInv

LEMMA PublishedPhaseType ==
  ASSUME TInv, NEW r \in Requests, PublishedPhase(r)
  PROVE  TInv'
<1>1. RowsOK'
  BY DEF TInv, PublishedPhase, RowsOK, rows, channel, server, locals, LocalsOK, PhaseStep, Phases
<1>2. LocalsOK'
  <2>1. Goto(r, "audit") /\ KeepCopies BY DEF PublishedPhase
  <2>2. "audit" \in Steps /\ "audit" # "phase" BY DEF Steps
  <2> QED BY <2>1, <2>2, GotoKeepsLocals DEF TInv
<1> QED BY <1>1, <1>2 DEF TInv

LEMMA VerifiedPhaseType ==
  ASSUME TInv, NEW r \in Requests, VerifiedPhase(r)
  PROVE  TInv'
<1>1. RowsOK'
  BY DEF TInv, VerifiedPhase, RowsOK, rows, channel, server, locals, Phases
<1>2. LocalsOK'
  <2>1. Goto(r, "markAnswered") /\ KeepCopies BY DEF VerifiedPhase
  <2>2. "markAnswered" \in Steps /\ "markAnswered" # "phase" BY DEF Steps
  <2> QED BY <2>1, <2>2, GotoKeepsLocals DEF TInv
<1> QED BY <1>1, <1>2 DEF TInv

LEMMA MarkAnsweredType ==
  ASSUME TInv, NEW r \in Requests, MarkAnswered(r)
  PROVE  TInv'
<1>1. RowsOK'
  BY RowUpdates DEF TInv, MarkAnswered, RowsOK, rows, channel, server, locals, LocalsOK
<1>2. LocalsOK'
  <2>1. /\ Goto(r, "verifySave")
        /\ q' = [q EXCEPT ![r] = FreshInquiry]
        /\ UNCHANGED <<cand, x, outcome>>
    BY DEF MarkAnswered
  <2>2. "verifySave" \in Steps /\ "verifySave" # "phase" BY DEF Steps
  <2> QED BY <2>1, <2>2, RowConstants, InquiryCopyKeepsLocals DEF TInv
<1> QED BY <1>1, <1>2 DEF TInv

LEMMA VerifySaveType ==
  ASSUME TInv, NEW r \in Requests, VerifySave(r)
  PROVE  TInv'
<1>1. RowsOK'
  BY DEF TInv, VerifySave, RowsOK, rows, channel, server, locals, LocalsOK
<1>2. LocalsOK'
  <2>1. Finish(r) BY DEF VerifySave
  <2> QED BY <2>1, FinishKeepsLocals DEF TInv
<1> QED BY <1>1, <1>2 DEF TInv

LEMMA RequeryType ==
  ASSUME TInv, NEW r \in Requests, Requery(r)
  PROVE  TInv'
<1>1. RowsOK'
  BY DEF TInv, Requery, RowsOK, rows, channel, server, locals
<1>2. LocalsOK'
  BY DEF TInv, Requery, LocalsOK, PhaseStep, Goto, Steps, RowsOK
<1> QED BY <1>1, <1>2 DEF TInv

LEMMA ResumePendingType ==
  ASSUME TInv, NEW r \in Requests, ResumePending(r)
  PROVE  TInv'
<1>1. RowsOK'
  BY DEF TInv, ResumePending, RowsOK, rows, channel, server, locals
<1>2. LocalsOK'
  <2>1. Goto(r, "read") /\ KeepCopies BY DEF ResumePending
  <2>2. "read" \in Steps /\ "read" # "phase" BY DEF Steps
  <2> QED BY <2>1, <2>2, GotoKeepsLocals DEF TInv
<1> QED BY <1>1, <1>2 DEF TInv

LEMMA ResumeDispatchingType ==
  ASSUME TInv, NEW r \in Requests, ResumeDispatching(r)
  PROVE  TInv'
<1>1. RowsOK'
  BY DEF TInv, ResumeDispatching, RowsOK, rows, channel, server, locals
<1>2. LocalsOK'
  BY RowUpdates DEF TInv, ResumeDispatching, LocalsOK, PhaseStep, Goto, Steps, RowsOK
<1> QED BY <1>1, <1>2 DEF TInv

LEMMA AbandonDispatchType ==
  ASSUME TInv, NEW r \in Requests, AbandonDispatch(r)
  PROVE  TInv'
<1>1. RowsOK'
  BY DEF TInv, AbandonDispatch, RowsOK, rows, channel, server, locals, LocalsOK
<1>2. LocalsOK'
  BY DEF TInv, AbandonDispatch, LocalsOK, PhaseStep, Goto, Steps, RowsOK
<1> QED BY <1>1, <1>2 DEF TInv

LEMMA RearmType ==
  ASSUME TInv, NEW r \in Requests, NEW proven \in BOOLEAN, Rearm(r, proven)
  PROVE  TInv'
<1>1. RowsOK'
  BY DEF TInv, Rearm, RowsOK, rows, channel, server, locals
<1>2. LocalsOK'
  BY DEF TInv, Rearm, LocalsOK, PhaseStep, Goto, Steps, RowsOK
<1> QED BY <1>1, <1>2 DEF TInv

LEMMA RearmSaveType ==
  ASSUME TInv, NEW r \in Requests, RearmSave(r)
  PROVE  TInv'
<1>1. RowsOK'
  BY RowConstants DEF TInv, RearmSave, RowsOK, rows, channel, server, locals
<1>2. LocalsOK'
  <2>1. Goto(r, "rearmPhase") /\ Drop(r) BY DEF RearmSave
  <2>2. "rearmPhase" \in Steps /\ "rearmPhase" # "phase" BY DEF Steps
  <2> QED BY <2>1, <2>2, DropKeepsLocals DEF TInv
<1> QED BY <1>1, <1>2 DEF TInv

LEMMA RearmPhaseType ==
  ASSUME TInv, NEW r \in Requests, RearmPhase(r)
  PROVE  TInv'
<1>1. RowsOK'
  BY DEF TInv, RearmPhase, RowsOK, rows, channel, server, locals, Phases
<1>2. LocalsOK'
  <2>1. Finish(r) BY DEF RearmPhase
  <2> QED BY <2>1, FinishKeepsLocals DEF TInv
<1> QED BY <1>1, <1>2 DEF TInv

LEMMA SweepReadType ==
  ASSUME TInv, NEW r \in Requests, SweepRead(r)
  PROVE  TInv'
<1>1. RowsOK'
  BY DEF TInv, SweepRead, RowsOK, rows, channel, server
<1>2. LocalsOK'
  <2>1. /\ Goto(r, "sweepSave")
        /\ q' = [q EXCEPT ![r] = inquiry]
        /\ UNCHANGED <<cand, x, outcome>>
    BY DEF SweepRead
  <2>2. "sweepSave" \in Steps /\ "sweepSave" # "phase" BY DEF Steps
  <2> QED BY <2>1, <2>2, InquiryCopyKeepsLocals DEF TInv, RowsOK
<1> QED BY <1>1, <1>2 DEF TInv

LEMMA SweepSaveType ==
  ASSUME TInv, NEW r \in Requests, NEW said \in BOOLEAN, NEW stamped \in BOOLEAN,
         NEW reply \in BOOLEAN, SweepSave(r, said, stamped, reply)
  PROVE  TInv'
<1> DEFINE row == FromSource(q[r], said, stamped, reply)
<1>1. row \in Inquiries
  <2>1. q[r] \in Inquiries BY DEF TInv, LocalsOK
  <2> QED BY <2>1 DEF FromSource, Inquiries
<1> HIDE DEF row
<1>2. \/ /\ inquiry' = inquiry
         /\ Goto(r, "sweepClose")
         /\ q' = [q EXCEPT ![r] = row]
         /\ UNCHANGED <<cand, x, outcome>>
      \/ /\ inquiry' = row
         /\ Finish(r)
  BY DEF SweepSave, row
<1>3. UNCHANGED <<phase, drafts, approvals, execution, audited, rearms, channel, server>>
  BY DEF SweepSave
<1>4. RowsOK'
  BY <1>1, <1>2, <1>3 DEF TInv, RowsOK, channel, server
<1>5. LocalsOK'
  BY <1>1, <1>2, FinishKeepsLocals, InquiryCopyKeepsLocals DEF TInv, Steps
<1> QED BY <1>4, <1>5 DEF TInv

LEMMA SweepCloseType ==
  ASSUME TInv, NEW r \in Requests, SweepClose(r)
  PROVE  TInv'
<1>1. RowsOK'
  BY DEF TInv, LocalsOK, SweepClose, RowsOK, rows, channel, server, locals, Phases
<1>2. LocalsOK'
  <2>1. Finish(r) BY DEF SweepClose
  <2> QED BY <2>1, FinishKeepsLocals DEF TInv
<1> QED BY <1>1, <1>2 DEF TInv

LEMMA RepairBeginType ==
  ASSUME TInv, NEW r \in Requests, RepairBegin(r)
  PROVE  TInv'
<1>1. RowsOK'
  BY DEF TInv, RepairBegin, RowsOK, rows, channel, server
<1>2. LocalsOK'
  <2>1. /\ Goto(r, "repairClose")
        /\ q' = [q EXCEPT ![r] = inquiry]
        /\ UNCHANGED <<cand, x, outcome>>
    BY DEF RepairBegin
  <2>2. "repairClose" \in Steps /\ "repairClose" # "phase" BY DEF Steps
  <2> QED BY <2>1, <2>2, InquiryCopyKeepsLocals DEF TInv, RowsOK
<1> QED BY <1>1, <1>2 DEF TInv

LEMMA RepairCloseType ==
  ASSUME TInv, NEW r \in Requests, RepairClose(r)
  PROVE  TInv'
<1>1. RowsOK'
  BY RowUpdates DEF TInv, LocalsOK, RepairClose, RowsOK, rows, channel, server, locals, Phases
<1>2. LocalsOK'
  <2>1. Finish(r) BY DEF RepairClose
  <2> QED BY <2>1, FinishKeepsLocals DEF TInv
<1> QED BY <1>1, <1>2 DEF TInv

LEMMA RequestDiesType ==
  ASSUME TInv, NEW r \in Requests, RequestDies(r)
  PROVE  TInv'
<1>1. RowsOK'
  BY DEF TInv, RequestDies, RowsOK, rows, channel, server, locals
<1>2. LocalsOK'
  <2>1. Finish(r) BY DEF RequestDies
  <2> QED BY <2>1, FinishKeepsLocals DEF TInv
<1> QED BY <1>1, <1>2 DEF TInv

\* What ties an approval to what its seller saw: the approved version exists, and it is
\* the text that was in view.  Drafts are only appended to, so it stays that.
ApprovedAsSeen ==
  /\ \A a \in approvals : /\ a.version \in 1..Len(drafts)
                          /\ drafts[a.version] = a.seen
                          /\ a.text = a.seen
  /\ \A r \in Requests : pc[r] = "bind" =>
       /\ cand[r].version \in 1..Len(drafts)
       /\ drafts[cand[r].version] = cand[r].seen

LEMMA BindType ==
  ASSUME TInv, ApprovedAsSeen, NEW r \in Requests, Bind(r)
  PROVE  TInv'
<1>1. [version |-> cand[r].version, text |-> drafts[cand[r].version],
       command |-> cand[r].command, seen |-> cand[r].seen] \in Approvals
  BY DEF TInv, RowsOK, LocalsOK, ApprovedAsSeen, Bind, Candidates, Approvals
<1>2. RowsOK'
  BY <1>1, RowConstants DEF TInv, Bind, RowsOK, channel, server, Phases
<1>3. LocalsOK'
  <2>1. Goto(r, "read") /\ Drop(r) BY DEF Bind
  <2>2. "read" \in Steps /\ "read" # "phase" BY DEF Steps
  <2> QED BY <2>1, <2>2, DropKeepsLocals DEF TInv
<1> QED BY <1>2, <1>3 DEF TInv

LEMMA RevalidateType ==
  ASSUME TInv, NEW r \in Requests, NEW proven \in BOOLEAN, Revalidate(r, proven)
  PROVE  TInv'
<1>1. RowsOK'
  BY DEF TInv, Revalidate, RowsOK, rows, channel, server
<1>2. LocalsOK'
  <2>1. CASE Finish(r)
    BY <2>1, FinishKeepsLocals DEF TInv
  <2>2. CASE Goto(r, "refuse") /\ KeepCopies
    BY <2>2, GotoKeepsLocals DEF TInv, Steps
  <2>3. CASE /\ Goto(r, "mark")
             /\ q' = [q EXCEPT ![r] = inquiry]
             /\ UNCHANGED <<cand, x, outcome>>
    BY <2>3, InquiryCopyKeepsLocals DEF TInv, RowsOK, Steps
  <2> QED BY <2>1, <2>2, <2>3 DEF Revalidate
<1> QED BY <1>1, <1>2 DEF TInv

LEMMA PostType ==
  ASSUME TInv, ApprovedAsSeen, NEW r \in Requests, NEW o \in Outcomes,
         NEW lands \in BOOLEAN, Post(r, o, lands)
  PROVE  TInv'
<1>1. posted' \in Seq(Texts)
  BY DEF Post, TInv, RowsOK, ApprovedAsSeen
<1>2. RowsOK'
  BY <1>1 DEF TInv, Post, RowsOK, rows, server
<1>3. LocalsOK'
  BY DEF TInv, Post, LocalsOK, PhaseStep, Goto, Steps
<1> QED BY <1>2, <1>3 DEF TInv

LEMMA RecordOutcomeType ==
  ASSUME TInv, NEW r \in Requests, RecordOutcome(r)
  PROVE  TInv'
<1> DEFINE after == AfterOutcome(x[r], outcome[r])
<1>1. x[r] \in Executions /\ outcome[r] \in Outcomes
  BY DEF TInv, LocalsOK
<1>2. /\ after \in Executions
      /\ outcome[r] = "CONFIRMED" => after.status = "EXECUTED"
      /\ outcome[r] = "PERMANENT_FAILURE" => after.status = "FAILED"
  BY <1>1, AfterOutcomeType
<1>3. RowsOK'
  BY <1>2 DEF TInv, RecordOutcome, RowsOK, channel, server
<1>4. LocalsOK'
  <2>1. CASE Finish(r)
    BY <2>1, FinishKeepsLocals DEF TInv
  <2>2. CASE /\ outcome[r] \in {"CONFIRMED", "PERMANENT_FAILURE"}
             /\ Goto(r, "phase")
             /\ x' = [x EXCEPT ![r] = after]
             /\ UNCHANGED <<cand, q, outcome>>
    <3> HIDE DEF after
    <3> QED BY <1>2, <2>2 DEF TInv, LocalsOK, PhaseStep, Goto, Steps
  <2>3. CASE /\ Goto(r, "audit")
             /\ x' = [x EXCEPT ![r] = after]
             /\ UNCHANGED <<cand, q, outcome>>
    <3> HIDE DEF after
    <3> QED BY <1>2, <2>3 DEF TInv, LocalsOK, PhaseStep, Goto, Steps
  <2> QED BY <2>1, <2>2, <2>3 DEF RecordOutcome
<1> QED BY <1>3, <1>4 DEF TInv

LEMMA AuditOutcomeType ==
  ASSUME TInv, NEW r \in Requests, AuditOutcome(r)
  PROVE  TInv'
<1>1. RowsOK'
  BY AttemptType DEF TInv, AuditOutcome, RowsOK, channel, server
<1>2. LocalsOK'
  <2>1. CASE Finish(r)
    BY <2>1, FinishKeepsLocals DEF TInv
  <2>2. CASE Goto(r, "query") /\ KeepCopies
    BY <2>2, GotoKeepsLocals DEF TInv, Steps
  <2> QED BY <2>1, <2>2 DEF AuditOutcome
<1> QED BY <1>1, <1>2 DEF TInv

LEMMA QueryChannelType ==
  ASSUME TInv, NEW r \in Requests, NEW verified \in BOOLEAN, QueryChannel(r, verified)
  PROVE  TInv'
<1>1. RowsOK'
  BY DEF TInv, QueryChannel, RowsOK, rows, channel, server
<1>2. LocalsOK'
  <2>1. CASE Finish(r)
    BY <2>1, FinishKeepsLocals DEF TInv
  <2>2. CASE /\ Goto(r, "verifySave")
             /\ q' = [q EXCEPT ![r] = FreshInquiry]
             /\ UNCHANGED <<cand, x, outcome>>
    BY <2>2, RowConstants, InquiryCopyKeepsLocals DEF TInv, Steps
  <2>3. CASE /\ x' = [x EXCEPT ![r].status = "COMPLETED"]
             /\ Goto(r, "verifiedPhase")
             /\ UNCHANGED <<cand, q, outcome>>
    BY <2>3, RowUpdates DEF TInv, LocalsOK, PhaseStep, Goto, Steps
  <2> QED BY <2>1, <2>2, <2>3 DEF QueryChannel
<1> QED BY <1>1, <1>2 DEF TInv

LEMMA AuditRearmType ==
  ASSUME TInv, NEW r \in Requests, NEW correction \in Corrections, AuditRearm(r, correction)
  PROVE  TInv'
<1>1. x[r].reason \in Reasons
  BY DEF TInv, LocalsOK, Executions
<1>2. rearms' \subseteq (Reasons \X Corrections) /\ IsFiniteSet(rearms')
  BY <1>1, FS_AddElement DEF TInv, RowsOK, AuditRearm
<1>3. RowsOK'
  BY <1>2 DEF TInv, AuditRearm, RowsOK, channel, server
<1>4. LocalsOK'
  <2>1. CASE Finish(r)
    BY <2>1, FinishKeepsLocals DEF TInv
  <2>2. CASE Goto(r, "rearmSave") /\ KeepCopies
    BY <2>2, GotoKeepsLocals DEF TInv, Steps
  <2> QED BY <2>1, <2>2 DEF AuditRearm
<1> QED BY <1>3, <1>4 DEF TInv

LEMMA ServerType ==
  ASSUME TInv, AnsweredElsewhere \/ (\E armed \in BOOLEAN : CrashRestart(armed)) \/ Recover
  PROVE  TInv'
<1>1. CASE AnsweredElsewhere
  BY <1>1 DEF AnsweredElsewhere, TInv, RowsOK, LocalsOK, PhaseStep, rows, locals, server
<1>2. CASE \E armed \in BOOLEAN : CrashRestart(armed)
  <2>1. LocalsOK'
    BY <1>2, NoCandidateType, RowConstants
       DEF CrashRestart, LocalsOK, PhaseStep, Steps, Outcomes
  <2>2. RowsOK'
    BY <1>2, RowConstants DEF CrashRestart, TInv, RowsOK, rows, channel
  <2> QED BY <2>1, <2>2 DEF TInv
<1>3. CASE RecoveryScan
  BY <1>3, RowConstants
     DEF RecoveryScan, TInv, RowsOK, LocalsOK, PhaseStep, rows, channel, locals
<1>4. CASE RecoverySave
  BY <1>4, RowConstants, RowUpdates
     DEF RecoverySave, TInv, RowsOK, LocalsOK, PhaseStep, channel, locals
<1> QED BY <1>1, <1>2, <1>3, <1>4 DEF Recover

\* Every step keeps the types.
LEMMA StepType ==
  ASSUME TInv, ApprovedAsSeen, [Next]_vars
  PROVE  TInv'
<1>1. ASSUME NEW r \in Sellers, SellerCalls(r) PROVE TInv'
  <2> r \in Requests BY DEF Requests
  <2>1. ASSUME NEW c \in Commands, NEW t \in Texts, ConfirmFirst(r, c, t) PROVE TInv'
    BY <2>1, ConfirmFirstType
  <2>2. ASSUME NEW c \in Commands, NEW t \in Texts, ConfirmReplay(r, c, t) PROVE TInv'
    BY <2>2, ConfirmReplayType
  <2>3. ASSUME Requery(r) PROVE TInv'
    BY <2>3, RequeryType
  <2>4. ASSUME ResumePending(r) PROVE TInv'
    BY <2>4, ResumePendingType
  <2>5. ASSUME ResumeDispatching(r) PROVE TInv'
    BY <2>5, ResumeDispatchingType
  <2>6. ASSUME NEW proven \in BOOLEAN, Rearm(r, proven) PROVE TInv'
    BY <2>6, RearmType
  <2> QED
    BY <1>1, <2>1, <2>2, <2>3, <2>4, <2>5, <2>6 DEF SellerCalls
<1>2. ASSUME NEW r \in Jobs, JobStarts(r) PROVE TInv'
  <2> r \in Requests BY DEF Requests
  <2>1. ASSUME NEW t \in Texts, EditDraft(r, t) PROVE TInv'
    BY <2>1, EditDraftType
  <2>2. ASSUME SweepRead(r) PROVE TInv'
    BY <2>2, SweepReadType
  <2>3. ASSUME RepairBegin(r) PROVE TInv'
    BY <2>3, RepairBeginType
  <2> QED
    BY <1>2, <2>1, <2>2, <2>3 DEF JobStarts
<1>3. ASSUME NEW r \in Requests, Proceed(r) PROVE TInv'
  <2>1. ASSUME InsertDraft(r) PROVE TInv'
    BY <2>1, InsertDraftType
  <2>2. ASSUME Bind(r) PROVE TInv'
    BY <2>2, BindType
  <2>3. ASSUME BindRefused(r) PROVE TInv'
    BY <2>3, BindRefusedType
  <2>4. ASSUME ReadPending(r) PROVE TInv'
    BY <2>4, ReadPendingType
  <2>5. ASSUME NothingPending(r) PROVE TInv'
    BY <2>5, NothingPendingType
  <2>6. ASSUME NEW proven \in BOOLEAN, Revalidate(r, proven) PROVE TInv'
    BY <2>6, RevalidateType
  <2>7. ASSUME RecordRefusal(r) PROVE TInv'
    BY <2>7, RecordRefusalType
  <2>8. ASSUME RefusedPhase(r) PROVE TInv'
    BY <2>8, RefusedPhaseType
  <2>9. ASSUME MarkDispatching(r) PROVE TInv'
    BY <2>9, MarkDispatchingType
  <2>10. ASSUME NEW o \in Outcomes, NEW lands \in BOOLEAN, Post(r, o, lands) PROVE TInv'
    BY <2>10, PostType
  <2>11. ASSUME RecordOutcome(r) PROVE TInv'
    BY <2>11, RecordOutcomeType
  <2>12. ASSUME PublishedPhase(r) PROVE TInv'
    BY <2>12, PublishedPhaseType
  <2>13. ASSUME AuditOutcome(r) PROVE TInv'
    BY <2>13, AuditOutcomeType
  <2>14. ASSUME NEW verified \in BOOLEAN, QueryChannel(r, verified) PROVE TInv'
    BY <2>14, QueryChannelType
  <2>15. ASSUME VerifiedPhase(r) PROVE TInv'
    BY <2>15, VerifiedPhaseType
  <2>16. ASSUME MarkAnswered(r) PROVE TInv'
    BY <2>16, MarkAnsweredType
  <2>17. ASSUME VerifySave(r) PROVE TInv'
    BY <2>17, VerifySaveType
  <2>18. ASSUME AbandonDispatch(r) PROVE TInv'
    BY <2>18, AbandonDispatchType
  <2>19. ASSUME NEW correction \in Corrections, AuditRearm(r, correction) PROVE TInv'
    BY <2>19, AuditRearmType
  <2>20. ASSUME RearmSave(r) PROVE TInv'
    BY <2>20, RearmSaveType
  <2>21. ASSUME RearmPhase(r) PROVE TInv'
    BY <2>21, RearmPhaseType
  <2>22. ASSUME NEW said \in BOOLEAN, NEW stamped \in BOOLEAN, NEW reply \in BOOLEAN, SweepSave(r, said, stamped, reply) PROVE TInv'
    BY <2>22, SweepSaveType
  <2>23. ASSUME SweepClose(r) PROVE TInv'
    BY <2>23, SweepCloseType
  <2>24. ASSUME RepairClose(r) PROVE TInv'
    BY <2>24, RepairCloseType
  <2> QED
    BY <1>3, <2>1, <2>2, <2>3, <2>4, <2>5, <2>6, <2>7, <2>8, <2>9, <2>10, <2>11, <2>12, <2>13,
    <2>14, <2>15, <2>16, <2>17, <2>18, <2>19, <2>20, <2>21, <2>22, <2>23, <2>24 DEF Proceed
<1>4. ASSUME NEW r \in Requests, RequestDies(r) PROVE TInv'
  BY <1>4, RequestDiesType
<1>5. CASE AnsweredElsewhere \/ (\E armed \in BOOLEAN : CrashRestart(armed)) \/ Recover
  BY <1>5, ServerType
<1>6. CASE UNCHANGED vars
  BY <1>6 DEF vars, rows, channel, locals, server, TInv, RowsOK, LocalsOK, PhaseStep
<1> QED BY <1>1, <1>2, <1>3, <1>4, <1>5, <1>6 DEF Next

-----------------------------------------------------------------------------
(* Only the text the seller saw.                                             *)

Approved == ApprovedAsSeen /\ OnlyApprovedAnswers

\* A step that leaves drafts, approvals and answers alone, and brings no request to
\* "bind", keeps the approval and what went out tied to what was seen.
LEMMA ApprovedFrame ==
  ASSUME Approved, UNCHANGED <<drafts, approvals, posted>>,
         \A p \in Requests : pc'[p] = "bind" => pc[p] = "bind" /\ cand'[p] = cand[p]
  PROVE  Approved'
BY DEF Approved, ApprovedAsSeen, OnlyApprovedAnswers

\* Ending a request, or moving it on with its candidate, brings nobody to "bind".
LEMMA DropBindsNobody ==
  ASSUME TInv, NEW r \in Requests, NEW s \in Steps, s # "bind", Goto(r, s), Drop(r)
  PROVE  \A p \in Requests : pc'[p] = "bind" => pc[p] = "bind" /\ cand'[p] = cand[p]
BY DEF TInv, LocalsOK, Drop, Goto

LEMMA FinishBindsNobody ==
  ASSUME TInv, NEW r \in Requests, Finish(r)
  PROVE  \A p \in Requests : pc'[p] = "bind" => pc[p] = "bind" /\ cand'[p] = cand[p]
BY DropBindsNobody DEF Finish, Steps

LEMMA GotoBindsNobody ==
  ASSUME TInv, NEW r \in Requests, NEW s \in Steps, s # "bind", Goto(r, s), cand' = cand
  PROVE  \A p \in Requests : pc'[p] = "bind" => pc[p] = "bind" /\ cand'[p] = cand[p]
BY DEF TInv, LocalsOK, Goto

LEMMA StepApproved ==
  ASSUME TInv, Approved, [Next]_vars
  PROVE  Approved'
<1>1. ASSUME NEW r \in Sellers, SellerCalls(r) PROVE Approved'
  <2> r \in Requests BY DEF Requests
  <2>1. ASSUME NEW c \in Commands, NEW t \in Texts, ConfirmFirst(r, c, t) PROVE Approved'
    <3>1. /\ Len(drafts) \in 1..Len(drafts)
          /\ drafts[Len(drafts)] = t
      BY <2>1 DEF ConfirmFirst, TInv, RowsOK
    <3>2. \A p \in Requests : pc'[p] = "bind" =>
            /\ cand'[p].version \in 1..Len(drafts)
            /\ drafts[cand'[p].version] = cand'[p].seen
      BY <2>1, <3>1 DEF ConfirmFirst, Goto, TInv, LocalsOK, Approved, ApprovedAsSeen
    <3> QED BY <2>1, <3>2
          DEF ConfirmFirst, rows, channel, Approved, ApprovedAsSeen, OnlyApprovedAnswers
  <2>2. ASSUME NEW c \in Commands, NEW t \in Texts, ConfirmReplay(r, c, t) PROVE Approved'
    <3>1. Goto(r, "read") /\ cand' = cand /\ "read" \in Steps
      BY <2>2 DEF ConfirmReplay, KeepCopies, Steps
    <3> QED BY <2>2, <3>1, GotoBindsNobody, ApprovedFrame DEF ConfirmReplay, rows, channel
  <2>3. ASSUME Requery(r) PROVE Approved'
    <3>1. Goto(r, "query") /\ cand' = cand /\ "query" \in Steps
      BY <2>3 DEF Requery, KeepCopies, Steps
    <3> QED BY <2>3, <3>1, GotoBindsNobody, ApprovedFrame DEF Requery, rows, channel
  <2>4. ASSUME ResumePending(r) PROVE Approved'
    <3>1. Goto(r, "read") /\ cand' = cand /\ "read" \in Steps
      BY <2>4 DEF ResumePending, KeepCopies, Steps
    <3> QED BY <2>4, <3>1, GotoBindsNobody, ApprovedFrame DEF ResumePending, rows, channel
  <2>5. ASSUME ResumeDispatching(r) PROVE Approved'
    <3>1. Goto(r, "abandon") /\ cand' = cand /\ "abandon" \in Steps
      BY <2>5 DEF ResumeDispatching, KeepCopies, Steps
    <3> QED BY <2>5, <3>1, GotoBindsNobody, ApprovedFrame DEF ResumeDispatching, rows, channel
  <2>6. ASSUME NEW proven \in BOOLEAN, Rearm(r, proven) PROVE Approved'
    <3>1. Goto(r, "rearmAudit") /\ cand' = cand /\ "rearmAudit" \in Steps
      BY <2>6 DEF Rearm, KeepCopies, Steps
    <3> QED BY <2>6, <3>1, GotoBindsNobody, ApprovedFrame DEF Rearm, rows, channel
  <2> QED
    BY <1>1, <2>1, <2>2, <2>3, <2>4, <2>5, <2>6 DEF SellerCalls
<1>2. ASSUME NEW r \in Jobs, JobStarts(r) PROVE Approved'
  <2> r \in Requests BY DEF Requests
  <2>1. ASSUME NEW t \in Texts, EditDraft(r, t) PROVE Approved'
    <3>1. \A p \in Requests : pc'[p] = "bind" => pc[p] = "bind" /\ cand'[p] = cand[p]
      BY <2>1 DEF EditDraft, Goto, TInv, LocalsOK
    <3> QED BY <2>1, <3>1, ApprovedFrame DEF EditDraft, rows, channel
  <2>2. ASSUME SweepRead(r) PROVE Approved'
    <3>1. Goto(r, "sweepSave") /\ cand' = cand /\ "sweepSave" \in Steps
      BY <2>2 DEF SweepRead, KeepCopies, Steps
    <3> QED BY <2>2, <3>1, GotoBindsNobody, ApprovedFrame DEF SweepRead, rows, channel
  <2>3. ASSUME RepairBegin(r) PROVE Approved'
    <3>1. Goto(r, "repairClose") /\ cand' = cand /\ "repairClose" \in Steps
      BY <2>3 DEF RepairBegin, KeepCopies, Steps
    <3> QED BY <2>3, <3>1, GotoBindsNobody, ApprovedFrame DEF RepairBegin, rows, channel
  <2> QED
    BY <1>2, <2>1, <2>2, <2>3 DEF JobStarts
<1>3. ASSUME NEW r \in Requests, Proceed(r) PROVE Approved'
  <2>1. ASSUME InsertDraft(r) PROVE Approved'
    <3>1. \A v \in 1..Len(drafts) : v \in 1..Len(drafts') /\ drafts'[v] = drafts[v]
      BY <2>1 DEF InsertDraft, TInv, RowsOK, LocalsOK, Candidates
    <3>2. Finish(r) /\ UNCHANGED <<approvals, posted>> BY <2>1 DEF InsertDraft, channel
    <3>3. \A p \in Requests : pc'[p] = "bind" => pc[p] = "bind" /\ cand'[p] = cand[p]
      BY <3>2, FinishBindsNobody
    <3> QED BY <3>1, <3>2, <3>3 DEF Approved, ApprovedAsSeen, OnlyApprovedAnswers
  <2>2. ASSUME Bind(r) PROVE Approved'
    <3>1. DOMAIN posted = {}
      BY <2>2 DEF Bind, Approved, OnlyApprovedAnswers
    <3>2. \A a \in approvals' : /\ a.version \in 1..Len(drafts)
                               /\ drafts[a.version] = a.seen
                               /\ a.text = a.seen
      BY <2>2 DEF Bind, Approved, ApprovedAsSeen
    <3>3. \A p \in Requests : pc'[p] = "bind" => pc[p] = "bind" /\ cand'[p] = cand[p]
      BY <2>2 DEF Bind, Goto, Drop, TInv, LocalsOK
    <3> QED BY <2>2, <3>1, <3>2, <3>3
          DEF Bind, channel, Approved, ApprovedAsSeen, OnlyApprovedAnswers
  <2>3. ASSUME BindRefused(r) PROVE Approved'
    <3>1. Finish(r) BY <2>3 DEF BindRefused
    <3> QED BY <2>3, <3>1, FinishBindsNobody, ApprovedFrame DEF BindRefused, rows, channel
  <2>4. ASSUME ReadPending(r) PROVE Approved'
    <3>1. Goto(r, "check") /\ cand' = cand /\ "check" \in Steps
      BY <2>4 DEF ReadPending, KeepCopies, Steps
    <3> QED BY <2>4, <3>1, GotoBindsNobody, ApprovedFrame DEF ReadPending, rows, channel
  <2>5. ASSUME NothingPending(r) PROVE Approved'
    <3>1. Finish(r) BY <2>5 DEF NothingPending
    <3> QED BY <2>5, <3>1, FinishBindsNobody, ApprovedFrame DEF NothingPending, rows, channel
  <2>6. ASSUME NEW proven \in BOOLEAN, Revalidate(r, proven) PROVE Approved'
    <3>1. CASE Finish(r)
      BY <2>6, <3>1, FinishBindsNobody, ApprovedFrame DEF Revalidate, rows, channel
    <3>2. CASE (Goto(r, "refuse") \/ Goto(r, "mark")) /\ cand' = cand
      BY <2>6, <3>2, GotoBindsNobody, ApprovedFrame DEF Revalidate, rows, channel, Steps
    <3> QED BY <2>6, <3>1, <3>2 DEF Revalidate, KeepCopies
  <2>7. ASSUME RecordRefusal(r) PROVE Approved'
    <3>1. Goto(r, "refusedPhase") /\ Drop(r) /\ "refusedPhase" \in Steps
      BY <2>7 DEF RecordRefusal, Steps
    <3> QED BY <2>7, <3>1, DropBindsNobody, ApprovedFrame DEF RecordRefusal, channel
  <2>8. ASSUME RefusedPhase(r) PROVE Approved'
    <3>1. Finish(r) BY <2>8 DEF RefusedPhase
    <3> QED BY <2>8, <3>1, FinishBindsNobody, ApprovedFrame DEF RefusedPhase, rows, channel
  <2>9. ASSUME MarkDispatching(r) PROVE Approved'
    <3>1. Goto(r, "post") /\ cand' = cand /\ "post" \in Steps
      BY <2>9 DEF MarkDispatching, KeepCopies, Steps
    <3> QED BY <2>9, <3>1, GotoBindsNobody, ApprovedFrame DEF MarkDispatching, rows, channel
  <2>10. ASSUME NEW o \in Outcomes, NEW lands \in BOOLEAN, Post(r, o, lands) PROVE Approved'
    <3>1. Goto(r, "record") /\ cand' = cand /\ UNCHANGED <<drafts, approvals>> /\ "record" \in Steps
      BY <2>10 DEF Post, rows, Steps
    <3>2. ApprovedAsSeen'
      BY <3>1, GotoBindsNobody DEF Approved, ApprovedAsSeen
    <3>3. OnlyApprovedAnswers'
      <4>1. CASE posted' = posted
        BY <3>1, <4>1 DEF Approved, OnlyApprovedAnswers
      <4>2. ASSUME NEW a \in approvals, posted' = Append(posted, drafts[a.version])
            PROVE  OnlyApprovedAnswers'
        <5>1. drafts[a.version] = a.seen BY DEF Approved, ApprovedAsSeen
        <5> QED BY <3>1, <4>2, <5>1 DEF Approved, OnlyApprovedAnswers, TInv, RowsOK
      <4> QED BY <2>10, <4>1, <4>2 DEF Post
    <3> QED BY <3>2, <3>3 DEF Approved
  <2>11. ASSUME RecordOutcome(r) PROVE Approved'
    <3>1. CASE Finish(r)
      BY <2>11, <3>1, FinishBindsNobody, ApprovedFrame DEF RecordOutcome, rows, channel
    <3>2. CASE (Goto(r, "phase") \/ Goto(r, "audit")) /\ cand' = cand
      BY <2>11, <3>2, GotoBindsNobody, ApprovedFrame DEF RecordOutcome, rows, channel, Steps
    <3> QED BY <2>11, <3>1, <3>2 DEF RecordOutcome, KeepCopies
  <2>12. ASSUME PublishedPhase(r) PROVE Approved'
    <3>1. Goto(r, "audit") /\ cand' = cand /\ "audit" \in Steps
      BY <2>12 DEF PublishedPhase, KeepCopies, Steps
    <3> QED BY <2>12, <3>1, GotoBindsNobody, ApprovedFrame DEF PublishedPhase, rows, channel
  <2>13. ASSUME AuditOutcome(r) PROVE Approved'
    <3>1. CASE Finish(r)
      BY <2>13, <3>1, FinishBindsNobody, ApprovedFrame DEF AuditOutcome, rows, channel
    <3>2. CASE Goto(r, "query") /\ cand' = cand
      BY <2>13, <3>2, GotoBindsNobody, ApprovedFrame DEF AuditOutcome, rows, channel, Steps
    <3> QED BY <2>13, <3>1, <3>2 DEF AuditOutcome, KeepCopies
  <2>14. ASSUME NEW verified \in BOOLEAN, QueryChannel(r, verified) PROVE Approved'
    <3>1. CASE Finish(r)
      BY <2>14, <3>1, FinishBindsNobody, ApprovedFrame DEF QueryChannel, rows, channel
    <3>2. CASE (Goto(r, "verifiedPhase") \/ Goto(r, "verifySave")) /\ cand' = cand
      BY <2>14, <3>2, GotoBindsNobody, ApprovedFrame DEF QueryChannel, rows, channel, Steps
    <3> QED BY <2>14, <3>1, <3>2 DEF QueryChannel, KeepCopies
  <2>15. ASSUME VerifiedPhase(r) PROVE Approved'
    <3>1. Goto(r, "markAnswered") /\ cand' = cand /\ "markAnswered" \in Steps
      BY <2>15 DEF VerifiedPhase, KeepCopies, Steps
    <3> QED BY <2>15, <3>1, GotoBindsNobody, ApprovedFrame DEF VerifiedPhase, rows, channel
  <2>16. ASSUME MarkAnswered(r) PROVE Approved'
    <3>1. Goto(r, "verifySave") /\ cand' = cand /\ "verifySave" \in Steps
      BY <2>16 DEF MarkAnswered, KeepCopies, Steps
    <3> QED BY <2>16, <3>1, GotoBindsNobody, ApprovedFrame DEF MarkAnswered, rows, channel
  <2>17. ASSUME VerifySave(r) PROVE Approved'
    <3>1. Finish(r) BY <2>17 DEF VerifySave
    <3> QED BY <2>17, <3>1, FinishBindsNobody, ApprovedFrame DEF VerifySave, rows, channel
  <2>18. ASSUME AbandonDispatch(r) PROVE Approved'
    <3>1. Goto(r, "query") /\ cand' = cand /\ "query" \in Steps
      BY <2>18 DEF AbandonDispatch, KeepCopies, Steps
    <3> QED BY <2>18, <3>1, GotoBindsNobody, ApprovedFrame DEF AbandonDispatch, rows, channel
  <2>19. ASSUME NEW correction \in Corrections, AuditRearm(r, correction) PROVE Approved'
    <3>1. CASE Finish(r)
      BY <2>19, <3>1, FinishBindsNobody, ApprovedFrame DEF AuditRearm, rows, channel
    <3>2. CASE Goto(r, "rearmSave") /\ cand' = cand
      BY <2>19, <3>2, GotoBindsNobody, ApprovedFrame DEF AuditRearm, rows, channel, Steps
    <3> QED BY <2>19, <3>1, <3>2 DEF AuditRearm, KeepCopies
  <2>20. ASSUME RearmSave(r) PROVE Approved'
    <3>1. Goto(r, "rearmPhase") /\ Drop(r) /\ "rearmPhase" \in Steps
      BY <2>20 DEF RearmSave, Steps
    <3> QED BY <2>20, <3>1, DropBindsNobody, ApprovedFrame DEF RearmSave, channel
  <2>21. ASSUME RearmPhase(r) PROVE Approved'
    <3>1. Finish(r) BY <2>21 DEF RearmPhase
    <3> QED BY <2>21, <3>1, FinishBindsNobody, ApprovedFrame DEF RearmPhase, rows, channel
  <2>22. ASSUME NEW said \in BOOLEAN, NEW stamped \in BOOLEAN, NEW reply \in BOOLEAN, SweepSave(r, said, stamped, reply) PROVE Approved'
    <3>1. CASE Finish(r)
      BY <2>22, <3>1, FinishBindsNobody, ApprovedFrame DEF SweepSave, channel
    <3>2. CASE Goto(r, "sweepClose") /\ cand' = cand
      BY <2>22, <3>2, GotoBindsNobody, ApprovedFrame DEF SweepSave, channel, Steps
    <3> QED BY <2>22, <3>1, <3>2 DEF SweepSave
  <2>23. ASSUME SweepClose(r) PROVE Approved'
    <3>1. Finish(r) BY <2>23 DEF SweepClose
    <3> QED BY <2>23, <3>1, FinishBindsNobody, ApprovedFrame DEF SweepClose, rows, channel
  <2>24. ASSUME RepairClose(r) PROVE Approved'
    <3>1. Finish(r) BY <2>24 DEF RepairClose
    <3> QED BY <2>24, <3>1, FinishBindsNobody, ApprovedFrame DEF RepairClose, rows, channel
  <2> QED
    BY <1>3, <2>1, <2>2, <2>3, <2>4, <2>5, <2>6, <2>7, <2>8, <2>9, <2>10, <2>11, <2>12, <2>13,
    <2>14, <2>15, <2>16, <2>17, <2>18, <2>19, <2>20, <2>21, <2>22, <2>23, <2>24 DEF Proceed
<1>4. ASSUME NEW r \in Requests, RequestDies(r) PROVE Approved'
  <2>1. Finish(r) BY <1>4 DEF RequestDies
  <2> QED BY <1>4, <2>1, FinishBindsNobody, ApprovedFrame DEF RequestDies, rows, channel
<1>5. CASE AnsweredElsewhere \/ (\E armed \in BOOLEAN : CrashRestart(armed)) \/ Recover
  BY <1>5, ApprovedFrame
     DEF AnsweredElsewhere, CrashRestart, Recover, RecoveryScan, RecoverySave, rows, channel, locals
<1>6. CASE UNCHANGED vars
  BY <1>6, ApprovedFrame DEF vars, rows, channel, locals
<1> QED BY <1>1, <1>2, <1>3, <1>4, <1>5, <1>6 DEF Next

LEMMA InitApproved == Init => Approved
BY DEF Init, Approved, ApprovedAsSeen, OnlyApprovedAnswers

IInv == TInv /\ Approved

\* Spec preserves the types and the tie between an approval and what its seller saw.
THEOREM Inductive == Spec => []IInv
<1>1. Init => IInv
  BY InitType, InitApproved DEF IInv
<1>2. IInv /\ [Next]_vars => IInv'
  BY StepType, StepApproved DEF IInv, Approved
<1> QED BY <1>1, <1>2, PTL DEF Spec

\* Every row and every copy always has its type: the detached copies never write back
\* a row of another shape, whatever the interleaving.
THEOREM TypeCorrect == Spec => []TypeOK
<1>1. IInv => TypeOK
  BY TypeOKFollows DEF IInv
<1> QED BY <1>1, Inductive, PTL

\* For any number of concurrent sellers, editors, sweeps, crashes and re-arms: what
\* stands under the customer's question is the text the seller confirmed.
THEOREM OnlyApproved == Spec => []OnlyApprovedAnswers
<1>1. IInv => OnlyApprovedAnswers
  BY DEF IInv, Approved
<1> QED BY <1>1, Inductive, PTL

-----------------------------------------------------------------------------
(***************************************************************************)
(* "Answered" is never said of a question nobody answered: the proof, for  *)
(* any interleaving of any number of requests.                             *)
(*                                                                         *)
(* AnsweredMeansAnswered is not inductive: a row is overwritten with a     *)
(* copy, so the copies must be as truthful as the rows they came from.     *)
(* They are, because an answer that stands on the channel stays there.     *)
(***************************************************************************)

\* What COMPLETED on the execution stands on: somebody's answer, and where the adapter
\* reads the text an answer of ours.
Proven == ChannelAnswered /\ (ReadsTheText => posted # <<>>)

\* The rows, and the start-up recovery's copy, tell the truth.
RowsTruth ==
  /\ execution.status = "COMPLETED" => Proven
  /\ bootx.status # "COMPLETED"
  /\ phase = "COMPLETED" \/ inquiry.answered => ChannelAnswered

\* What request r holds and is about to write tells the truth.
TruthOf(r) ==
  /\ x[r].status = "COMPLETED" => Proven
  /\ pc[r] \in {"verifiedPhase", "markAnswered"} => Proven
  /\ q[r].answered \/ pc[r] = "sweepClose" => ChannelAnswered

CopiesTruth == \A r \in Requests : TruthOf(r)

Truth == RowsTruth /\ CopiesTruth

\* The channel only gains answers.
Gains == (posted # <<>> => posted' # <<>>) /\ (elsewhere => elsewhere')

LEMMA ProvenStays ==
  ASSUME Gains
  PROVE  (ChannelAnswered => ChannelAnswered') /\ (Proven => Proven')
BY DEF Gains, ChannelAnswered, Proven, ReadsTheText

\* One request moves to step s with copies xr and qr that are truthful.
LEMMA CopyTruth ==
  ASSUME LocalsOK, CopiesTruth, Gains, NEW r \in Requests, NEW s, NEW xr, NEW qr,
         Goto(r, s), x' = [x EXCEPT ![r] = xr], q' = [q EXCEPT ![r] = qr],
         xr.status = "COMPLETED" => Proven,
         s \in {"verifiedPhase", "markAnswered"} => Proven,
         qr.answered \/ s = "sweepClose" => ChannelAnswered
  PROVE  CopiesTruth'
<1> SUFFICES ASSUME NEW p \in Requests PROVE TruthOf(p)'
  BY DEF CopiesTruth
<1>1. TruthOf(p) BY DEF CopiesTruth
<1>2. (ChannelAnswered => ChannelAnswered') /\ (Proven => Proven')
  BY ProvenStays
<1>3. CASE p = r
  <2>1. pc'[p] = s /\ x'[p] = xr /\ q'[p] = qr
    BY <1>3 DEF LocalsOK, Goto
  <2> QED BY <2>1, <1>2 DEF TruthOf
<1>4. CASE p # r
  <2>1. pc'[p] = pc[p] /\ x'[p] = x[p] /\ q'[p] = q[p]
    BY <1>4 DEF LocalsOK, Goto
  <2> QED BY <1>1, <2>1, <1>2 DEF TruthOf
<1> QED BY <1>3, <1>4

\* Nothing is held by a request that dropped its copies, or ended.
LEMMA DropTruth ==
  ASSUME LocalsOK, CopiesTruth, Gains, NEW r \in Requests, NEW s, Goto(r, s), Drop(r),
         s \notin {"verifiedPhase", "markAnswered", "sweepClose"}
  PROVE  CopiesTruth'
<1>1. /\ x' = [x EXCEPT ![r] = NoExecution]
      /\ q' = [q EXCEPT ![r] = FreshInquiry]
  BY DEF Drop
<1>2. NoExecution.status # "COMPLETED" /\ ~FreshInquiry.answered
  BY DEF NoExecution, FreshInquiry
<1> QED BY <1>1, <1>2, CopyTruth

LEMMA FinishTruth ==
  ASSUME LocalsOK, CopiesTruth, Gains, NEW r \in Requests, Finish(r)
  PROVE  CopiesTruth'
BY DropTruth DEF Finish

\* A request that keeps its copies and goes where nothing is claimed.
LEMMA KeepTruth ==
  ASSUME LocalsOK, CopiesTruth, Gains, NEW r \in Requests, NEW s, Goto(r, s),
         s \notin {"verifiedPhase", "markAnswered", "sweepClose"}, x' = x, q' = q
  PROVE  CopiesTruth'
<1>1. x' = [x EXCEPT ![r] = x[r]] /\ q' = [q EXCEPT ![r] = q[r]]
  BY DEF LocalsOK
<1>2. TruthOf(r) BY DEF CopiesTruth
<1>3. /\ x[r].status = "COMPLETED" => Proven
      /\ q[r].answered => ChannelAnswered
  BY <1>2 DEF TruthOf
<1> QED BY <1>1, <1>3, CopyTruth

\* Rows that keep what they claim, or say less, stay truthful.
LEMMA RowsKeepTruth ==
  ASSUME RowsTruth, Gains,
         execution'.status = "COMPLETED" => Proven,
         bootx'.status = "COMPLETED" => bootx.status = "COMPLETED",
         phase' = "COMPLETED" \/ inquiry'.answered => ChannelAnswered
  PROVE  RowsTruth'
BY ProvenStays DEF RowsTruth

LEMMA InitTruth == Init => Truth
BY DEF Init, Truth, RowsTruth, CopiesTruth, TruthOf, ChannelAnswered, NoExecution, FreshInquiry

\* Every step keeps it.
LEMMA StepTruth ==
  ASSUME TInv, Truth, [Next]_vars
  PROVE  Truth'
<1>1. ASSUME NEW r \in Sellers, SellerCalls(r) PROVE Truth'
  <2> r \in Requests BY DEF Requests
  <2>1. ASSUME NEW c \in Commands, NEW t \in Texts, ConfirmFirst(r, c, t) PROVE Truth'
    <3>1. Gains BY <2>1 DEF ConfirmFirst, Gains, channel
    <3>3. RowsTruth'
      BY <2>1, <3>1, RowsKeepTruth DEF ConfirmFirst, rows, server, Truth, RowsTruth
    <3>5. Goto(r, "bind") /\ x' = x /\ q' = q
      BY <2>1 DEF ConfirmFirst, KeepCopies
    <3> QED BY <3>1, <3>3, <3>5, KeepTruth DEF Truth, TInv
  <2>2. ASSUME NEW c \in Commands, NEW t \in Texts, ConfirmReplay(r, c, t) PROVE Truth'
    <3>1. Gains BY <2>2 DEF ConfirmReplay, Gains, channel
    <3>3. RowsTruth'
      BY <2>2, <3>1, RowsKeepTruth DEF ConfirmReplay, rows, server, Truth, RowsTruth
    <3>5. Goto(r, "read") /\ x' = x /\ q' = q
      BY <2>2 DEF ConfirmReplay, KeepCopies
    <3> QED BY <3>1, <3>3, <3>5, KeepTruth DEF Truth, TInv
  <2>3. ASSUME Requery(r) PROVE Truth'
    <3>1. Gains BY <2>3 DEF Requery, Gains, channel
    <3>3. RowsTruth'
      BY <2>3, <3>1, RowsKeepTruth DEF Requery, rows, server, Truth, RowsTruth
    <3>5. /\ Goto(r, "query")
          /\ x' = [x EXCEPT ![r] = execution]
          /\ q' = [q EXCEPT ![r] = inquiry]
      BY <2>3 DEF Requery, KeepCopies, TInv, LocalsOK
    <3>6. /\ execution.status = "COMPLETED" => Proven
          /\ inquiry.answered => ChannelAnswered
      <4>1. TruthOf(r) /\ execution \in Executions
        BY DEF Truth, CopiesTruth, TInv, RowsOK
      <4> QED BY <2>3, <4>1, <3>1 DEF Requery, Truth, RowsTruth, TruthOf, Executions
    <3>7. CopiesTruth' BY <3>1, <3>5, <3>6, CopyTruth DEF Truth, TInv
    <3> QED BY <3>3, <3>7 DEF Truth
  <2>4. ASSUME ResumePending(r) PROVE Truth'
    <3>1. Gains BY <2>4 DEF ResumePending, Gains, channel
    <3>3. RowsTruth'
      BY <2>4, <3>1, RowsKeepTruth DEF ResumePending, rows, server, Truth, RowsTruth
    <3>5. Goto(r, "read") /\ x' = x /\ q' = q
      BY <2>4 DEF ResumePending, KeepCopies
    <3> QED BY <3>1, <3>3, <3>5, KeepTruth DEF Truth, TInv
  <2>5. ASSUME ResumeDispatching(r) PROVE Truth'
    <3>1. Gains BY <2>5 DEF ResumeDispatching, Gains, channel
    <3>3. RowsTruth'
      BY <2>5, <3>1, RowsKeepTruth DEF ResumeDispatching, rows, server, Truth, RowsTruth
    <3>5. /\ Goto(r, "abandon")
          /\ x' = [x EXCEPT ![r] = [execution EXCEPT !.status = "DELIVERY_UNKNOWN"]]
          /\ q' = [q EXCEPT ![r] = q[r]]
      BY <2>5 DEF ResumeDispatching, KeepCopies, TInv, LocalsOK
    <3>6. /\ [execution EXCEPT !.status = "DELIVERY_UNKNOWN"].status = "COMPLETED" => Proven
          /\ q[r].answered => ChannelAnswered
      <4>1. TruthOf(r) /\ execution \in Executions
        BY DEF Truth, CopiesTruth, TInv, RowsOK
      <4> QED BY <2>5, <4>1, <3>1 DEF ResumeDispatching, Truth, RowsTruth, TruthOf, Executions
    <3>7. CopiesTruth' BY <3>1, <3>5, <3>6, CopyTruth DEF Truth, TInv
    <3> QED BY <3>3, <3>7 DEF Truth
  <2>6. ASSUME NEW proven \in BOOLEAN, Rearm(r, proven) PROVE Truth'
    <3>1. Gains BY <2>6 DEF Rearm, Gains, channel
    <3>3. RowsTruth'
      BY <2>6, <3>1, RowsKeepTruth DEF Rearm, rows, server, Truth, RowsTruth
    <3>5. /\ Goto(r, "rearmAudit")
          /\ x' = [x EXCEPT ![r] = execution]
          /\ q' = [q EXCEPT ![r] = q[r]]
      BY <2>6 DEF Rearm, KeepCopies, TInv, LocalsOK
    <3>6. /\ execution.status = "COMPLETED" => Proven
          /\ q[r].answered => ChannelAnswered
      <4>1. TruthOf(r) /\ execution \in Executions
        BY DEF Truth, CopiesTruth, TInv, RowsOK
      <4> QED BY <2>6, <4>1, <3>1 DEF Rearm, Truth, RowsTruth, TruthOf, Executions
    <3>7. CopiesTruth' BY <3>1, <3>5, <3>6, CopyTruth DEF Truth, TInv
    <3> QED BY <3>3, <3>7 DEF Truth
  <2> QED
    BY <1>1, <2>1, <2>2, <2>3, <2>4, <2>5, <2>6 DEF SellerCalls
<1>2. ASSUME NEW r \in Jobs, JobStarts(r) PROVE Truth'
  <2> r \in Requests BY DEF Requests
  <2>1. ASSUME NEW t \in Texts, EditDraft(r, t) PROVE Truth'
    <3>1. Gains BY <2>1 DEF EditDraft, Gains, channel
    <3>3. RowsTruth'
      BY <2>1, <3>1, RowsKeepTruth DEF EditDraft, rows, server, Truth, RowsTruth
    <3>5. Goto(r, "editInsert") /\ x' = x /\ q' = q
      BY <2>1 DEF EditDraft, KeepCopies
    <3> QED BY <3>1, <3>3, <3>5, KeepTruth DEF Truth, TInv
  <2>2. ASSUME SweepRead(r) PROVE Truth'
    <3>1. Gains BY <2>2 DEF SweepRead, Gains, channel
    <3>3. RowsTruth'
      BY <2>2, <3>1, RowsKeepTruth DEF SweepRead, rows, server, Truth, RowsTruth
    <3>5. /\ Goto(r, "sweepSave")
          /\ x' = [x EXCEPT ![r] = x[r]]
          /\ q' = [q EXCEPT ![r] = inquiry]
      BY <2>2 DEF SweepRead, KeepCopies, TInv, LocalsOK
    <3>6. /\ x[r].status = "COMPLETED" => Proven
          /\ inquiry.answered => ChannelAnswered
      <4>1. TruthOf(r) /\ execution \in Executions
        BY DEF Truth, CopiesTruth, TInv, RowsOK
      <4> QED BY <2>2, <4>1, <3>1 DEF SweepRead, Truth, RowsTruth, TruthOf, Executions
    <3>7. CopiesTruth' BY <3>1, <3>5, <3>6, CopyTruth DEF Truth, TInv
    <3> QED BY <3>3, <3>7 DEF Truth
  <2>3. ASSUME RepairBegin(r) PROVE Truth'
    <3>1. Gains BY <2>3 DEF RepairBegin, Gains, channel
    <3>3. RowsTruth'
      BY <2>3, <3>1, RowsKeepTruth DEF RepairBegin, rows, server, Truth, RowsTruth
    <3>5. /\ Goto(r, "repairClose")
          /\ x' = [x EXCEPT ![r] = x[r]]
          /\ q' = [q EXCEPT ![r] = inquiry]
      BY <2>3 DEF RepairBegin, KeepCopies, TInv, LocalsOK
    <3>6. /\ x[r].status = "COMPLETED" => Proven
          /\ inquiry.answered => ChannelAnswered
      <4>1. TruthOf(r) /\ execution \in Executions
        BY DEF Truth, CopiesTruth, TInv, RowsOK
      <4> QED BY <2>3, <4>1, <3>1 DEF RepairBegin, Truth, RowsTruth, TruthOf, Executions
    <3>7. CopiesTruth' BY <3>1, <3>5, <3>6, CopyTruth DEF Truth, TInv
    <3> QED BY <3>3, <3>7 DEF Truth
  <2> QED
    BY <1>2, <2>1, <2>2, <2>3 DEF JobStarts
<1>3. ASSUME NEW r \in Requests, Proceed(r) PROVE Truth'
  <2>1. ASSUME InsertDraft(r) PROVE Truth'
    <3>1. Gains BY <2>1 DEF InsertDraft, Gains, channel
    <3>3. RowsTruth'
      BY <2>1, <3>1, RowsKeepTruth DEF InsertDraft, server, Truth, RowsTruth
    <3>5. Finish(r) BY <2>1 DEF InsertDraft
    <3> QED BY <3>1, <3>3, <3>5, FinishTruth DEF Truth, TInv
  <2>2. ASSUME Bind(r) PROVE Truth'
    <3>1. Gains BY <2>2 DEF Bind, Gains, channel
    <3>3. RowsTruth'
      BY <2>2, <3>1, RowsKeepTruth DEF Bind, server, Truth, RowsTruth, Pending
    <3>5. Goto(r, "read") /\ Drop(r) BY <2>2 DEF Bind
    <3> QED BY <3>1, <3>3, <3>5, DropTruth DEF Truth, TInv
  <2>3. ASSUME BindRefused(r) PROVE Truth'
    <3>1. Gains BY <2>3 DEF BindRefused, Gains, channel
    <3>3. RowsTruth'
      BY <2>3, <3>1, RowsKeepTruth DEF BindRefused, rows, server, Truth, RowsTruth
    <3>5. Finish(r) BY <2>3 DEF BindRefused
    <3> QED BY <3>1, <3>3, <3>5, FinishTruth DEF Truth, TInv
  <2>4. ASSUME ReadPending(r) PROVE Truth'
    <3>1. Gains BY <2>4 DEF ReadPending, Gains, channel
    <3>3. RowsTruth'
      BY <2>4, <3>1, RowsKeepTruth DEF ReadPending, rows, server, Truth, RowsTruth
    <3>5. /\ Goto(r, "check")
          /\ x' = [x EXCEPT ![r] = execution]
          /\ q' = [q EXCEPT ![r] = q[r]]
      BY <2>4 DEF ReadPending, KeepCopies, TInv, LocalsOK
    <3>6. /\ execution.status = "COMPLETED" => Proven
          /\ q[r].answered => ChannelAnswered
      <4>1. TruthOf(r) /\ execution \in Executions
        BY DEF Truth, CopiesTruth, TInv, RowsOK
      <4> QED BY <2>4, <4>1, <3>1 DEF ReadPending, Truth, RowsTruth, TruthOf, Executions
    <3>7. CopiesTruth' BY <3>1, <3>5, <3>6, CopyTruth DEF Truth, TInv
    <3> QED BY <3>3, <3>7 DEF Truth
  <2>5. ASSUME NothingPending(r) PROVE Truth'
    <3>1. Gains BY <2>5 DEF NothingPending, Gains, channel
    <3>3. RowsTruth'
      BY <2>5, <3>1, RowsKeepTruth DEF NothingPending, rows, server, Truth, RowsTruth
    <3>5. Finish(r) BY <2>5 DEF NothingPending
    <3> QED BY <3>1, <3>3, <3>5, FinishTruth DEF Truth, TInv
  <2>6. ASSUME NEW proven \in BOOLEAN, Revalidate(r, proven) PROVE Truth'
    <3>1. Gains BY <2>6 DEF Revalidate, Gains, channel
    <3>3. RowsTruth'
      BY <2>6, <3>1, RowsKeepTruth DEF Revalidate, rows, server, Truth, RowsTruth
    <3>4. CASE Finish(r)
      BY <3>1, <3>3, <3>4, FinishTruth DEF Truth, TInv
    <3>5. CASE Goto(r, "refuse") /\ KeepCopies
      BY <3>1, <3>3, <3>5, KeepTruth DEF Truth, TInv, KeepCopies
    <3>6. CASE Goto(r, "mark") /\ x' = x /\ q' = [q EXCEPT ![r] = inquiry]
      <4>1. x' = [x EXCEPT ![r] = x[r]] BY <3>6 DEF TInv, LocalsOK
      <4>2. /\ x[r].status = "COMPLETED" => Proven
            /\ inquiry.answered => ChannelAnswered
        BY DEF Truth, RowsTruth, CopiesTruth, TruthOf
      <4>3. CopiesTruth' BY <3>1, <3>6, <4>1, <4>2, CopyTruth DEF Truth, TInv
      <4> QED BY <3>3, <4>3 DEF Truth
    <3> QED BY <2>6, <3>4, <3>5, <3>6 DEF Revalidate
  <2>7. ASSUME RecordRefusal(r) PROVE Truth'
    <3>1. Gains /\ x[r] \in Executions
      BY <2>7 DEF RecordRefusal, Gains, channel, TInv, LocalsOK
    <3>3. RowsTruth'
      BY <2>7, <3>1, RowsKeepTruth DEF RecordRefusal, server, Truth, RowsTruth, Executions
    <3>5. Goto(r, "refusedPhase") /\ Drop(r) BY <2>7 DEF RecordRefusal
    <3> QED BY <3>1, <3>3, <3>5, DropTruth DEF Truth, TInv
  <2>8. ASSUME RefusedPhase(r) PROVE Truth'
    <3>1. Gains BY <2>8 DEF RefusedPhase, Gains, channel
    <3>3. RowsTruth'
      BY <2>8, <3>1, RowsKeepTruth DEF RefusedPhase, server, Truth, RowsTruth
    <3>5. Finish(r) BY <2>8 DEF RefusedPhase
    <3> QED BY <3>1, <3>3, <3>5, FinishTruth DEF Truth, TInv
  <2>9. ASSUME MarkDispatching(r) PROVE Truth'
    <3>1. Gains /\ x[r] \in Executions
      BY <2>9 DEF MarkDispatching, Gains, channel, TInv, LocalsOK
    <3>3. RowsTruth'
      BY <2>9, <3>1, RowsKeepTruth DEF MarkDispatching, server, Truth, RowsTruth, Executions
    <3>5. /\ Goto(r, "post")
          /\ x' = [x EXCEPT ![r] = [x[r] EXCEPT !.status = "DISPATCHING"]]
          /\ q' = [q EXCEPT ![r] = q[r]]
      BY <2>9 DEF MarkDispatching, KeepCopies, TInv, LocalsOK
    <3>6. /\ [x[r] EXCEPT !.status = "DISPATCHING"].status = "COMPLETED" => Proven
          /\ q[r].answered => ChannelAnswered
      <4>1. TruthOf(r) /\ execution \in Executions
        BY DEF Truth, CopiesTruth, TInv, RowsOK
      <4> QED BY <2>9, <4>1, <3>1 DEF MarkDispatching, Truth, RowsTruth, TruthOf, Executions
    <3>7. CopiesTruth' BY <3>1, <3>5, <3>6, CopyTruth DEF Truth, TInv
    <3> QED BY <3>3, <3>7 DEF Truth
  <2>10. ASSUME NEW o \in Outcomes, NEW lands \in BOOLEAN, Post(r, o, lands) PROVE Truth'
    <3>1. Gains BY <2>10 DEF Post, Gains, TInv, RowsOK
    <3>3. RowsTruth'
      BY <2>10, <3>1, RowsKeepTruth DEF Post, rows, server, Truth, RowsTruth
    <3>5. Goto(r, "record") /\ x' = x /\ q' = q
      BY <2>10 DEF Post, KeepCopies
    <3> QED BY <3>1, <3>3, <3>5, KeepTruth DEF Truth, TInv
  <2>11. ASSUME RecordOutcome(r) PROVE Truth'
    <3>1. Gains /\ x[r] \in Executions
      BY <2>11 DEF RecordOutcome, Gains, channel, TInv, LocalsOK
    <3>2. AfterOutcome(x[r], outcome[r]).status # "COMPLETED"
      BY <3>1, AfterOutcomeType DEF TInv, LocalsOK, Outcomes
    <3>3. RowsTruth'
      BY <2>11, <3>1, <3>2, RowsKeepTruth DEF RecordOutcome, server, Truth, RowsTruth
    <3>4. CASE Finish(r)
      BY <3>1, <3>3, <3>4, FinishTruth DEF Truth, TInv
    <3>5. ASSUME NEW s \in {"phase", "audit"}, Goto(r, s),
                 x' = [x EXCEPT ![r] = AfterOutcome(x[r], outcome[r])], q' = q
          PROVE  Truth'
      <4>1. q' = [q EXCEPT ![r] = q[r]] BY <3>5 DEF TInv, LocalsOK
      <4>2. q[r].answered => ChannelAnswered
        BY DEF Truth, CopiesTruth, TruthOf
      <4>3. CopiesTruth' BY <3>1, <3>2, <3>5, <4>1, <4>2, CopyTruth DEF Truth, TInv
      <4> QED BY <3>3, <4>3 DEF Truth
    <3> QED BY <2>11, <3>4, <3>5 DEF RecordOutcome
  <2>12. ASSUME PublishedPhase(r) PROVE Truth'
    <3>1. Gains /\ x[r] \in Executions
      BY <2>12 DEF PublishedPhase, Gains, channel, TInv, LocalsOK
    <3>4. TruthOf(r) BY DEF Truth, CopiesTruth
    <3>3. RowsTruth'
      BY <2>12, <3>1, RowsKeepTruth, <3>4 DEF PublishedPhase, server, Truth, RowsTruth,
         TruthOf, Proven, TInv, LocalsOK, PhaseStep
    <3>5. Goto(r, "audit") /\ x' = x /\ q' = q
      BY <2>12 DEF PublishedPhase, KeepCopies
    <3> QED BY <3>1, <3>3, <3>5, KeepTruth DEF Truth, TInv
  <2>13. ASSUME AuditOutcome(r) PROVE Truth'
    <3>1. Gains BY <2>13 DEF AuditOutcome, Gains, channel
    <3>3. RowsTruth'
      BY <2>13, <3>1, RowsKeepTruth DEF AuditOutcome, server, Truth, RowsTruth
    <3>4. CASE Finish(r)
      BY <3>1, <3>3, <3>4, FinishTruth DEF Truth, TInv
    <3>5. CASE Goto(r, "query") /\ x' = x /\ q' = q
      BY <3>1, <3>3, <3>5, KeepTruth DEF Truth, TInv
    <3> QED BY <2>13, <3>4, <3>5 DEF AuditOutcome, KeepCopies
  <2>14. ASSUME NEW verified \in BOOLEAN, QueryChannel(r, verified) PROVE Truth'
    <3>1. Gains BY <2>14 DEF QueryChannel, Gains, channel
    <3>3. RowsTruth'
      BY <2>14, <3>1, RowsKeepTruth DEF QueryChannel, rows, server, Truth, RowsTruth
    <3>4. CASE Finish(r)
      BY <3>1, <3>3, <3>4, FinishTruth DEF Truth, TInv
    <3>5. CASE /\ Goto(r, "verifySave")
               /\ x' = x
               /\ q' = [q EXCEPT ![r] = FreshInquiry]
      <4>1. x' = [x EXCEPT ![r] = x[r]] BY <3>5 DEF TInv, LocalsOK
      <4>2. /\ x[r].status = "COMPLETED" => Proven
            /\ ~FreshInquiry.answered
        BY DEF Truth, CopiesTruth, TruthOf, FreshInquiry
      <4>3. CopiesTruth' BY <3>1, <3>5, <4>1, <4>2, CopyTruth DEF Truth, TInv
      <4> QED BY <3>3, <4>3 DEF Truth
    <3>6. CASE /\ AnswerProven
               /\ x' = [x EXCEPT ![r].status = "COMPLETED"]
               /\ Goto(r, "verifiedPhase")
               /\ q' = q
      <4>1. Proven BY <3>6 DEF AnswerProven, OursStands, ChannelAnswered, Proven
      <4>2. /\ x' = [x EXCEPT ![r] = [x[r] EXCEPT !.status = "COMPLETED"]]
            /\ q' = [q EXCEPT ![r] = q[r]]
        BY <3>6 DEF TInv, LocalsOK
      <4>3. q[r].answered => ChannelAnswered
        BY DEF Truth, CopiesTruth, TruthOf
      <4>4. CopiesTruth' BY <3>1, <3>6, <4>1, <4>2, <4>3, CopyTruth DEF Truth, TInv
      <4> QED BY <3>3, <4>4 DEF Truth
    <3> QED BY <2>14, <3>4, <3>5, <3>6 DEF QueryChannel
  <2>15. ASSUME VerifiedPhase(r) PROVE Truth'
    <3>1. Gains BY <2>15 DEF VerifiedPhase, Gains, channel
    <3>4. TruthOf(r) BY DEF Truth, CopiesTruth
    <3>3. RowsTruth'
      BY <2>15, <3>1, RowsKeepTruth, <3>4 DEF VerifiedPhase, server, Truth, RowsTruth,
         TruthOf, Proven
    <3>5. /\ Goto(r, "markAnswered")
          /\ x' = [x EXCEPT ![r] = x[r]]
          /\ q' = [q EXCEPT ![r] = q[r]]
      BY <2>15 DEF VerifiedPhase, KeepCopies, TInv, LocalsOK
    <3>6. /\ x[r].status = "COMPLETED" => Proven
          /\ Proven
          /\ q[r].answered => ChannelAnswered
      <4>1. TruthOf(r) /\ execution \in Executions
        BY DEF Truth, CopiesTruth, TInv, RowsOK
      <4> QED BY <2>15, <4>1, <3>1 DEF VerifiedPhase, Truth, RowsTruth, TruthOf, Executions
    <3>7. CopiesTruth' BY <3>1, <3>5, <3>6, CopyTruth DEF Truth, TInv
    <3> QED BY <3>3, <3>7 DEF Truth
  <2>16. ASSUME MarkAnswered(r) PROVE Truth'
    <3>1. Gains BY <2>16 DEF MarkAnswered, Gains, channel
    <3>2. inquiry \in Inquiries BY DEF TInv, RowsOK
    <3>4. TruthOf(r) BY DEF Truth, CopiesTruth
    <3>3. RowsTruth'
      BY <2>16, <3>1, <3>2, RowsKeepTruth, <3>4 DEF MarkAnswered, server, Truth, RowsTruth,
         Inquiries, TruthOf, Proven
    <3>5. /\ Goto(r, "verifySave")
          /\ x' = [x EXCEPT ![r] = x[r]]
          /\ q' = [q EXCEPT ![r] = FreshInquiry]
      BY <2>16 DEF MarkAnswered, KeepCopies, TInv, LocalsOK
    <3>6. /\ x[r].status = "COMPLETED" => Proven
          /\ FreshInquiry.answered => ChannelAnswered
      <4>1. TruthOf(r) /\ execution \in Executions
        BY DEF Truth, CopiesTruth, TInv, RowsOK
      <4> QED BY <2>16, <4>1, <3>1 DEF MarkAnswered, Truth, RowsTruth, TruthOf, Executions, FreshInquiry
    <3>7. CopiesTruth' BY <3>1, <3>5, <3>6, CopyTruth DEF Truth, TInv
    <3> QED BY <3>3, <3>7 DEF Truth
  <2>17. ASSUME VerifySave(r) PROVE Truth'
    <3>1. Gains /\ x[r] \in Executions
      BY <2>17 DEF VerifySave, Gains, channel, TInv, LocalsOK
    <3>4. TruthOf(r) BY DEF Truth, CopiesTruth
    <3>3. RowsTruth'
      BY <2>17, <3>1, RowsKeepTruth, <3>4 DEF VerifySave, server, Truth, RowsTruth, TruthOf,
         ChannelAnswered
    <3>5. Finish(r) BY <2>17 DEF VerifySave
    <3> QED BY <3>1, <3>3, <3>5, FinishTruth DEF Truth, TInv
  <2>18. ASSUME AbandonDispatch(r) PROVE Truth'
    <3>1. Gains /\ x[r] \in Executions
      BY <2>18 DEF AbandonDispatch, Gains, channel, TInv, LocalsOK
    <3>4. TruthOf(r) BY DEF Truth, CopiesTruth
    <3>3. RowsTruth'
      BY <2>18, <3>1, RowsKeepTruth, <3>4 DEF AbandonDispatch, server, Truth, RowsTruth,
         TruthOf, ChannelAnswered
    <3>5. /\ Goto(r, "query")
          /\ x' = [x EXCEPT ![r] = x[r]]
          /\ q' = [q EXCEPT ![r] = inquiry]
      BY <2>18 DEF AbandonDispatch, KeepCopies, TInv, LocalsOK
    <3>6. /\ x[r].status = "COMPLETED" => Proven
          /\ inquiry.answered => ChannelAnswered
      <4>1. TruthOf(r) /\ execution \in Executions
        BY DEF Truth, CopiesTruth, TInv, RowsOK
      <4> QED BY <2>18, <4>1, <3>1 DEF AbandonDispatch, Truth, RowsTruth, TruthOf, Executions
    <3>7. CopiesTruth' BY <3>1, <3>5, <3>6, CopyTruth DEF Truth, TInv
    <3> QED BY <3>3, <3>7 DEF Truth
  <2>19. ASSUME NEW correction \in Corrections, AuditRearm(r, correction) PROVE Truth'
    <3>1. Gains BY <2>19 DEF AuditRearm, Gains, channel
    <3>3. RowsTruth'
      BY <2>19, <3>1, RowsKeepTruth DEF AuditRearm, server, Truth, RowsTruth
    <3>4. CASE Finish(r)
      BY <3>1, <3>3, <3>4, FinishTruth DEF Truth, TInv
    <3>5. CASE Goto(r, "rearmSave") /\ x' = x /\ q' = q
      BY <3>1, <3>3, <3>5, KeepTruth DEF Truth, TInv
    <3> QED BY <2>19, <3>4, <3>5 DEF AuditRearm, KeepCopies
  <2>20. ASSUME RearmSave(r) PROVE Truth'
    <3>1. Gains BY <2>20 DEF RearmSave, Gains, channel
    <3>3. RowsTruth'
      BY <2>20, <3>1, RowsKeepTruth DEF RearmSave, server, Truth, RowsTruth, Pending
    <3>5. Goto(r, "rearmPhase") /\ Drop(r) BY <2>20 DEF RearmSave
    <3> QED BY <3>1, <3>3, <3>5, DropTruth DEF Truth, TInv
  <2>21. ASSUME RearmPhase(r) PROVE Truth'
    <3>1. Gains BY <2>21 DEF RearmPhase, Gains, channel
    <3>3. RowsTruth'
      BY <2>21, <3>1, RowsKeepTruth DEF RearmPhase, server, Truth, RowsTruth
    <3>5. Finish(r) BY <2>21 DEF RearmPhase
    <3> QED BY <3>1, <3>3, <3>5, FinishTruth DEF Truth, TInv
  <2>22. ASSUME NEW said \in BOOLEAN, NEW stamped \in BOOLEAN, NEW reply \in BOOLEAN, SweepSave(r, said, stamped, reply) PROVE Truth'
    <3> DEFINE row == FromSource(q[r], said, stamped, reply)
    <3>1. Gains /\ TruthOf(r)
      BY <2>22 DEF SweepSave, Gains, channel, Truth, CopiesTruth
    <3>2. row.answered => ChannelAnswered
      <4>1. q[r] \in Inquiries BY DEF TInv, LocalsOK
      <4> QED BY <2>22, <3>1, <4>1 DEF SweepSave, FromSource, Inquiries, TruthOf
    <3> HIDE DEF row
    <3>3. CASE inquiry' = row /\ Finish(r)
      <4>1. RowsTruth'
        BY <2>22, <3>1, <3>2, <3>3, RowsKeepTruth DEF SweepSave, server, Truth, RowsTruth
      <4>2. CopiesTruth' BY <3>1, <3>3, FinishTruth DEF Truth, TInv
      <4> QED BY <4>1, <4>2 DEF Truth
    <3>4. CASE /\ inquiry' = inquiry
               /\ row.answered
               /\ Goto(r, "sweepClose")
               /\ q' = [q EXCEPT ![r] = row]
               /\ x' = x
      <4>1. RowsTruth'
        BY <2>22, <3>1, <3>4, RowsKeepTruth DEF SweepSave, server, Truth, RowsTruth
      <4>2. x' = [x EXCEPT ![r] = x[r]] BY <3>4 DEF TInv, LocalsOK
      <4>3. x[r].status = "COMPLETED" => Proven BY <3>1 DEF TruthOf
      <4>4. CopiesTruth'
        BY <3>1, <3>2, <3>4, <4>2, <4>3, CopyTruth DEF Truth, TInv
      <4> QED BY <4>1, <4>4 DEF Truth
    <3> QED BY <2>22, <3>3, <3>4 DEF SweepSave, row
  <2>23. ASSUME SweepClose(r) PROVE Truth'
    <3>1. Gains BY <2>23 DEF SweepClose, Gains, channel
    <3>4. TruthOf(r) BY DEF Truth, CopiesTruth
    <3>3. RowsTruth'
      BY <2>23, <3>1, RowsKeepTruth, <3>4 DEF SweepClose, server, Truth, RowsTruth, TruthOf,
         ChannelAnswered
    <3>5. Finish(r) BY <2>23 DEF SweepClose
    <3> QED BY <3>1, <3>3, <3>5, FinishTruth DEF Truth, TInv
  <2>24. ASSUME RepairClose(r) PROVE Truth'
    <3>1. Gains BY <2>24 DEF RepairClose, Gains, channel
    <3>2. q[r] \in Inquiries BY DEF TInv, LocalsOK
    <3>4. TruthOf(r) BY DEF Truth, CopiesTruth
    <3>3. RowsTruth'
      BY <2>24, <3>1, <3>2, RowsKeepTruth, <3>4 DEF RepairClose, server, Truth, RowsTruth,
         Inquiries, TruthOf, ChannelAnswered
    <3>5. Finish(r) BY <2>24 DEF RepairClose
    <3> QED BY <3>1, <3>3, <3>5, FinishTruth DEF Truth, TInv
  <2> QED
    BY <1>3, <2>1, <2>2, <2>3, <2>4, <2>5, <2>6, <2>7, <2>8, <2>9, <2>10, <2>11, <2>12, <2>13,
    <2>14, <2>15, <2>16, <2>17, <2>18, <2>19, <2>20, <2>21, <2>22, <2>23, <2>24 DEF Proceed
<1>4. ASSUME NEW r \in Requests, RequestDies(r) PROVE Truth'
  <2>1. Finish(r) /\ Gains /\ UNCHANGED rows /\ bootx' = bootx
    BY <1>4 DEF RequestDies, Gains, channel
  <2>2. CopiesTruth' BY <2>1, FinishTruth DEF Truth, TInv
  <2>3. RowsTruth' BY <2>1, RowsKeepTruth DEF rows, Truth, RowsTruth
  <2> QED BY <2>2, <2>3 DEF Truth
<1>5. CASE AnsweredElsewhere \/ (\E armed \in BOOLEAN : CrashRestart(armed)) \/ Recover
  <2> USE DEF Truth, RowsTruth, CopiesTruth, TruthOf, ChannelAnswered, Proven, rows, channel,
              locals
  <2>1. CASE AnsweredElsewhere
    BY <1>5, <2>1 DEF AnsweredElsewhere, server
  <2>2. CASE \E armed \in BOOLEAN : CrashRestart(armed)
    BY <2>2 DEF CrashRestart, NoExecution, FreshInquiry
  <2>3. CASE Recover
    <3>1. bootx \in Executions BY DEF TInv, RowsOK
    <3>2. CASE RecoveryScan
      BY <3>2 DEF RecoveryScan, NoExecution
    <3>3. CASE RecoverySave
      BY <3>1, <3>3 DEF RecoverySave, NoExecution, Executions
    <3> QED BY <2>3, <3>2, <3>3 DEF Recover
  <2> QED BY <1>5, <2>1, <2>2, <2>3
<1>6. CASE UNCHANGED vars
  BY <1>6 DEF vars, server, rows, channel, locals, Truth, RowsTruth, CopiesTruth, TruthOf,
              ChannelAnswered, Proven
<1> QED BY <1>1, <1>2, <1>3, <1>4, <1>5, <1>6 DEF Next

\* On every channel, for any interleaving of any number of requests: COMPLETED and
\* ANSWERED are said only of a question that has an answer, and on a channel whose adapter
\* reads the text back COMPLETED on the execution only of the approved one.
THEOREM AnsweredIsTrue == Spec => []AnsweredMeansAnswered
<1>1. Init => IInv /\ Truth
  BY InitType, InitApproved, InitTruth DEF IInv
<1>2. (IInv /\ Truth) /\ [Next]_vars => (IInv /\ Truth)'
  BY StepType, StepApproved, StepTruth DEF IInv, Approved
<1>3. IInv /\ Truth => AnsweredMeansAnswered
  <2> SUFFICES ASSUME IInv, Truth PROVE AnsweredMeansAnswered
    OBVIOUS
  <2>1. posted # <<>> => OursStands
    <3> SUFFICES ASSUME posted # <<>> PROVE OursStands
      OBVIOUS
    <3>1. 1 \in DOMAIN posted
      BY DEF IInv, TInv, RowsOK
    <3>2. PICK a \in approvals : posted[1] = a.seen
      BY <3>1 DEF IInv, Approved, OnlyApprovedAnswers
    <3>3. a.seen = drafts[a.version]
      BY DEF IInv, Approved, ApprovedAsSeen
    <3> QED BY <3>1, <3>2, <3>3 DEF OursStands
  <2> QED BY <2>1 DEF Truth, RowsTruth, Proven, AnsweredMeansAnswered
<1> QED BY <1>1, <1>2, <1>3, PTL DEF Spec

=============================================================================
