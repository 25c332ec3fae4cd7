------------------------ MODULE InquirySerialProofs -------------------------
(***************************************************************************)
(* What holds of InquiryPublish while one seller thread at a time is in a  *)
(* confirm, verify, resume or re-arm.  On every channel a refusal is       *)
(* written down before it is overwritten, and the whole machinery          *)
(* implements AnswerContract.  Where the adapter tells a refused or        *)
(* retryable write from one that landed (TellsApart: CAFE24), the answer   *)
(* also goes out at most once and a sent answer is never in a state        *)
(* something sends from.  Jobs, crashes, deaths and the start-up recovery  *)
(* (which overwrites a later row with the copy it read) still interleave   *)
(* freely with that thread.                                                *)
(*                                                                         *)
(* Nothing in the code gives OneSeller.  With two threads on CAFE24 all    *)
(* four are false: the run publish_doublesend shows it of the first, and   *)
(* the serial configuration with a second seller of the others.            *)
(***************************************************************************)
EXTENDS InquiryPublishProofs

\* The theorems' hypothesis.
OneSeller == \A r, p \in Sellers : r = p

\* The calls an editor, a sweep or a repair is at: none of them touches the execution.
JobSteps == {"idle", "editInsert", "sweepSave", "sweepClose", "repairClose"}

Now == execution.status

\* An answer stands there, and the adapter said nothing that denies it.
Sent == TellsApart /\ posted # <<>>

\* The thread's place, the row by now and the copy it holds, for each part of a request.
\* DELIVERY_UNKNOWN is among the row's statuses everywhere: the start-up recovery may
\* save the DISPATCHING copy it read under the running request.
BeforeSend(r) ==
  /\ pc[r] \in {"check", "refuse", "mark"} =>
       Now \in {"ACTION_PENDING", "DELIVERY_UNKNOWN"} /\ ~Sent
  /\ pc[r] = "post" => Now \in {"DISPATCHING", "DELIVERY_UNKNOWN"} /\ ~Sent

AfterSend(r) ==
  /\ pc[r] = "record" => /\ Now \in {"DISPATCHING", "DELIVERY_UNKNOWN"}
                         /\ Sent => outcome[r] \in {"CONFIRMED", "DELIVERY_UNKNOWN"}
  /\ pc[r] \in {"phase", "audit"} =>
       /\ x[r].status \in {"EXECUTED", "FAILED", "DELIVERY_UNKNOWN"}
       /\ Now \in {x[r].status, "DELIVERY_UNKNOWN"}
       /\ Sent => x[r].status # "FAILED"

Verifying(r) ==
  /\ pc[r] \in {"query", "verifiedPhase", "markAnswered", "verifySave"} =>
       /\ Now \in {"EXECUTED", "DELIVERY_UNKNOWN", "COMPLETED"}
       /\ x[r].status \in {"EXECUTED", "DELIVERY_UNKNOWN", "COMPLETED"}
  /\ pc[r] = "abandon" => /\ Now \in {"DISPATCHING", "DELIVERY_UNKNOWN"}
                          /\ x[r].status = "DELIVERY_UNKNOWN"

Rearming(r) ==
  /\ pc[r] \in {"rearmAudit", "rearmSave"} =>
       /\ ~Sent
       /\ Now \in {"FAILED", "DELIVERY_UNKNOWN"}
       /\ Now = "FAILED" => x[r].reason = execution.reason
  /\ pc[r] = "rearmSave" => \E c \in Corrections : <<x[r].reason, c>> \in rearms

Holds(r) == BeforeSend(r) /\ AfterSend(r) /\ Verifying(r) /\ Rearming(r)

\* What went out, and the row it left.
SentOnce == TellsApart => AtMostOneAnswer /\ SentIsNeverRedispatchable

\* Before the approval there is no row, no answer and nobody to write either.
BeforeApproval ==
  approvals = {} => /\ Now = "NONE" /\ boot # "save" /\ posted = <<>>
                    /\ \A r \in Requests : pc[r] \in JobSteps \cup {"bind"}

\* The inductive invariant.
Serial ==
  /\ SentOnce
  /\ BeforeApproval
  /\ \A r \in Sellers : Holds(r)
  /\ \A r \in Requests \ Sellers : pc[r] \in JobSteps

-----------------------------------------------------------------------------
(* Frames. *)

\* A request that goes on to a call of a job, or ends, changes nothing the invariant
\* speaks of, if the execution, the approval and the answers stay.
LEMMA JobStepKeeps ==
  ASSUME LocalsOK, Serial, NEW r \in Requests, NEW s \in JobSteps, Goto(r, s),
         UNCHANGED <<execution, approvals, posted>>, boot' = boot, rearms \subseteq rearms',
         \A p \in Requests : p # r => x'[p] = x[p] /\ outcome'[p] = outcome[p]
  PROVE  Serial'
<1>1. \A p \in Requests : pc'[p] = IF p = r THEN s ELSE pc[p]
  BY DEF LocalsOK, Goto
<1>2. SentOnce' /\ BeforeApproval'
  BY <1>1 DEF Serial, SentOnce, AtMostOneAnswer, SentIsNeverRedispatchable, BeforeApproval,
              Now, Sent
<1>3. ASSUME NEW p \in Sellers PROVE Holds(p)'
  <2>1. p \in Requests BY DEF Requests
  <2>2. CASE p = r
    BY <1>1, <2>1, <2>2 DEF Holds, BeforeSend, AfterSend, Verifying, Rearming, JobSteps
  <2>3. CASE p # r
    <3>1. pc'[p] = pc[p] /\ x'[p] = x[p] /\ outcome'[p] = outcome[p]
      BY <1>1, <2>1, <2>3
    <3>2. Holds(p) BY DEF Serial
    <3> QED BY <3>1, <3>2 DEF Holds, BeforeSend, AfterSend, Verifying, Rearming, Now, Sent
  <2> QED BY <2>2, <2>3
<1>4. \A p \in Requests \ Sellers : pc'[p] \in JobSteps
  BY <1>1 DEF Serial
<1> QED BY <1>2, <1>3, <1>4 DEF Serial

LEMMA FinishKeeps ==
  ASSUME LocalsOK, Serial, NEW r \in Requests, Finish(r),
         UNCHANGED <<execution, approvals, posted>>, boot' = boot, rearms \subseteq rearms'
  PROVE  Serial'
<1>1. Goto(r, "idle") /\ "idle" \in JobSteps
  BY DEF Finish, JobSteps
<1>2. \A p \in Requests : p # r => x'[p] = x[p] /\ outcome'[p] = outcome[p]
  BY DEF Finish, Drop, LocalsOK
<1> QED BY <1>1, <1>2, JobStepKeeps

\* The one seller thread moves on, after the approval.
LEMMA SellerKeeps ==
  ASSUME OneSeller, LocalsOK, Serial, NEW r \in Sellers, NEW s, Goto(r, s),
         SentOnce', approvals' # {}, Holds(r)'
  PROVE  Serial'
<1>1. \A p \in Sellers : Holds(p)'
  BY DEF OneSeller
<1>2. \A p \in Requests \ Sellers : pc'[p] = pc[p]
  BY DEF LocalsOK, Goto
<1> QED BY <1>1, <1>2 DEF Serial, BeforeApproval

\* A thread at one of the seller's calls is the seller's, and the approval is there.
LEMMA SellersCall ==
  ASSUME Serial, NEW r \in Requests, pc[r] \notin JobSteps
  PROVE  /\ r \in Sellers
         /\ Holds(r)
         /\ pc[r] # "bind" => approvals # {}
BY DEF Serial, BeforeApproval

-----------------------------------------------------------------------------
(* The steps of the seller thread. *)

LEMMA TakeUpSerial ==
  ASSUME OneSeller, TInv, Serial, NEW r \in Sellers,
         \/ Requery(r)
         \/ ResumePending(r)
         \/ ResumeDispatching(r)
         \/ \E c \in Commands, t \in Texts : ConfirmReplay(r, c, t)
         \/ \E proven \in BOOLEAN : Rearm(r, proven)
  PROVE  Serial'
<1> r \in Requests BY DEF Requests
<1>1. UNCHANGED <<execution, approvals, posted, rearms>>
  BY DEF Requery, ResumePending, ResumeDispatching, ConfirmReplay, Rearm, rows, channel
<1>2. SentOnce'
  BY <1>1 DEF Serial, SentOnce, AtMostOneAnswer, SentIsNeverRedispatchable
<1>3. approvals # {}
  BY DEF Requery, ResumePending, ResumeDispatching, ConfirmReplay, Rearm, Serial,
         BeforeApproval, Now
<1>4. /\ pc'[r] \in {"query", "read", "abandon", "rearmAudit"}
      /\ Goto(r, pc'[r])
  BY DEF Requery, ResumePending, ResumeDispatching, ConfirmReplay, Rearm, Goto, TInv, LocalsOK
<1>5. Holds(r)'
  <2>1. CASE pc'[r] = "query"
    <3>1. Requery(r)
      BY <2>1 DEF Requery, ResumePending, ResumeDispatching, ConfirmReplay, Rearm, Goto,
                  TInv, LocalsOK
    <3> QED BY <2>1, <3>1, <1>1
            DEF Requery, TInv, LocalsOK, Holds, BeforeSend, AfterSend, Verifying, Rearming, Now
  <2>2. CASE pc'[r] = "read"
    BY <2>2 DEF Holds, BeforeSend, AfterSend, Verifying, Rearming
  <2>3. CASE pc'[r] = "abandon"
    <3>1. ResumeDispatching(r)
      BY <2>3 DEF Requery, ResumePending, ResumeDispatching, ConfirmReplay, Rearm, Goto,
                  TInv, LocalsOK
    <3>2. x'[r].status = "DELIVERY_UNKNOWN"
      BY <3>1 DEF ResumeDispatching, TInv, LocalsOK, RowsOK, Executions
    <3> QED BY <2>3, <3>1, <3>2, <1>1
            DEF ResumeDispatching, Holds, BeforeSend, AfterSend, Verifying, Rearming, Now
  <2>4. CASE pc'[r] = "rearmAudit"
    <3>1. \E proven \in BOOLEAN : Rearm(r, proven)
      BY <2>4 DEF Requery, ResumePending, ResumeDispatching, ConfirmReplay, Rearm, Goto,
                  TInv, LocalsOK
    <3>2. x'[r] = execution /\ Now = "FAILED"
      BY <3>1 DEF Rearm, TInv, LocalsOK, Now
    <3>3. ~Sent
      BY <3>2 DEF Serial, SentOnce, SentIsNeverRedispatchable, Sent, Now
    <3> QED BY <2>4, <3>2, <3>3, <1>1
            DEF Holds, BeforeSend, AfterSend, Verifying, Rearming, Now, Sent
  <2> QED BY <1>4, <2>1, <2>2, <2>3, <2>4
<1> QED BY <1>1, <1>2, <1>3, <1>4, <1>5, SellerKeeps DEF TInv

LEMMA ConfirmFirstSerial ==
  ASSUME OneSeller, TInv, Serial, NEW r \in Sellers, NEW c \in Commands, NEW t \in Texts,
         ConfirmFirst(r, c, t)
  PROVE  Serial'
<1> r \in Requests BY DEF Requests
<1>1. /\ UNCHANGED <<execution, approvals, posted, boot>>
      /\ \A p \in Requests : pc'[p] = IF p = r THEN "bind" ELSE pc[p]
  BY DEF ConfirmFirst, rows, channel, server, Goto, TInv, LocalsOK
<1>2. SentOnce' /\ BeforeApproval'
  BY <1>1 DEF Serial, SentOnce, AtMostOneAnswer, SentIsNeverRedispatchable, BeforeApproval,
              Now, Sent
<1>3. \A p \in Sellers : Holds(p)'
  BY <1>1 DEF OneSeller, Holds, BeforeSend, AfterSend, Verifying, Rearming
<1>4. \A p \in Requests \ Sellers : pc'[p] \in JobSteps
  BY <1>1 DEF Serial
<1> QED BY <1>2, <1>3, <1>4 DEF Serial

LEMMA BindSerial ==
  ASSUME OneSeller, TInv, Serial, NEW r \in Requests, Bind(r)
  PROVE  Serial'
<1>1. r \in Sellers /\ Goto(r, "read") /\ pc'[r] = "read"
  BY SellersCall DEF Bind, JobSteps, Goto, TInv, LocalsOK
<1>2. SentOnce'
  BY DEF Bind, Serial, BeforeApproval, Sent, SentOnce, AtMostOneAnswer,
         SentIsNeverRedispatchable, channel
<1>3. approvals' # {} BY DEF Bind
<1>4. Holds(r)' BY <1>1 DEF Holds, BeforeSend, AfterSend, Verifying, Rearming
<1> QED BY <1>1, <1>2, <1>3, <1>4, SellerKeeps DEF TInv

LEMMA BeforeSendSerial ==
  ASSUME OneSeller, TInv, Serial, NEW r \in Requests,
         ReadPending(r) \/ (\E proven \in BOOLEAN : Revalidate(r, proven) /\ pc'[r] # "idle")
  PROVE  Serial'
<1>1. UNCHANGED <<execution, approvals, posted, rearms>>
  BY DEF ReadPending, Revalidate, rows, channel
<1>2. /\ r \in Sellers
      /\ Holds(r)
      /\ approvals # {}
  BY SellersCall DEF ReadPending, Revalidate, JobSteps
<1>3. pc'[r] \in {"check", "refuse", "mark"} /\ Goto(r, pc'[r])
  BY DEF ReadPending, Revalidate, Goto, TInv, LocalsOK, Finish
<1>4. Now \in {"ACTION_PENDING", "DELIVERY_UNKNOWN"} /\ ~Sent
  BY <1>2 DEF ReadPending, Revalidate, Serial, SentOnce, SentIsNeverRedispatchable, Sent, Now,
              Holds, BeforeSend
<1>5. Holds(r)'
  BY <1>1, <1>3, <1>4 DEF Holds, BeforeSend, AfterSend, Verifying, Rearming, Now, Sent
<1>6. SentOnce'
  BY <1>1 DEF Serial, SentOnce, AtMostOneAnswer, SentIsNeverRedispatchable
<1> QED BY <1>1, <1>2, <1>3, <1>5, <1>6, SellerKeeps DEF TInv

LEMMA RecordRefusalSerial ==
  ASSUME OneSeller, TInv, Serial, NEW r \in Requests, RecordRefusal(r)
  PROVE  Serial'
<1>1. r \in Sellers /\ Holds(r) /\ approvals # {}
  BY SellersCall DEF RecordRefusal, JobSteps
<1>2. ~Sent /\ posted' = posted
  BY <1>1 DEF RecordRefusal, Holds, BeforeSend, channel
<1>3. SentOnce'
  BY <1>2 DEF Serial, SentOnce, AtMostOneAnswer, SentIsNeverRedispatchable, Sent
<1>4. Goto(r, "refusedPhase") /\ pc'[r] = "refusedPhase" /\ approvals' = approvals
  BY DEF RecordRefusal, Goto, TInv, LocalsOK
<1>5. Holds(r)'
  BY <1>4 DEF Holds, BeforeSend, AfterSend, Verifying, Rearming
<1> QED BY <1>1, <1>3, <1>4, <1>5, SellerKeeps DEF TInv

LEMMA MarkDispatchingSerial ==
  ASSUME OneSeller, TInv, Serial, NEW r \in Requests, MarkDispatching(r)
  PROVE  Serial'
<1>1. r \in Sellers /\ Holds(r) /\ approvals # {}
  BY SellersCall DEF MarkDispatching, JobSteps
<1>2. ~Sent /\ posted' = posted
  BY <1>1 DEF MarkDispatching, Holds, BeforeSend, channel
<1>3. SentOnce'
  BY <1>2 DEF Serial, SentOnce, AtMostOneAnswer, SentIsNeverRedispatchable, Sent
<1>4. Goto(r, "post") /\ pc'[r] = "post" /\ approvals' = approvals
  BY DEF MarkDispatching, Goto, TInv, LocalsOK
<1>5. execution'.status = "DISPATCHING"
  BY DEF MarkDispatching, TInv, LocalsOK, Executions
<1>6. Holds(r)'
  BY <1>2, <1>4, <1>5 DEF Holds, BeforeSend, AfterSend, Verifying, Rearming, Now, Sent
<1> QED BY <1>1, <1>3, <1>4, <1>6, SellerKeeps DEF TInv

\* The channel's write: this is where the invariant meets the world.
LEMMA PostSerial ==
  ASSUME OneSeller, TInv, ApprovedAsSeen, Serial, NEW r \in Requests, NEW o \in Outcomes,
         NEW lands \in BOOLEAN, Post(r, o, lands)
  PROVE  Serial'
<1>1. r \in Sellers /\ Holds(r) /\ approvals # {}
  BY SellersCall DEF Post, JobSteps
<1>2. (TellsApart => posted = <<>>) /\ Now \in {"DISPATCHING", "DELIVERY_UNKNOWN"}
  BY <1>1 DEF Post, Holds, BeforeSend, Sent
<1>3. execution' = execution /\ approvals' = approvals
  BY DEF Post, rows
<1>4. TellsApart => /\ Len(posted') <= 1
                    /\ posted' # <<>> => lands
  <2>1. CASE lands
    <3>1. PICK a \in approvals : posted' = Append(posted, drafts[a.version])
      BY <2>1 DEF Post
    <3>2. drafts[a.version] \in Texts
      BY DEF ApprovedAsSeen, TInv, RowsOK
    <3> QED BY <1>2, <2>1, <3>1, <3>2
  <2>2. CASE ~lands
    BY <1>2, <2>2 DEF Post
  <2> QED BY <2>1, <2>2
<1>5. SentOnce'
  BY <1>2, <1>3, <1>4 DEF SentOnce, AtMostOneAnswer, SentIsNeverRedispatchable, Now
<1>6. Goto(r, "record") /\ pc'[r] = "record" /\ outcome'[r] = o
  BY DEF Post, Goto, TInv, LocalsOK
<1>7. Sent' => o \in {"CONFIRMED", "DELIVERY_UNKNOWN"}
  BY <1>4 DEF Post, Sent, TellsApart, MayHaveLanded, LandedRetryable, LandedRefused
<1>8. Holds(r)'
  BY <1>2, <1>3, <1>6, <1>7 DEF Holds, BeforeSend, AfterSend, Verifying, Rearming, Now, Sent
<1> QED BY <1>1, <1>3, <1>5, <1>6, <1>8, SellerKeeps DEF TInv

LEMMA RecordOutcomeSerial ==
  ASSUME OneSeller, TInv, Serial, NEW r \in Requests, RecordOutcome(r)
  PROVE  Serial'
<1> DEFINE after == AfterOutcome(x[r], outcome[r])
<1>1. r \in Sellers /\ Holds(r) /\ approvals # {}
  BY SellersCall DEF RecordOutcome, JobSteps
<1>2. x[r] \in Executions /\ outcome[r] \in Outcomes
  BY DEF TInv, LocalsOK
<1>3. /\ outcome[r] = "CONFIRMED" => after.status = "EXECUTED"
      /\ outcome[r] = "PERMANENT_FAILURE" => after.status = "FAILED"
      /\ outcome[r] = "DELIVERY_UNKNOWN" => after.status = "DELIVERY_UNKNOWN"
      /\ outcome[r] = "RETRYABLE_FAILURE" => after.status = "ACTION_PENDING"
  BY <1>2, AfterOutcomeType
<1>4. Sent => outcome[r] \in {"CONFIRMED", "DELIVERY_UNKNOWN"}
  BY <1>1 DEF RecordOutcome, Holds, AfterSend
<1>5. execution' = after /\ posted' = posted /\ approvals' = approvals
  BY DEF RecordOutcome, channel
<1> HIDE DEF after
<1>6. SentOnce'
  BY <1>3, <1>4, <1>5 DEF Serial, SentOnce, AtMostOneAnswer, SentIsNeverRedispatchable, Sent
<1>7. CASE outcome[r] = "RETRYABLE_FAILURE"
  <2>1. Goto(r, "idle") /\ pc'[r] = "idle"
    BY <1>7 DEF RecordOutcome, Finish, Goto, TInv, LocalsOK
  <2>2. Holds(r)'
    BY <2>1 DEF Holds, BeforeSend, AfterSend, Verifying, Rearming
  <2> QED BY <1>1, <1>5, <1>6, <2>1, <2>2, SellerKeeps DEF TInv
<1>8. CASE outcome[r] # "RETRYABLE_FAILURE"
  <2>1. Goto(r, pc'[r]) /\ pc'[r] \in {"phase", "audit"} /\ x'[r] = after
    BY <1>8 DEF RecordOutcome, Goto, TInv, LocalsOK, after
  <2>2. Holds(r)'
    BY <1>2, <1>3, <1>4, <1>5, <1>8, <2>1
       DEF Holds, BeforeSend, AfterSend, Verifying, Rearming, Now, Sent, Outcomes
  <2> QED BY <1>1, <1>5, <1>6, <2>1, <2>2, SellerKeeps DEF TInv
<1> QED BY <1>7, <1>8

\* Nothing of a request is written between the outcome and the verification, and the
\* verification writes only what it read.
LEMMA VerifyStepsSerial ==
  ASSUME OneSeller, TInv, Serial, NEW r \in Requests,
         \/ PublishedPhase(r)
         \/ AuditOutcome(r) /\ pc'[r] # "idle"
         \/ (\E verified \in BOOLEAN : QueryChannel(r, verified)) /\ pc'[r] # "idle"
         \/ VerifiedPhase(r)
         \/ MarkAnswered(r)
  PROVE  Serial'
<1>1. /\ UNCHANGED <<execution, approvals, posted, rearms>>
      /\ pc[r] \in {"phase", "audit", "query", "verifiedPhase", "markAnswered"}
  BY DEF PublishedPhase, AuditOutcome, QueryChannel, VerifiedPhase, MarkAnswered, rows, channel
<1>2. r \in Sellers /\ Holds(r) /\ approvals # {}
  BY <1>1, SellersCall DEF JobSteps
<1>3. SentOnce'
  BY <1>1 DEF Serial, SentOnce, AtMostOneAnswer, SentIsNeverRedispatchable
<1>4. x[r] \in Executions
  BY <1>2 DEF TInv, LocalsOK, Requests
<1>5. Goto(r, pc'[r]) /\ Holds(r)'
  <2>1. CASE PublishedPhase(r)
    <3>1. Goto(r, "audit") /\ pc'[r] = "audit" /\ x'[r] = x[r] /\ pc[r] = "phase"
      BY <2>1 DEF PublishedPhase, KeepCopies, Goto, TInv, LocalsOK
    <3> QED BY <1>1, <1>2, <3>1
            DEF Holds, BeforeSend, AfterSend, Verifying, Rearming, Now, Sent
  <2>2. CASE AuditOutcome(r) /\ pc'[r] # "idle"
    <3>1. /\ Goto(r, "query") /\ pc'[r] = "query" /\ x'[r] = x[r]
          /\ pc[r] = "audit" /\ x[r].status = "EXECUTED"
      BY <2>2 DEF AuditOutcome, KeepCopies, Finish, Goto, TInv, LocalsOK
    <3> QED BY <1>1, <1>2, <3>1
            DEF Holds, BeforeSend, AfterSend, Verifying, Rearming, Now, Sent
  <2>3. CASE (\E verified \in BOOLEAN : QueryChannel(r, verified)) /\ pc'[r] # "idle"
    <3>1. /\ pc[r] = "query" /\ pc'[r] \in {"verifiedPhase", "verifySave"}
          /\ Goto(r, pc'[r])
          /\ x'[r].status \in {x[r].status, "COMPLETED"}
      BY <1>4, <2>3 DEF QueryChannel, Finish, Goto, TInv, LocalsOK, Executions
    <3> QED BY <1>1, <1>2, <3>1
            DEF Holds, BeforeSend, AfterSend, Verifying, Rearming, Now, Sent
  <2>4. CASE VerifiedPhase(r)
    <3>1. /\ Goto(r, "markAnswered") /\ pc'[r] = "markAnswered" /\ x'[r] = x[r]
          /\ pc[r] = "verifiedPhase"
      BY <2>4 DEF VerifiedPhase, KeepCopies, Goto, TInv, LocalsOK
    <3> QED BY <1>1, <1>2, <3>1
            DEF Holds, BeforeSend, AfterSend, Verifying, Rearming, Now, Sent
  <2>5. CASE MarkAnswered(r)
    <3>1. /\ Goto(r, "verifySave") /\ pc'[r] = "verifySave" /\ x'[r] = x[r]
          /\ pc[r] = "markAnswered"
      BY <2>5 DEF MarkAnswered, Goto, TInv, LocalsOK
    <3> QED BY <1>1, <1>2, <3>1
            DEF Holds, BeforeSend, AfterSend, Verifying, Rearming, Now, Sent
  <2> QED BY <2>1, <2>2, <2>3, <2>4, <2>5
<1> QED BY <1>1, <1>2, <1>3, <1>5, SellerKeeps DEF TInv

LEMMA VerifySaveSerial ==
  ASSUME OneSeller, TInv, Serial, NEW r \in Requests, VerifySave(r)
  PROVE  Serial'
<1>1. r \in Sellers /\ Holds(r) /\ approvals # {}
  BY SellersCall DEF VerifySave, JobSteps
<1>2. /\ execution' = x[r] /\ posted' = posted /\ approvals' = approvals
      /\ x[r].status \in {"EXECUTED", "DELIVERY_UNKNOWN", "COMPLETED"}
  BY <1>1 DEF VerifySave, Holds, Verifying, channel
<1>3. SentOnce'
  BY <1>2 DEF Serial, SentOnce, AtMostOneAnswer, SentIsNeverRedispatchable
<1>4. Goto(r, "idle") /\ pc'[r] = "idle"
  BY DEF VerifySave, Finish, Goto, TInv, LocalsOK
<1>5. Holds(r)'
  BY <1>4 DEF Holds, BeforeSend, AfterSend, Verifying, Rearming
<1> QED BY <1>1, <1>2, <1>3, <1>4, <1>5, SellerKeeps DEF TInv

LEMMA AbandonDispatchSerial ==
  ASSUME OneSeller, TInv, Serial, NEW r \in Requests, AbandonDispatch(r)
  PROVE  Serial'
<1>1. r \in Sellers /\ Holds(r) /\ approvals # {}
  BY SellersCall DEF AbandonDispatch, JobSteps
<1>2. /\ execution' = x[r] /\ posted' = posted /\ approvals' = approvals /\ x' = x
      /\ x[r].status = "DELIVERY_UNKNOWN"
  BY <1>1 DEF AbandonDispatch, Holds, Verifying, channel
<1>3. SentOnce'
  BY <1>2 DEF Serial, SentOnce, AtMostOneAnswer, SentIsNeverRedispatchable
<1>4. Goto(r, "query") /\ pc'[r] = "query"
  BY DEF AbandonDispatch, Goto, TInv, LocalsOK
<1>5. Holds(r)'
  BY <1>2, <1>4 DEF Holds, BeforeSend, AfterSend, Verifying, Rearming, Now
<1> QED BY <1>1, <1>2, <1>3, <1>4, <1>5, SellerKeeps DEF TInv

\* The refused attempt is on record before the row is put back.
LEMMA AuditRearmSerial ==
  ASSUME OneSeller, TInv, Serial, NEW r \in Requests, NEW correction \in Corrections,
         AuditRearm(r, correction), pc'[r] # "idle"
  PROVE  Serial'
<1>1. r \in Sellers /\ Holds(r) /\ approvals # {}
  BY SellersCall DEF AuditRearm, JobSteps
<1>2. /\ UNCHANGED <<execution, approvals, posted>>
      /\ pc[r] = "rearmAudit"
      /\ <<x[r].reason, correction>> \in rearms'
  BY DEF AuditRearm, channel
<1>3. SentOnce'
  BY <1>2 DEF Serial, SentOnce, AtMostOneAnswer, SentIsNeverRedispatchable
<1>4. Goto(r, "rearmSave") /\ pc'[r] = "rearmSave" /\ x' = x
  BY <1>1 DEF AuditRearm, KeepCopies, Finish, Goto, TInv, LocalsOK, Requests
<1>5. Holds(r)'
  BY <1>1, <1>2, <1>4 DEF Holds, BeforeSend, AfterSend, Verifying, Rearming, Now, Sent
<1> QED BY <1>1, <1>2, <1>3, <1>4, <1>5, SellerKeeps DEF TInv

LEMMA RearmSaveSerial ==
  ASSUME OneSeller, TInv, Serial, NEW r \in Requests, RearmSave(r)
  PROVE  Serial'
<1>1. r \in Sellers /\ Holds(r) /\ approvals # {}
  BY SellersCall DEF RearmSave, JobSteps
<1>2. ~Sent /\ posted' = posted /\ approvals' = approvals
  BY <1>1 DEF RearmSave, Holds, Rearming, channel
<1>3. SentOnce'
  BY <1>2 DEF Serial, SentOnce, AtMostOneAnswer, SentIsNeverRedispatchable, Sent
<1>4. Goto(r, "rearmPhase") /\ pc'[r] = "rearmPhase"
  BY DEF RearmSave, Goto, TInv, LocalsOK
<1>5. Holds(r)'
  BY <1>4 DEF Holds, BeforeSend, AfterSend, Verifying, Rearming
<1> QED BY <1>1, <1>2, <1>3, <1>4, <1>5, SellerKeeps DEF TInv

-----------------------------------------------------------------------------
(* The steps that end a request, the jobs and the server. *)

\* Every call after which the request answers its caller without a write to the
\* execution.
LEMMA EndingSerial ==
  ASSUME TInv, Serial, NEW r \in Requests, Finish(r),
         \/ InsertDraft(r)
         \/ BindRefused(r)
         \/ NothingPending(r)
         \/ \E proven \in BOOLEAN : Revalidate(r, proven)
         \/ RefusedPhase(r)
         \/ AuditOutcome(r)
         \/ \E verified \in BOOLEAN : QueryChannel(r, verified)
         \/ \E correction \in Corrections : AuditRearm(r, correction)
         \/ RearmPhase(r)
         \/ \E said, stamped, reply \in BOOLEAN : SweepSave(r, said, stamped, reply)
         \/ SweepClose(r)
         \/ RepairClose(r)
         \/ RequestDies(r)
  PROVE  Serial'
<1>1. UNCHANGED <<execution, approvals, posted, boot>> /\ rearms \subseteq rearms'
  BY DEF InsertDraft, BindRefused, NothingPending, Revalidate, RefusedPhase, AuditOutcome,
         QueryChannel, AuditRearm, RearmPhase, SweepSave, SweepClose, RepairClose,
         RequestDies, rows, channel, server
<1> QED BY <1>1, FinishKeeps DEF TInv

LEMMA JobsSerial ==
  ASSUME TInv, Serial, NEW r \in Requests,
         \/ JobStarts(r)
         \/ /\ \E said, stamped, reply \in BOOLEAN : SweepSave(r, said, stamped, reply)
            /\ pc'[r] # "idle"
  PROVE  Serial'
<1>1. /\ UNCHANGED <<execution, approvals, posted, boot, rearms, x, outcome>>
      /\ pc'[r] \in JobSteps
      /\ Goto(r, pc'[r])
  BY DEF JobStarts, EditDraft, SweepRead, RepairBegin, SweepSave, Finish, Goto, JobSteps,
         TInv, LocalsOK, rows, channel, server
<1> QED BY <1>1, JobStepKeeps DEF TInv

LEMMA ServerSerial ==
  ASSUME TInv, Serial,
         AnsweredElsewhere \/ (\E armed \in BOOLEAN : CrashRestart(armed)) \/ Recover
  PROVE  Serial'
<1>1. CASE AnsweredElsewhere
  BY <1>1 DEF AnsweredElsewhere, rows, locals, server, Serial, SentOnce, AtMostOneAnswer,
              SentIsNeverRedispatchable, BeforeApproval, Holds, BeforeSend, AfterSend,
              Verifying, Rearming, Now, Sent
<1>2. CASE \E armed \in BOOLEAN : CrashRestart(armed)
  <2>1. /\ \A p \in Requests : pc'[p] = "idle"
        /\ boot' = "scan"
        /\ UNCHANGED <<execution, approvals, posted>>
    BY <1>2 DEF CrashRestart, rows, channel
  <2>2. \A p \in Sellers : Holds(p)'
    BY <2>1 DEF Holds, BeforeSend, AfterSend, Verifying, Rearming, Requests
  <2> QED BY <2>1, <2>2 DEF Serial, SentOnce, AtMostOneAnswer, SentIsNeverRedispatchable,
                            BeforeApproval, JobSteps, Now, Sent
<1>3. CASE RecoveryScan
  <2>1. /\ UNCHANGED <<execution, approvals, posted, rearms, pc, x, outcome>>
        /\ boot' = "save" => Now = "DISPATCHING"
    BY <1>3 DEF RecoveryScan, rows, channel, locals, Now
  <2>2. \A p \in Sellers : Holds(p)'
    BY <2>1 DEF Serial, Holds, BeforeSend, AfterSend, Verifying, Rearming, Now, Sent
  <2> QED BY <2>1, <2>2 DEF Serial, SentOnce, AtMostOneAnswer, SentIsNeverRedispatchable,
                            BeforeApproval, Now, Sent
<1>4. CASE RecoverySave
  <2>1. /\ UNCHANGED <<approvals, posted, rearms, pc, x, outcome>>
        /\ execution'.status = "DELIVERY_UNKNOWN"
        /\ boot = "save"
    BY <1>4 DEF RecoverySave, channel, locals, TInv, RowsOK, Executions
  <2>2. \A p \in Sellers : Holds(p)'
    BY <2>1 DEF Serial, Holds, BeforeSend, AfterSend, Verifying, Rearming, Now, Sent
  <2> QED BY <2>1, <2>2 DEF Serial, SentOnce, AtMostOneAnswer, SentIsNeverRedispatchable,
                            BeforeApproval, Now, Sent
<1> QED BY <1>1, <1>2, <1>3, <1>4 DEF Recover

LEMMA StepSerial ==
  ASSUME OneSeller, TInv, ApprovedAsSeen, Serial, [Next]_vars
  PROVE  Serial'
<1>1. ASSUME NEW r \in Sellers, SellerCalls(r) PROVE Serial'
  <2>1. ASSUME NEW c \in Commands, NEW t \in Texts, ConfirmFirst(r, c, t) PROVE Serial'
    BY <2>1, ConfirmFirstSerial
  <2> QED BY <1>1, <2>1, TakeUpSerial DEF SellerCalls
<1>2. ASSUME NEW r \in Jobs, JobStarts(r) PROVE Serial'
  BY <1>2, JobsSerial DEF Requests
<1>3. ASSUME NEW r \in Requests, Proceed(r) PROVE Serial'
  <2>1. ASSUME InsertDraft(r) \/ BindRefused(r) \/ NothingPending(r) \/ RefusedPhase(r)
               \/ RearmPhase(r) \/ SweepClose(r) \/ RepairClose(r)
        PROVE  Serial'
    <3>1. Finish(r)
      BY <2>1 DEF InsertDraft, BindRefused, NothingPending, RefusedPhase, RearmPhase,
                  SweepClose, RepairClose
    <3> QED BY <2>1, <3>1, EndingSerial
  <2>2. ASSUME Bind(r) PROVE Serial'
    BY <2>2, BindSerial
  <2>3. ASSUME ReadPending(r) PROVE Serial'
    BY <2>3, BeforeSendSerial
  <2>4. ASSUME NEW proven \in BOOLEAN, Revalidate(r, proven) PROVE Serial'
    <3>1. Finish(r) \/ pc'[r] # "idle"
      BY <2>4 DEF Revalidate, Goto, TInv, LocalsOK
    <3> QED BY <2>4, <3>1, EndingSerial, BeforeSendSerial
  <2>5. ASSUME RecordRefusal(r) PROVE Serial'
    BY <2>5, RecordRefusalSerial
  <2>6. ASSUME MarkDispatching(r) PROVE Serial'
    BY <2>6, MarkDispatchingSerial
  <2>7. ASSUME NEW o \in Outcomes, NEW lands \in BOOLEAN, Post(r, o, lands) PROVE Serial'
    BY <2>7, PostSerial
  <2>8. ASSUME RecordOutcome(r) PROVE Serial'
    BY <2>8, RecordOutcomeSerial
  <2>9. ASSUME PublishedPhase(r) \/ VerifiedPhase(r) \/ MarkAnswered(r) PROVE Serial'
    BY <2>9, VerifyStepsSerial
  <2>10. ASSUME AuditOutcome(r) PROVE Serial'
    <3>1. Finish(r) \/ pc'[r] # "idle"
      BY <2>10 DEF AuditOutcome, Goto, TInv, LocalsOK
    <3> QED BY <2>10, <3>1, EndingSerial, VerifyStepsSerial
  <2>11. ASSUME NEW verified \in BOOLEAN, QueryChannel(r, verified) PROVE Serial'
    <3>1. Finish(r) \/ pc'[r] # "idle"
      BY <2>11 DEF QueryChannel, Goto, TInv, LocalsOK
    <3> QED BY <2>11, <3>1, EndingSerial, VerifyStepsSerial
  <2>12. ASSUME VerifySave(r) PROVE Serial'
    BY <2>12, VerifySaveSerial
  <2>13. ASSUME AbandonDispatch(r) PROVE Serial'
    BY <2>13, AbandonDispatchSerial
  <2>14. ASSUME NEW correction \in Corrections, AuditRearm(r, correction) PROVE Serial'
    <3>1. Finish(r) \/ pc'[r] # "idle"
      BY <2>14 DEF AuditRearm, Goto, TInv, LocalsOK
    <3> QED BY <2>14, <3>1, EndingSerial, AuditRearmSerial
  <2>15. ASSUME RearmSave(r) PROVE Serial'
    BY <2>15, RearmSaveSerial
  <2>16. ASSUME NEW said \in BOOLEAN, NEW stamped \in BOOLEAN, NEW reply \in BOOLEAN,
                SweepSave(r, said, stamped, reply)
         PROVE  Serial'
    <3>1. Finish(r) \/ pc'[r] # "idle"
      BY <2>16 DEF SweepSave, Goto, TInv, LocalsOK
    <3> QED BY <2>16, <3>1, EndingSerial, JobsSerial
  <2> QED
    BY <1>3, <2>1, <2>2, <2>3, <2>4, <2>5, <2>6, <2>7, <2>8, <2>9, <2>10, <2>11, <2>12,
       <2>13, <2>14, <2>15, <2>16 DEF Proceed
<1>4. ASSUME NEW r \in Requests, RequestDies(r) PROVE Serial'
  BY <1>4, EndingSerial DEF RequestDies
<1>5. CASE AnsweredElsewhere \/ (\E armed \in BOOLEAN : CrashRestart(armed)) \/ Recover
  BY <1>5, ServerSerial
<1>6. CASE UNCHANGED vars
  BY <1>6 DEF vars, rows, channel, locals, server, Serial, SentOnce, AtMostOneAnswer,
              SentIsNeverRedispatchable, BeforeApproval, Holds, BeforeSend, AfterSend,
              Verifying, Rearming, Now, Sent
<1> QED BY <1>1, <1>2, <1>3, <1>4, <1>5, <1>6 DEF Next

LEMMA InitSerial == Init => Serial
BY DEF Init, NoExecution, Serial, SentOnce, AtMostOneAnswer, SentIsNeverRedispatchable,
       BeforeApproval, Holds, BeforeSend, AfterSend, Verifying, Rearming, Now, Sent, JobSteps,
       Requests

THEOREM SerialInductive ==
  ASSUME OneSeller
  PROVE  Spec => []Serial
<1>1. Init => Serial
  BY InitSerial
<1>2. IInv /\ Serial /\ [Next]_vars => Serial'
  BY StepSerial DEF IInv, Approved
<1> QED BY <1>1, <1>2, Inductive, PTL DEF Spec

\* With one seller thread at a time, and on a channel whose adapter calls no write refused
\* or retryable that may have landed, the approved answer goes out at most once, wherever
\* the process or the request dies.
THEOREM OneAnswerAtMost ==
  ASSUME OneSeller, TellsApart
  PROVE  Spec => []AtMostOneAnswer
<1>1. Serial => AtMostOneAnswer
  BY DEF Serial, SentOnce
<1> QED BY <1>1, SerialInductive, PTL

\* ... and an answer that stands there is never in a state that is sent from.
THEOREM SentIsNotSentAgain ==
  ASSUME OneSeller, TellsApart
  PROVE  Spec => []SentIsNeverRedispatchable
<1>1. Serial => SentIsNeverRedispatchable
  BY DEF Serial, SentOnce
<1> QED BY <1>1, SerialInductive, PTL

-----------------------------------------------------------------------------
(* A refusal is written down. *)

\* The steps that may write the execution row.
LEMMA ExecutionWriters ==
  ASSUME [Next]_vars, execution' # execution
  PROVE  \/ \E r \in Requests : \/ Bind(r) \/ RecordRefusal(r) \/ MarkDispatching(r)
                                \/ RecordOutcome(r) \/ VerifySave(r) \/ AbandonDispatch(r)
                                \/ RearmSave(r)
         \/ RecoverySave
<1>1. ASSUME NEW r \in Sellers, SellerCalls(r) PROVE FALSE
  BY <1>1 DEF SellerCalls, ConfirmFirst, ConfirmReplay, Requery, ResumePending,
              ResumeDispatching, Rearm, rows
<1>2. ASSUME NEW r \in Jobs, JobStarts(r) PROVE FALSE
  BY <1>2 DEF JobStarts, EditDraft, SweepRead, RepairBegin, rows
<1>3. ASSUME NEW r \in Requests, Proceed(r)
      PROVE  \/ Bind(r) \/ RecordRefusal(r) \/ MarkDispatching(r) \/ RecordOutcome(r)
             \/ VerifySave(r) \/ AbandonDispatch(r) \/ RearmSave(r)
  BY <1>3 DEF Proceed, InsertDraft, BindRefused, ReadPending, NothingPending, Revalidate,
              RefusedPhase, Post, PublishedPhase, AuditOutcome, QueryChannel, VerifiedPhase,
              MarkAnswered, AuditRearm, RearmPhase, SweepSave, SweepClose, RepairClose, rows
<1>4. ASSUME NEW r \in Requests, RequestDies(r) PROVE FALSE
  BY <1>4 DEF RequestDies, rows
<1>5. ASSUME AnsweredElsewhere \/ (\E armed \in BOOLEAN : CrashRestart(armed)) \/ RecoveryScan
      PROVE  FALSE
  BY <1>5 DEF AnsweredElsewhere, CrashRestart, RecoveryScan, rows
<1>6. ~UNCHANGED vars
  BY DEF vars, rows
<1> QED BY <1>1, <1>2, <1>3, <1>4, <1>5, <1>6 DEF Next, Recover

\* Who finds a FAILED row and writes another status is the re-arm, past its audit row, or
\* the start-up recovery.
LEMMA RefusalStep ==
  ASSUME TInv, Serial, [Next]_vars,
         execution.status = "FAILED", execution'.status \notin {"FAILED", "DELIVERY_UNKNOWN"}
  PROVE  /\ execution'.status = "ACTION_PENDING"
         /\ \E c \in Corrections : <<execution.reason, c>> \in rearms
<1>1. ASSUME NEW r \in Requests,
             Bind(r) \/ RecordRefusal(r) \/ MarkDispatching(r) \/ RecordOutcome(r)
               \/ VerifySave(r) \/ AbandonDispatch(r)
      PROVE  FALSE
  <2>1. r \in Sellers /\ Holds(r)
    BY <1>1, SellersCall DEF Bind, RecordRefusal, MarkDispatching, RecordOutcome, VerifySave,
                             AbandonDispatch, JobSteps
  <2>2. ~Bind(r)
    BY DEF Bind, Serial, BeforeApproval, Now
  <2>3. ~RecordRefusal(r)
    BY <2>1 DEF RecordRefusal, Holds, BeforeSend, Now
  <2>4. ~MarkDispatching(r)
    BY <2>1 DEF MarkDispatching, Holds, BeforeSend, Now
  <2>5. ~RecordOutcome(r)
    BY <2>1 DEF RecordOutcome, Holds, AfterSend, Now
  <2>6. ~VerifySave(r) /\ ~AbandonDispatch(r)
    BY <2>1 DEF VerifySave, AbandonDispatch, Holds, Verifying, Now
  <2> QED BY <1>1, <2>2, <2>3, <2>4, <2>5, <2>6
<1>2. ASSUME NEW r \in Requests, RearmSave(r)
      PROVE  /\ execution'.status = "ACTION_PENDING"
             /\ \E c \in Corrections : <<execution.reason, c>> \in rearms
  <2>1. Holds(r)
    BY <1>2, SellersCall DEF RearmSave, JobSteps
  <2> QED BY <1>2, <2>1 DEF RearmSave, Pending, Holds, Rearming, Now
<1>3. ~RecoverySave
  BY DEF RecoverySave, TInv, RowsOK, Executions
<1>4. execution' # execution
  OBVIOUS
<1> QED BY <1>1, <1>2, <1>3, <1>4, ExecutionWriters

\* With one seller thread at a time no refused attempt is overwritten on the way to a new
\* send before its EXECUTION_REARMED row is on record.
THEOREM RefusalsAreWrittenDown ==
  ASSUME OneSeller
  PROVE  Spec => RefusalIsWrittenDown
<1>1. TInv /\ Serial /\ [Next]_vars =>
        [execution.status = "FAILED" /\ execution'.status \notin {"FAILED", "DELIVERY_UNKNOWN"}
           => /\ execution'.status = "ACTION_PENDING"
              /\ \E c \in Corrections : <<execution.reason, c>> \in rearms]_vars
  BY RefusalStep
<1>2. IInv => TInv
  BY DEF IInv
<1> QED BY <1>1, <1>2, Inductive, SerialInductive, PTL DEF Spec, RefusalIsWrittenDown

-----------------------------------------------------------------------------
(* The contract. *)

\* The steps that may touch the approval, or what stands under the question, ours or not.
LEMMA ContractWriters ==
  ASSUME [Next]_vars
  PROVE  \/ UNCHANGED <<approvals, posted, elsewhere>>
         \/ AnsweredElsewhere
         \/ \E r \in Requests : Bind(r)
         \/ \E r \in Requests, o \in Outcomes : Post(r, o, TRUE)
<1>1. ASSUME NEW r \in Sellers, SellerCalls(r) PROVE UNCHANGED <<approvals, posted, elsewhere>>
  BY <1>1 DEF SellerCalls, ConfirmFirst, ConfirmReplay, Requery, ResumePending,
              ResumeDispatching, Rearm, rows, channel
<1>2. ASSUME NEW r \in Jobs, JobStarts(r) PROVE UNCHANGED <<approvals, posted, elsewhere>>
  BY <1>2 DEF JobStarts, EditDraft, SweepRead, RepairBegin, rows, channel
<1>3. ASSUME NEW r \in Requests, NEW o \in Outcomes, NEW lands \in BOOLEAN, Post(r, o, lands),
             ~lands
      PROVE  UNCHANGED <<approvals, posted, elsewhere>>
  BY <1>3 DEF Post, rows
<1>4. ASSUME NEW r \in Requests, Proceed(r), ~Bind(r),
             ~\E o \in Outcomes, lands \in BOOLEAN : Post(r, o, lands)
      PROVE  UNCHANGED <<approvals, posted, elsewhere>>
  BY <1>4 DEF Proceed, InsertDraft, BindRefused, ReadPending, NothingPending, Revalidate,
              RecordRefusal, RefusedPhase, MarkDispatching, RecordOutcome, PublishedPhase,
              AuditOutcome, QueryChannel, VerifiedPhase, MarkAnswered, VerifySave,
              AbandonDispatch, AuditRearm, RearmSave, RearmPhase, SweepSave, SweepClose,
              RepairClose, rows, channel
<1>5. ASSUME NEW r \in Requests, RequestDies(r) PROVE UNCHANGED <<approvals, posted, elsewhere>>
  BY <1>5 DEF RequestDies, rows, channel
<1>6. CASE (\E armed \in BOOLEAN : CrashRestart(armed)) \/ Recover
  BY <1>6 DEF CrashRestart, Recover, RecoveryScan, RecoverySave, rows, channel
<1>7. CASE UNCHANGED vars
  BY <1>7 DEF vars, rows, channel
<1> QED BY <1>1, <1>2, <1>3, <1>4, <1>5, <1>6, <1>7 DEF Next

\* The contract's variables, read off the rows.
approvedTexts == {a.seen : a \in approvals}
claimedNow == Now = "COMPLETED"
contractVars == <<approvedTexts, posted, elsewhere, claimedNow>>

\* A step that leaves approval and answers alone is a claim, its retraction or nothing:
\* what may be claimed is what AnsweredMeansAnswered says.
LEMMA ClaimStep ==
  ASSUME UNCHANGED <<approvals, posted, elsewhere>>, AnsweredMeansAnswered'
  PROVE  Contract!Next \/ UNCHANGED contractVars
<1>1. approvedTexts' = approvedTexts
  BY DEF approvedTexts
<1>2. CASE claimedNow' = claimedNow
  BY <1>1, <1>2 DEF contractVars
<1>3. CASE claimedNow' # claimedNow /\ claimedNow'
  <2>1. posted # <<>> \/ (~ReadsTheText /\ elsewhere)
    BY <1>3 DEF AnsweredMeansAnswered, ChannelAnswered, OursStands, ReadsTheText, claimedNow, Now
  <2>2. Contract!Claim
    BY <1>1, <1>3, <2>1 DEF Contract!Claim, approvedTexts, claimedNow, Now
  <2> QED BY <2>2 DEF Contract!Next
<1>4. CASE claimedNow' # claimedNow /\ ~claimedNow'
  <2>1. Contract!Retract
    BY <1>1, <1>4 DEF Contract!Retract, approvedTexts, claimedNow, Now
  <2> QED BY <2>1 DEF Contract!Next
<1> QED BY <1>2, <1>3, <1>4

\* Somebody else's answer is the contract's too.
LEMMA OthersStep ==
  ASSUME AnsweredElsewhere
  PROVE  Contract!AnswerOfOthers
BY DEF AnsweredElsewhere, Contract!AnswerOfOthers, rows

\* Binding is the contract's Approve.
LEMMA ApproveStep ==
  ASSUME TInv, Serial, NEW r \in Requests, Bind(r)
  PROVE  Contract!Approve
<1>1. cand[r].seen \in Texts
  BY DEF TInv, LocalsOK, Candidates
<1>2. approvedTexts = {} /\ approvedTexts' = {cand[r].seen}
  BY DEF approvedTexts, Bind
<1>3. ~claimedNow /\ ~claimedNow'
  BY DEF claimedNow, Now, Bind, Pending, Serial, BeforeApproval
<1>4. posted' = posted /\ elsewhere' = elsewhere
  BY DEF Bind, channel
<1> QED BY <1>1, <1>2, <1>3, <1>4 DEF Contract!Approve, approvedTexts, claimedNow, Now

\* A write that lands is the contract's Send: the text is the approved one, and where the
\* channel lets the product tell, nothing of ours stood there.
LEMMA SendStep ==
  ASSUME OneSeller, TInv, ApprovedAsSeen, Serial, NEW r \in Requests, NEW o \in Outcomes,
         Post(r, o, TRUE)
  PROVE  Contract!Send
<1>1. Holds(r)
  BY SellersCall DEF Post, JobSteps
<1>2. TellsApart => posted = <<>>
  BY <1>1 DEF Post, Holds, BeforeSend, Sent
<1>3. PICK a \in approvals : posted' = Append(posted, drafts[a.version])
  BY DEF Post
<1>4. drafts[a.version] = a.seen
  BY DEF ApprovedAsSeen
<1>5. posted' = Append(posted, a.seen)
  BY <1>3, <1>4
<1>6. approvedTexts' = approvedTexts /\ claimedNow' = claimedNow /\ elsewhere' = elsewhere
  BY DEF Post, rows, approvedTexts, claimedNow, Now
<1>7. a.seen \in approvedTexts
  BY DEF approvedTexts
<1> QED BY <1>2, <1>5, <1>6, <1>7 DEF Contract!Send, approvedTexts, claimedNow, Now

\* On every channel, with one seller thread at a time, every step of the rows, copies,
\* restarts and attempts is a step of the channel's contract, or none: one text is
\* approved, nothing but it goes out and only after the approval, and "answered" is said
\* only of a question that is.  On CAFE24 it goes out once, and the claim is of our own.
THEOREM PublishKeepsTheContract ==
  ASSUME OneSeller
  PROVE  Spec => ImplementsContract
<1>1. Init => Contract!Init
  BY DEF Init, NoExecution, Contract!Init
<1>2. IInv /\ Serial /\ AnsweredMeansAnswered' /\ [Next]_vars =>
        [Contract!Next]_contractVars
  <2> SUFFICES ASSUME IInv, Serial, AnsweredMeansAnswered', [Next]_vars
               PROVE  Contract!Next \/ UNCHANGED contractVars
    OBVIOUS
  <2>1. CASE UNCHANGED <<approvals, posted, elsewhere>>
    BY <2>1, ClaimStep
  <2>2. ASSUME NEW r \in Requests, Bind(r) PROVE Contract!Next
    BY <2>2, ApproveStep DEF IInv, Contract!Next
  <2>3. ASSUME NEW r \in Requests, NEW o \in Outcomes, Post(r, o, TRUE) PROVE Contract!Next
    BY <2>3, SendStep DEF IInv, Approved, Contract!Next
  <2>4. CASE AnsweredElsewhere
    BY <2>4, OthersStep DEF Contract!Next
  <2> QED BY <2>1, <2>2, <2>3, <2>4, ContractWriters
<1>3. Contract!Spec <=> Contract!Init /\ [][Contract!Next]_contractVars
  BY DEF Contract!Spec, contractVars, approvedTexts, claimedNow, Now
<1> QED
  BY <1>1, <1>2, <1>3, Inductive, SerialInductive, AnsweredIsTrue, PTL
     DEF Spec, ImplementsContract

=============================================================================
