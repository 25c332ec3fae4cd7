--------------------------- MODULE InquiryPublish ---------------------------
(***************************************************************************)
(* The life of ONE inquiry work item from the seller's confirmation to the *)
(* verified answer: InquiryPublishService, the binding writer, the draft   *)
(* service, the connector's reconcile, the thread repair and the start-up  *)
(* recovery, all over the same few rows.                                   *)
(*                                                                         *)
(* No method of InquiryPublishService is transactional and open-in-view is *)
(* off: every repository call is a transaction of its own and every entity *)
(* a request holds is a detached COPY.  A save writes the whole copy back. *)
(* So a request is a process: pc[r] says which call is next, x[r] is its   *)
(* copy of the execution row and q[r] its copy of the inquiry row.         *)
(***************************************************************************)
EXTENDS Naturals, Sequences, FiniteSets

CONSTANTS
  Sellers,      \* server threads inside confirm, verify, resume or re-arm
  Jobs,         \* server threads inside the draft editor, a sweep or a repair
  Commands,     \* command ids the seller's client may send
  Texts,        \* fingerprints of draft contents
  Corrections,  \* correctionRef values of a re-arm
  Channel,      \* the marketplace, and for NAVER the kind of question, it came from
  MaxDrafts,    \* bound on draft versions
  MaxPosts,     \* bound on answers the channel accepts
  MaxCrashes,   \* bound on crashes of the process
  MaxDeaths     \* bound on requests that die half-way

ASSUME TextsAssumption == Texts # {}
ASSUME CommandsAssumption == Commands # {}
ASSUME ChannelAssumption ==
  Channel \in {"CAFE24", "COUPANG", "GMARKET", "NAVER_PRODUCT_QNA", "NAVER_CUSTOMER_INQUIRY"}
ASSUME BoundsAssumption ==
  MaxDrafts \in Nat /\ MaxPosts \in Nat /\ MaxCrashes \in Nat /\ MaxDeaths \in Nat

Requests == Sellers \cup Jobs

Phases == {"PROPOSED", "ACTION_PENDING", "EXECUTED", "COMPLETED", "FAILED", "DISMISSED"}

Statuses == {"NONE", "ACTION_PENDING", "DISPATCHING", "EXECUTED",
             "DELIVERY_UNKNOWN", "COMPLETED", "FAILED"}

Reasons == {"none", "CONTRADICTED", "EXECUTION_FAILED"}

\* Answers of ChannelReplyAdapter.publish.
Outcomes == {"CONFIRMED", "PERMANENT_FAILURE", "DELIVERY_UNKNOWN", "RETRYABLE_FAILURE"}

\* The five ChannelReplyAdapters differ in four ways.  The channel's write may replace an
\* answer that is there; a 5xx after the write landed may come back as a retryable failure,
\* a 200 it cannot read as a refusal; and only one adapter looks for the text it sent.
Overwrites == Channel = "NAVER_PRODUCT_QNA"
LandedRetryable == Channel \in {"NAVER_PRODUCT_QNA", "NAVER_CUSTOMER_INQUIRY"}
LandedRefused == Channel \in {"COUPANG", "GMARKET"}
ReadsTheText == Channel = "CAFE24"

\* The adapter's answers after which the write may stand over there.
MayHaveLanded ==
  {"CONFIRMED", "DELIVERY_UNKNOWN"}
    \cup (IF LandedRetryable THEN {"RETRYABLE_FAILURE"} ELSE {})
    \cup (IF LandedRefused THEN {"PERMANENT_FAILURE"} ELSE {})

\* A refused or retryable write certainly is not there.
TellsApart == ~LandedRetryable /\ ~LandedRefused

\* The execution row; "NONE" stands for "no row yet".
Executions == [status : Statuses, ref : BOOLEAN, reason : Reasons]
NoExecution == [status |-> "NONE", ref |-> FALSE, reason |-> "none"]
Pending == [status |-> "ACTION_PENDING", ref |-> FALSE, reason |-> "none"]

\* The inquiry row: its status, who stamped answeredAt (or left the answer body),
\* and whether it is an ACTIVE, REAL, marketplace-identified object.
Inquiries == [answered : BOOLEAN, stamp : {"none", "source", "ours"}, sendable : BOOLEAN]
FreshInquiry == [answered |-> FALSE, stamp |-> "none", sendable |-> TRUE]

\* An approval row: the approved version and fingerprint, the command, and what the
\* seller was looking at when confirming.
Approvals == [version : Nat, text : Texts, command : Commands, seen : Texts]

Candidates == [version : Nat, seen : Texts, command : Commands]
NoCandidate == [version |-> 0, seen |-> CHOOSE t \in Texts : TRUE,
                command |-> CHOOSE c \in Commands : TRUE]

Steps == {"idle", "editInsert", "bind", "read", "check", "refuse", "refusedPhase", "mark",
          "post", "record", "phase", "audit", "query", "verifiedPhase", "markAnswered",
          "verifySave", "abandon", "rearmAudit", "rearmSave", "rearmPhase", "sweepSave",
          "sweepClose", "repairClose"}

VARIABLES
  phase,      \* the work item's phase
  drafts,     \* reply drafts, append-only: the version is the index
  approvals,  \* approval rows; unique on the work item
  execution,  \* the execution row
  inquiry,    \* the inquiry row
  audited,    \* attempts whose "execute:" audit row exists
  rearms,     \* EXECUTION_REARMED audit rows, by what makes their command id
  posted,     \* EXTERNAL: our answers standing under the question
  elsewhere,  \* EXTERNAL: somebody answered outside this product
  live,       \* this deployment has a reply adapter for the channel
  pc, cand, x, q, outcome,     \* per request
  boot, bootx,                 \* start-up recovery: its step, and its copy
  crashes, deaths              \* faults so far

rows == <<phase, drafts, approvals, execution, inquiry, audited, rearms>>
channel == <<posted, elsewhere>>
locals == <<pc, cand, x, q, outcome>>
server == <<live, boot, bootx, crashes, deaths>>
vars == <<rows, channel, locals, server>>

-----------------------------------------------------------------------------
(* Initially the item is PROPOSED, nobody has written a draft, and the row  *)
(* may or may not be an object this product is allowed to write to.         *)

Init ==
  /\ phase = "PROPOSED"
  /\ drafts = <<>>
  /\ approvals = {}
  /\ execution = NoExecution
  /\ inquiry \in {FreshInquiry, [FreshInquiry EXCEPT !.sendable = FALSE]}
  /\ audited = {}
  /\ rearms = {}
  /\ posted = <<>>
  /\ elsewhere = FALSE
  /\ live \in BOOLEAN
  /\ pc = [r \in Requests |-> "idle"]
  /\ cand = [r \in Requests |-> NoCandidate]
  /\ x = [r \in Requests |-> NoExecution]
  /\ q = [r \in Requests |-> FreshInquiry]
  /\ outcome = [r \in Requests |-> "CONFIRMED"]
  /\ boot = "done"
  /\ bootx = NoExecution
  /\ crashes = 0
  /\ deaths = 0

Goto(r, step) == pc' = [pc EXCEPT ![r] = step]

\* Nothing later in the request reads what it holds.
Drop(r) ==
  /\ cand' = [cand EXCEPT ![r] = NoCandidate]
  /\ x' = [x EXCEPT ![r] = NoExecution]
  /\ q' = [q EXCEPT ![r] = FreshInquiry]
  /\ outcome' = [outcome EXCEPT ![r] = "CONFIRMED"]

\* The request answers its caller.
Finish(r) == Goto(r, "idle") /\ Drop(r)

KeepCopies == UNCHANGED <<cand, x, q, outcome>>

-----------------------------------------------------------------------------
(* Drafts: InquiryReplyDraftService.persist.                                *)

\* PROPOSED only, on the head the editor was shown.
EditDraft(r, t) ==
  /\ pc[r] = "idle"
  /\ phase = "PROPOSED"
  /\ Len(drafts) < MaxDrafts
  /\ drafts # <<>> => drafts[Len(drafts)] # t
  /\ Goto(r, "editInsert")
  /\ cand' = [cand EXCEPT ![r].version = Len(drafts) + 1, ![r].seen = t]
  /\ UNCHANGED <<rows, channel, x, q, outcome, server>>

\* The insert is unique on (work item, version): the later of two editors loses.
InsertDraft(r) ==
  /\ pc[r] = "editInsert"
  /\ drafts' = IF cand[r].version = Len(drafts) + 1 THEN Append(drafts, cand[r].seen)
                                                     ELSE drafts
  /\ Finish(r)
  /\ UNCHANGED <<phase, approvals, execution, inquiry, audited, rearms, channel, server>>

-----------------------------------------------------------------------------
(* Confirmation: confirmAndPublish and InquiryPublishBindingWriter.bind.    *)

\* The first confirmation: the fingerprint the seller saw is still the head's, and
\* assertCarriable finds something that could carry the answer.
ConfirmFirst(r, c, t) ==
  /\ pc[r] = "idle"
  /\ approvals = {}
  /\ phase = "PROPOSED"
  /\ drafts # <<>>
  /\ drafts[Len(drafts)] = t
  /\ live
  /\ Goto(r, "bind")
  /\ cand' = [cand EXCEPT ![r] = [version |-> Len(drafts), seen |-> t, command |-> c]]
  /\ UNCHANGED <<rows, channel, x, q, outcome, server>>

\* The same command with the same fingerprint again: only the dispatch is re-attempted.
ConfirmReplay(r, c, t) ==
  /\ pc[r] = "idle"
  /\ \E a \in approvals : a.command = c /\ a.text = t
  /\ Goto(r, "read")
  /\ KeepCopies
  /\ UNCHANGED <<rows, channel, server>>

\* (Broken variant, for the mutation runs: approves the head it finds at that time.)
BindHead(r) ==
  /\ pc[r] = "bind"
  /\ approvals = {}
  /\ approvals' = {[version |-> Len(drafts), text |-> drafts[Len(drafts)],
                    command |-> cand[r].command, seen |-> cand[r].seen]}
  /\ execution' = Pending
  /\ phase' = "ACTION_PENDING"
  /\ Goto(r, "read")
  /\ Drop(r)
  /\ UNCHANGED <<drafts, inquiry, audited, rearms, channel, server>>

\* One transaction: approval, intent and execution are unique on the work item, so
\* the second binder's inserts are refused and its request ends there.
Bind(r) ==
  /\ pc[r] = "bind"
  /\ approvals = {}
  /\ approvals' = {[version |-> cand[r].version, text |-> drafts[cand[r].version],
                    command |-> cand[r].command, seen |-> cand[r].seen]}
  /\ execution' = Pending
  /\ phase' = "ACTION_PENDING"
  /\ Goto(r, "read")
  /\ Drop(r)
  /\ UNCHANGED <<drafts, inquiry, audited, rearms, channel, server>>

BindRefused(r) ==
  /\ pc[r] = "bind"
  /\ approvals # {}
  /\ Finish(r)
  /\ UNCHANGED <<rows, channel, server>>

-----------------------------------------------------------------------------
(* Dispatch: maybeDispatch, from the read of the row to the recorded result. *)

ReadPending(r) ==
  /\ pc[r] = "read"
  /\ execution.status = "ACTION_PENDING"
  /\ x' = [x EXCEPT ![r] = execution]
  /\ Goto(r, "check")
  /\ UNCHANGED <<rows, channel, cand, q, outcome, server>>

NothingPending(r) ==
  /\ pc[r] = "read"
  /\ execution.status # "ACTION_PENDING"
  /\ Finish(r)
  /\ UNCHANGED <<rows, channel, server>>

\* revalidate: an answer already known, an object that may not be written to, or a
\* replacing write on a reading that is not provably current.
Refused(row, proven) ==
  \/ row.stamp # "none"
  \/ ~row.sendable
  \/ Overwrites /\ ~proven

\* The inquiry is read here, after the execution; it is the copy the dispatch keeps.
\* Without an adapter the request ends and the row stays ACTION_PENDING.
Revalidate(r, proven) ==
  /\ pc[r] = "check"
  /\ \/ /\ Refused(inquiry, proven)
        /\ Goto(r, "refuse")
        /\ KeepCopies
     \/ /\ ~Refused(inquiry, proven)
        /\ live
        /\ Goto(r, "mark")
        /\ q' = [q EXCEPT ![r] = inquiry]
        /\ UNCHANGED <<cand, x, outcome>>
     \/ /\ ~Refused(inquiry, proven)
        /\ ~live
        /\ Finish(r)
  /\ UNCHANGED <<rows, channel, server>>

RecordRefusal(r) ==
  /\ pc[r] = "refuse"
  /\ execution' = [x[r] EXCEPT !.status = "FAILED", !.reason = "CONTRADICTED"]
  /\ Goto(r, "refusedPhase")
  /\ Drop(r)
  /\ UNCHANGED <<phase, drafts, approvals, inquiry, audited, rearms, channel, server>>

RefusedPhase(r) ==
  /\ pc[r] = "refusedPhase"
  /\ phase' = "FAILED"
  /\ Finish(r)
  /\ UNCHANGED <<drafts, approvals, execution, inquiry, audited, rearms, channel, server>>

MarkDispatching(r) ==
  /\ pc[r] = "mark"
  /\ execution' = [x[r] EXCEPT !.status = "DISPATCHING"]
  /\ x' = [x EXCEPT ![r].status = "DISPATCHING"]
  /\ Goto(r, "post")
  /\ UNCHANGED <<phase, drafts, approvals, inquiry, audited, rearms, channel, cand, q,
                 outcome, server>>

\* The one marketplace WRITE.  A success means the answer stands there; after any other
\* outcome it may or may not, as far as the channel's adapter can confuse the two.
Post(r, o, lands) ==
  /\ pc[r] = "post"
  /\ o = "CONFIRMED" => lands
  /\ lands => o \in MayHaveLanded
  /\ IF lands
       THEN /\ Len(posted) < MaxPosts
            /\ \E a \in approvals : posted' = Append(posted, drafts[a.version])
       ELSE posted' = posted
  /\ outcome' = [outcome EXCEPT ![r] = o]
  /\ Goto(r, "record")
  /\ UNCHANGED <<rows, elsewhere, cand, x, q, server>>

\* (Broken variant: an undetermined write is taken for a retryable one.)
AfterOutcomeRetry(row, o) ==
  CASE o = "CONFIRMED"         -> [row EXCEPT !.status = "EXECUTED", !.ref = TRUE]
    [] o = "PERMANENT_FAILURE" -> [row EXCEPT !.status = "FAILED", !.reason = "EXECUTION_FAILED"]
    [] OTHER                   -> [row EXCEPT !.status = "ACTION_PENDING"]

\* What the code writes for each answer of the adapter, on top of the copy it holds.
AfterOutcome(row, o) ==
  CASE o = "CONFIRMED"         -> [row EXCEPT !.status = "EXECUTED", !.ref = TRUE]
    [] o = "PERMANENT_FAILURE" -> [row EXCEPT !.status = "FAILED", !.reason = "EXECUTION_FAILED"]
    [] o = "DELIVERY_UNKNOWN"  -> [row EXCEPT !.status = "DELIVERY_UNKNOWN"]
    [] o = "RETRYABLE_FAILURE" -> [row EXCEPT !.status = "ACTION_PENDING"]

RecordOutcome(r) ==
  /\ pc[r] = "record"
  /\ execution' = AfterOutcome(x[r], outcome[r])
  /\ \/ /\ outcome[r] \in {"CONFIRMED", "PERMANENT_FAILURE"}
        /\ Goto(r, "phase")
        /\ x' = [x EXCEPT ![r] = AfterOutcome(x[r], outcome[r])]
        /\ UNCHANGED <<cand, q, outcome>>
     \/ /\ outcome[r] = "DELIVERY_UNKNOWN"
        /\ Goto(r, "audit")
        /\ x' = [x EXCEPT ![r] = AfterOutcome(x[r], outcome[r])]
        /\ UNCHANGED <<cand, q, outcome>>
     \/ /\ outcome[r] = "RETRYABLE_FAILURE"
        /\ Finish(r)
  /\ UNCHANGED <<phase, drafts, approvals, inquiry, audited, rearms, channel, server>>

\* (Broken variant: the phase is copied from the row as it is by now.)
PublishedPhaseFromRow(r) ==
  /\ pc[r] = "phase"
  /\ phase' = execution.status
  /\ Goto(r, "audit")
  /\ KeepCopies
  /\ UNCHANGED <<drafts, approvals, execution, inquiry, audited, rearms, channel, server>>

PublishedPhase(r) ==
  /\ pc[r] = "phase"
  /\ phase' = x[r].status
  /\ Goto(r, "audit")
  /\ KeepCopies
  /\ UNCHANGED <<drafts, approvals, execution, inquiry, audited, rearms, channel, server>>

\* attemptSuffixed: one more than the re-arms on record.
Attempt == 1 + Cardinality(rearms)

\* The audit table is unique on the command id.  A second row for the same attempt
\* throws, and what would have followed - the verification - never runs.
AuditOutcome(r) ==
  /\ pc[r] = "audit"
  /\ audited' = audited \cup {Attempt}
  /\ \/ /\ Attempt \notin audited
        /\ x[r].status = "EXECUTED"
        /\ Goto(r, "query")
        /\ KeepCopies
     \/ /\ Attempt \in audited \/ x[r].status # "EXECUTED"
        /\ Finish(r)
  /\ UNCHANGED <<phase, drafts, approvals, execution, inquiry, rearms, channel, server>>

-----------------------------------------------------------------------------
(* Verification: runVerify.                                                  *)

\* External: what stands under the question, ours or somebody else's.
ChannelAnswered == elsewhere \/ posted # <<>>

\* Our answer stands there, in the words of the approved draft.
OursStands == \E a \in approvals, i \in DOMAIN posted : posted[i] = drafts[a.version]

\* (Broken variants: the text is not compared; an unreadable re-query is taken for "yes".)
AnswerProvenByStatus == ChannelAnswered
AnswerProvenUnread == TRUE

\* What the adapter accepts as proof: CAFE24's looks for the approved text under the
\* question, the four others ask only whether the marketplace calls it answered.
AnswerProven == IF ReadsTheText THEN OursStands ELSE ChannelAnswered

\* The adapter may also read nothing: the network, an unresolved status.
QueryChannel(r, verified) ==
  /\ pc[r] = "query"
  /\ \/ /\ live /\ verified
        /\ AnswerProven
        /\ x' = [x EXCEPT ![r].status = "COMPLETED"]
        /\ Goto(r, "verifiedPhase")
        /\ UNCHANGED <<cand, q, outcome>>
     \/ /\ live /\ ~verified
        /\ Goto(r, "verifySave")
        /\ q' = [q EXCEPT ![r] = FreshInquiry]
        /\ UNCHANGED <<cand, x, outcome>>
     \/ /\ ~live
        /\ Finish(r)
  /\ UNCHANGED <<rows, channel, server>>

VerifiedPhase(r) ==
  /\ pc[r] = "verifiedPhase"
  /\ phase' = "COMPLETED"
  /\ Goto(r, "markAnswered")
  /\ KeepCopies
  /\ UNCHANGED <<drafts, approvals, execution, inquiry, audited, rearms, channel, server>>

\* markInquiryAnswered saves the request's own copy of the inquiry, whole.
MarkAnswered(r) ==
  /\ pc[r] = "markAnswered"
  /\ inquiry' = IF q[r].answered THEN inquiry
                ELSE [q[r] EXCEPT !.answered = TRUE,
                                  !.stamp = IF @ = "none" THEN "ours" ELSE @]
  /\ Goto(r, "verifySave")
  /\ q' = [q EXCEPT ![r] = FreshInquiry]
  /\ UNCHANGED <<cand, x, outcome>>
  /\ UNCHANGED <<phase, drafts, approvals, execution, audited, rearms, channel, server>>

VerifySave(r) ==
  /\ pc[r] = "verifySave"
  /\ execution' = x[r]
  /\ Finish(r)
  /\ UNCHANGED <<phase, drafts, approvals, inquiry, audited, rearms, channel, server>>

-----------------------------------------------------------------------------
(* verify, resume and rearmAfterRequestCorrection.                           *)

\* verify, and resume of an EXECUTED or DELIVERY_UNKNOWN row: re-query, never resend.
Requery(r) ==
  /\ pc[r] = "idle"
  /\ execution.status \in {"EXECUTED", "DELIVERY_UNKNOWN"}
  /\ x' = [x EXCEPT ![r] = execution]
  /\ q' = [q EXCEPT ![r] = inquiry]
  /\ Goto(r, "query")
  /\ UNCHANGED <<rows, channel, cand, outcome, server>>

ResumePending(r) ==
  /\ pc[r] = "idle"
  /\ execution.status = "ACTION_PENDING"
  /\ Goto(r, "read")
  /\ KeepCopies
  /\ UNCHANGED <<rows, channel, server>>

\* A DISPATCHING row is taken for abandoned, whether or not its request still runs.
ResumeDispatching(r) ==
  /\ pc[r] = "idle"
  /\ execution.status = "DISPATCHING"
  /\ x' = [x EXCEPT ![r] = [execution EXCEPT !.status = "DELIVERY_UNKNOWN"]]
  /\ Goto(r, "abandon")
  /\ UNCHANGED <<rows, channel, cand, q, outcome, server>>

AbandonDispatch(r) ==
  /\ pc[r] = "abandon"
  /\ execution' = x[r]
  /\ q' = [q EXCEPT ![r] = inquiry]
  /\ Goto(r, "query")
  /\ UNCHANGED <<phase, drafts, approvals, inquiry, audited, rearms, channel, cand, x,
                 outcome, server>>

\* (Broken variant: the refused attempt is overwritten without being recorded.)
RearmUnrecorded(r, proven) ==
  /\ pc[r] = "idle"
  /\ phase = "FAILED"
  /\ execution.status = "FAILED"
  /\ ~execution.ref
  /\ ~Refused(inquiry, proven)
  /\ \E a \in approvals : a.version = Len(drafts)
  /\ x' = [x EXCEPT ![r] = execution]
  /\ Goto(r, "rearmSave")
  /\ UNCHANGED <<rows, channel, cand, q, outcome, server>>

\* The one way out of FAILED: nothing was created over there, the approval still holds
\* against the row, and the approved draft is still the head.
Rearm(r, proven) ==
  /\ pc[r] = "idle"
  /\ phase = "FAILED"
  /\ execution.status = "FAILED"
  /\ ~execution.ref
  /\ ~Refused(inquiry, proven)
  /\ \E a \in approvals : a.version = Len(drafts)
  /\ x' = [x EXCEPT ![r] = execution]
  /\ Goto(r, "rearmAudit")
  /\ UNCHANGED <<rows, channel, cand, q, outcome, server>>

\* The refused attempt is written down first; the same refusal with the same correction
\* has the same command id and its insert fails, leaving everything as it was.
AuditRearm(r, correction) ==
  /\ pc[r] = "rearmAudit"
  /\ rearms' = rearms \cup {<<x[r].reason, correction>>}
  /\ IF <<x[r].reason, correction>> \in rearms
       THEN Finish(r)
       ELSE Goto(r, "rearmSave") /\ KeepCopies
  /\ UNCHANGED <<phase, drafts, approvals, execution, inquiry, audited, channel, server>>

RearmSave(r) ==
  /\ pc[r] = "rearmSave"
  /\ execution' = Pending
  /\ Goto(r, "rearmPhase")
  /\ Drop(r)
  /\ UNCHANGED <<phase, drafts, approvals, inquiry, audited, rearms, channel, server>>

RearmPhase(r) ==
  /\ pc[r] = "rearmPhase"
  /\ phase' = "ACTION_PENDING"
  /\ Finish(r)
  /\ UNCHANGED <<drafts, approvals, execution, inquiry, audited, rearms, channel, server>>

-----------------------------------------------------------------------------
(* Collection: ingestInquiries with reconcileConnectorAnswered, and          *)
(* Cafe24ThreadRepair.                                                       *)

Closable == {"PROPOSED"}    \* of ANSWERED_ELSEWHERE_CLOSES; OPEN is before this model

\* What the source says, on the row.  ANSWERED stays ANSWERED.  A board answer carries
\* neither a body nor a time, so only the status moves (stamped = FALSE).  A row that
\* turns out to be a reply inside a thread is no longer an ACTIVE inquiry.
FromSource(row, said, stamped, reply) ==
  [row EXCEPT !.answered = @ \/ said,
              !.stamp = IF stamped THEN "source" ELSE @,
              !.sendable = @ /\ ~reply]

\* The sweep holds a page the source gave it earlier and reads the row it is about.
SweepRead(r) ==
  /\ pc[r] = "idle"
  /\ q' = [q EXCEPT ![r] = inquiry]
  /\ Goto(r, "sweepSave")
  /\ UNCHANGED <<rows, channel, cand, x, outcome, server>>

\* It saves its copy, whole.  An answered row on a PROPOSED item takes the other road:
\* the transaction has read the phase and will close the item at its commit.
SweepSave(r, said, stamped, reply) ==
  /\ pc[r] = "sweepSave"
  /\ said => ChannelAnswered
  /\ stamped => said
  /\ LET row == FromSource(q[r], said, stamped, reply)
     IN  \/ /\ row.answered /\ phase \in Closable
            /\ q' = [q EXCEPT ![r] = row]
            /\ Goto(r, "sweepClose")
            /\ UNCHANGED <<inquiry, cand, x, outcome>>
         \/ /\ ~(row.answered /\ phase \in Closable)
            /\ inquiry' = row
            /\ Finish(r)
  /\ UNCHANGED <<phase, drafts, approvals, execution, audited, rearms, channel, server>>

SweepClose(r) ==
  /\ pc[r] = "sweepClose"
  /\ inquiry' = q[r]
  /\ phase' = "COMPLETED"
  /\ Finish(r)
  /\ UNCHANGED <<drafts, approvals, execution, audited, rearms, channel, server>>

\* The repair of a row stored before thread roles were read: unanswered, active, its
\* item not beyond PROPOSED.  One transaction, reading first and writing at its commit.
RepairBegin(r) ==
  /\ pc[r] = "idle"
  /\ inquiry.sendable /\ ~inquiry.answered
  /\ phase \in Closable
  /\ q' = [q EXCEPT ![r] = inquiry]
  /\ Goto(r, "repairClose")
  /\ UNCHANGED <<rows, channel, cand, x, outcome, server>>

RepairClose(r) ==
  /\ pc[r] = "repairClose"
  /\ phase' = "DISMISSED"
  /\ inquiry' = [q[r] EXCEPT !.sendable = FALSE]
  /\ Finish(r)
  /\ UNCHANGED <<drafts, approvals, execution, audited, rearms, channel, server>>

\* External: the seller, or anybody, answers in the marketplace's own console.
AnsweredElsewhere ==
  /\ ~elsewhere
  /\ elsewhere' = TRUE
  /\ UNCHANGED <<rows, posted, locals, server>>

-----------------------------------------------------------------------------
(* Faults, restart and DispatchRecoveryRunner.                               *)

\* One request dies between two of its calls: an exception, a lost connection.
RequestDies(r) ==
  /\ pc[r] # "idle"
  /\ deaths < MaxDeaths
  /\ deaths' = deaths + 1
  /\ Finish(r)
  /\ UNCHANGED <<rows, channel, live, boot, bootx, crashes>>

\* The process crashes and is started again, perhaps with other adapters configured.
\* The runner is called after the web server began to accept requests.
CrashRestart(armed) ==
  /\ crashes < MaxCrashes
  /\ crashes' = crashes + 1
  /\ live' = armed
  /\ boot' = "scan"
  /\ bootx' = NoExecution
  /\ pc' = [r \in Requests |-> "idle"]
  /\ cand' = [r \in Requests |-> NoCandidate]
  /\ x' = [r \in Requests |-> NoExecution]
  /\ q' = [r \in Requests |-> FreshInquiry]
  /\ outcome' = [r \in Requests |-> "CONFIRMED"]
  /\ UNCHANGED <<rows, channel, deaths>>

\* (Broken variant: looks for the wrong status, so nothing is ever recovered.)
RecoveryScanMisses ==
  /\ boot = "scan"
  /\ boot' = "done"
  /\ bootx' = NoExecution
  /\ UNCHANGED <<rows, channel, locals, live, crashes, deaths>>

\* recoverAbandonedDispatching: findAllByStatus, then a save of each copy.
RecoveryScan ==
  /\ boot = "scan"
  /\ IF execution.status = "DISPATCHING"
       THEN boot' = "save" /\ bootx' = execution
       ELSE boot' = "done" /\ bootx' = NoExecution
  /\ UNCHANGED <<rows, channel, locals, live, crashes, deaths>>

\* (Broken variant: the interrupted dispatch is put back for sending.)
RecoverySaveRequeues ==
  /\ boot = "save"
  /\ execution' = [bootx EXCEPT !.status = "ACTION_PENDING"]
  /\ boot' = "done"
  /\ bootx' = NoExecution
  /\ UNCHANGED <<phase, drafts, approvals, inquiry, audited, rearms, channel, locals, live, crashes, deaths>>

RecoverySave ==
  /\ boot = "save"
  /\ execution' = [bootx EXCEPT !.status = "DELIVERY_UNKNOWN"]
  /\ boot' = "done"
  /\ bootx' = NoExecution
  /\ UNCHANGED <<phase, drafts, approvals, inquiry, audited, rearms, channel, locals, live, crashes, deaths>>

-----------------------------------------------------------------------------
\* A caller of InquiryDetailController takes up a thread.
SellerCalls(r) ==
  \/ \E c \in Commands, t \in Texts : ConfirmFirst(r, c, t)
  \/ \E c \in Commands, t \in Texts : ConfirmReplay(r, c, t)
  \/ Requery(r)
  \/ ResumePending(r)
  \/ ResumeDispatching(r)
  \/ \E proven \in BOOLEAN : Rearm(r, proven)

\* An editor, a collection sweep or a repair does.
JobStarts(r) ==
  \/ \E t \in Texts : EditDraft(r, t)
  \/ SweepRead(r)
  \/ RepairBegin(r)

\* A thread that has work performs its next repository or channel call.
Proceed(r) ==
  \/ InsertDraft(r)
  \/ Bind(r)
  \/ BindRefused(r)
  \/ ReadPending(r)
  \/ NothingPending(r)
  \/ \E proven \in BOOLEAN : Revalidate(r, proven)
  \/ RecordRefusal(r)
  \/ RefusedPhase(r)
  \/ MarkDispatching(r)
  \/ \E o \in Outcomes, lands \in BOOLEAN : Post(r, o, lands)
  \/ RecordOutcome(r)
  \/ PublishedPhase(r)
  \/ AuditOutcome(r)
  \/ \E verified \in BOOLEAN : QueryChannel(r, verified)
  \/ VerifiedPhase(r)
  \/ MarkAnswered(r)
  \/ VerifySave(r)
  \/ AbandonDispatch(r)
  \/ \E correction \in Corrections : AuditRearm(r, correction)
  \/ RearmSave(r)
  \/ RearmPhase(r)
  \/ \E said, stamped, reply \in BOOLEAN : SweepSave(r, said, stamped, reply)
  \/ SweepClose(r)
  \/ RepairClose(r)

Recover == RecoveryScan \/ RecoverySave

Next ==
  \/ \E r \in Sellers : SellerCalls(r)
  \/ \E r \in Jobs : JobStarts(r)
  \/ \E r \in Requests : Proceed(r) \/ RequestDies(r)
  \/ AnsweredElsewhere
  \/ \E armed \in BOOLEAN : CrashRestart(armed)
  \/ Recover

Spec == Init /\ [][Next]_vars

\* A thread keeps running, and the adapter's HTTP calls have timeouts; the runner is
\* called once on every start.  Nobody promises to press "resume".
Fairness == (\A r \in Requests : WF_vars(Proceed(r))) /\ WF_vars(Recover)

FairSpec == Spec /\ Fairness
-----------------------------------------------------------------------------
(* What the component promises.                                              *)

\* Every row and every copy has its type, and a request's pc is one of its calls.
TypeOK ==
  /\ phase \in Phases
  /\ drafts \in Seq(Texts)
  /\ approvals \subseteq Approvals
  /\ execution \in Executions
  /\ inquiry \in Inquiries
  /\ audited \subseteq Nat
  /\ rearms \subseteq (Reasons \X Corrections) /\ IsFiniteSet(rearms)
  /\ posted \in Seq(Texts)
  /\ elsewhere \in BOOLEAN
  /\ live \in BOOLEAN
  /\ pc \in [Requests -> Steps]
  /\ cand \in [Requests -> Candidates]
  /\ x \in [Requests -> Executions]
  /\ q \in [Requests -> Inquiries]
  /\ outcome \in [Requests -> Outcomes]
  /\ boot \in {"done", "scan", "save"}
  /\ bootx \in Executions
  /\ crashes \in Nat
  /\ deaths \in Nat

\* Whatever editors, replays, re-arms and restarts do in between, every answer under the
\* question is the text the seller had in view when confirming (confirmAndPublish's
\* expectedFingerprint, maybeDispatch's "publish exactly the approved payload").
OnlyApprovedAnswers ==
  \A i \in DOMAIN posted : \E a \in approvals : posted[i] = a.seen

\* No surface says "answered" for a question nobody answered, on any channel: the item or
\* the execution is COMPLETED, or the inquiry ANSWERED, only of a question that has an
\* answer (runVerify, markInquiryAnswered, reconcileConnectorAnswered).  WHOSE answer it
\* is the execution knows only where the adapter reads the text back; elsewhere it is
\* COMPLETED by the seller's own answer in the marketplace's console just as well.
AnsweredMeansAnswered ==
  /\ phase = "COMPLETED" \/ inquiry.answered \/ execution.status = "COMPLETED"
       => ChannelAnswered
  /\ ReadsTheText /\ execution.status = "COMPLETED" => OursStands

\* The confirmed answer goes out once: "a replayed confirm never sends twice and nothing
\* resends after a confirmed EXECUTED" (InquiryPublishService, class comment).  It takes
\* an adapter that tells a refused or retryable write from one that landed (CAFE24).
AtMostOneAnswer == Len(posted) <= 1

\* Once an answer stands there, the execution is never again in a state a resume sends
\* from (ACTION_PENDING) or a re-arm starts from (FAILED) - across timeouts, crashes,
\* the start-up recovery and refused attempts; on CAFE24, whose adapter calls no write
\* refused or retryable that may have landed.
SentIsNeverRedispatchable ==
  posted # <<>> => execution.status \notin {"NONE", "ACTION_PENDING", "FAILED"}

\* A refused attempt is written down before it is overwritten: no step brings a FAILED
\* execution back on the way to a send without its EXECUTION_REARMED row on record
\* (rearmAfterRequestCorrection).  DELIVERY_UNKNOWN is excepted because the start-up
\* recovery saves a copy it read before the attempt was refused; nothing is sent from it.
RefusalIsWrittenDown ==
  [][execution.status = "FAILED" /\ execution'.status \notin {"FAILED", "DELIVERY_UNKNOWN"}
       => /\ execution'.status = "ACTION_PENDING"
          /\ \E c \in Corrections : <<execution.reason, c>> \in rearms]_vars

\* What revalidate says of itself: "Already answered - on the marketplace, by anyone. A
\* second answer is not a retry."  A dispatch whose reading of the row says ANSWERED
\* does not go on to send.
NeverSecondsAKnownAnswer ==
  \A r \in Requests : pc[r] \in {"mark", "post"} => ~q[r].answered

\* "Status is monotonic: an inquiry already ANSWERED is never downgraded to UNANSWERED by
\* a later re-collection, so a stale export cannot reopen it" (applyInquirySource).
AnsweredIsNeverDowngraded == [][inquiry.answered => inquiry'.answered]_vars

\* No execution stays DISPATCHING: the request records an outcome, or the process died
\* and the start-up recovery reclassifies the row (DispatchRecoveryRunner).  A request
\* that dies alone is excepted: its row waits for a resume or for the next start.
DispatchSettles ==
  execution.status = "DISPATCHING" ~> (execution.status # "DISPATCHING" \/ deaths > 0)

\* The rows seen as a promise: which text was approved, what went out, who else answered
\* and whether the execution says COMPLETED.  Once and Own are promised only where the
\* channel's adapter can keep them.
Contract == INSTANCE AnswerContract
              WITH Contents <- Texts,
                   Once <- TellsApart,
                   Own <- ReadsTheText,
                   others <- elsewhere,
                   approved <- {a.seen : a \in approvals},
                   sent <- posted,
                   claimed <- execution.status = "COMPLETED"

\* With one seller thread at a time the whole machinery - copies, replays, crashes, the
\* recovery, refused and re-armed attempts - implements the contract of its channel.
ImplementsContract == Contract!Spec
=============================================================================
