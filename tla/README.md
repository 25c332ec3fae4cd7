# Acting for a seller, once and only as approved: a TLA+ verification

The repository is a seller-operations product ("SellerOps"): a Spring Boot backend that
collects inquiries, reviews and orders from marketplaces, drafts answers, and – once the
seller has confirmed – posts them; an agent runtime (TypeScript) whose runs park on a
person's approval; and a local agent on the seller's machine (TypeScript) that guides the
seller through marketplace pages. This directory holds the TLA+ models of the stateful core
of the three, the TLC configurations that check them, and the TLAPS proofs.

## 1. The system

### 1.1 Components

| Component | State it keeps | Operations | What is hard | What makes it correct |
|---|---|---|---|---|
| **Inquiry publish** `inquiry/publish` | work item phase, approval, execution, audit rows | confirm, dispatch, verify, resume, re-arm, start-up recovery | no transaction across a request, detached copies, an ambiguous POST, crash in mid-POST | one answer, the approved text, never re-sent after it went out, "answered" only of answered questions |
| **Reply drafts** `inquiry/reply` | append-only draft versions | persist | two editors, an editor against a confirmation | the head a seller confirmed is what goes out |
| **Connector reconcile** `ingest`, `inquiry/workitem` | the inquiry row, the work item phase | re-collection of a page | stale pages, detached copies, closing an item someone is confirming | ANSWERED is monotonic; mid-flight items are left alone |
| **Thread repair** `connector/cafe24` | thread role, operational state, phase | repair | runs beside everything else | only rows nobody acted on are excluded |
| **Channel reply adapters** `inquiry/publish/cafe24`, `naver`, ESM, Coupang | none | publish, verify | time-outs, 5xx after a write | an outcome says what is known, and no more |
| **Review reply execution** `review/publish` | execution ledger (insert only) | execute, observe, read-back | the POST precedes the only record of it | one public reply per review |
| **Responsibility runtime** `responsibility` | run rows with lease, attempt, heartbeat | materialise, claim, execute, recover, retry, retire, cancel | pauses longer than a lease, fencing by check-then-save | one owner writes a run; every run ends |
| **Sync admission** `collect`, `sync` | sync run rows, cursors | admit, reclaim, execute, advance cursor | stale RUNNING rows, two schedulers | one run per account at a time |
| **Agent run service** `agent-runtime` and the run store `agentrun` | the run's row: status, version, claim | start to the checkpoint, resume, claim, save | two resumes at once, a draft edited after the checkpoint, a lease that lapses under its holder | only a text somebody read is approved; a finished run keeps its outcome |
| **Action Window export run** `collector/src/action-window` | the engine's record in memory and on disk, drive chains | commands, probes' answers, save, restore | several chains over one engine, late answers, a restart between any two steps | a completed run was verified and ingested; a driven stage is driven |
| **Carrier host** `collector/src/bridge` | the one carrier slot, attached tabs, a release in flight | attach, disconnect, poll, recycle, handover, shutdown | the slot changes hands across an await | a watched carrier stays, an unwatched one is freed |
| **Review import segment** `collector/src/action-window/initial-import` | the engine, drive chains, barrier and park watchers, latches | commands, answers, watchers, watchdog, window close | five kinds of tasks over one engine | a wait is watched, a park is looked at again, the scope gate holds |
| **Aside jobs, agent quota** | job / use rows | schedule, count-and-use | count-then-insert | limits hold under races |
| **Operations cases** `operationscase` | cases, events, one summary per run | open, converge, notify after a run | called again by a reclaimed attempt | one case per subject, one summary per final run |
| **Review import plans** `reviewimport` | plans, segments, attempts, launches | plan, launch, attempt, ingest | an attempt that outlives its launch | a segment is covered only by what was ingested |
| Proactive cases, conversation and planner of the agent runtime, other carriers and page drivers of the helper, knowledge and review issues, auth, frontend, contracts, deployment | – | – | – | not modelled (6) |

The backend's components share the database: a seller's HTTP request, the scheduled sweeps, an
operator's repair and the start-up recovery all read and write the same rows, and exchange no
messages. Three call each other in process: a responsibility run starts sync runs, asks the
aside jobs, and calls the operations cases when it ends. Everything outside is the marketplace: it takes an answer or not, and
says what it shows.

The agent runtime keeps nothing between two requests: a run's row is in the backend, and each
of its calls there is a request of its own. The local agent is one Node process: its host
builds a carrier in its only slot when a tab asks for it, and the carrier runs one session,
an export run or an import segment among others. It speaks to the product's tabs by frames and
to the marketplace page through a driver; the seller acts on that page by hand.

### 1.2 How the code runs, and why that is the model

`InquiryPublishService` has no transactional method, and open-in-view is off, so **each
repository call is its own transaction** and **every entity a request holds is a detached
copy**. There is no `@Version` on these rows and no `@DynamicUpdate`: `save` writes the whole
copy back, whatever happened to the row since it was read. A request is therefore modelled as
a process whose steps are its repository and channel calls (`pc[r]`), with its own copies of
the execution row (`x[r]`) and of the inquiry row (`q[r]`). This is the interleaving that unit
tests, which call one method at a time, do not reach.

The responsibility runtime does open transactions (`tx.execute`), and its claim and its seller
actions lock rows (`for update skip locked`, a pessimistic lock). Every write of a run's holder
does neither: `guardedSave`, `finish` and `cancelHeld` read the run, compare `lease_owner`, and
save at the commit, under READ COMMITTED and again without a version column. Each of them is
two steps here: the check, then the write of what was read.

The two TypeScript programs are single-threaded event loops: what runs between two `await`s is
atomic, and everything else may come in at an `await`. A chain of `drive` is therefore a process
whose state is the driver call it awaits, and several of them – one per command, per observed
action, per look of a watcher – share one engine. The tests drive one chain at a time to its end;
the models start and answer them in every order. A request of the agent runtime is a process
whose steps are its backend calls.

## 2. The modules

| Module | What it is |
|---|---|
| `InquiryPublish` | one work item, from the draft to the verified answer, with every process that writes to it |
| `AnswerContract` | what answering promises, in five actions and four variables |
| `MCInquiryPublish` | the symmetry of TLC's instances |
| `InquiryPublishProofs` | for any interleaving: types, "only what the seller saw goes out", and "answered is only said of answered questions" |
| `InquirySerialProofs` | for one seller thread at a time: refusals on record and the refinement of `AnswerContract` on every channel; one answer, never re-sent, where the adapter can tell a landed write |
| `ResponsibilityRun` | one responsibility: its windows, the scheduler instances that work them under leases, the seller who hands it over and takes it back |
| `WindowContract` | what working the windows promises, in five actions and four variables |
| `MCResponsibilityRun` | the symmetry of TLC's instances |
| `ResponsibilityProofs` | types, one RUNNING run, nothing queued after a hand-back; and, for short transactions: only the holder ends a run, settled stays, SUCCESS is settled, and the refinement of `WindowContract` |
| `AgentRun` | one checkpointed run, its resume requests, the drafts and the approval behind it |
| `RunContract` | what a run promises, in four actions and four variables |
| `MCAgentRun` | the symmetry of TLC's instances |
| `AgentRunProofs` | types, all four of the run's properties, and the refinement of `RunContract` |
| `ActionWindow` | one export run: engine, drive chains, the record on disk, crash and restore |
| `CarrierHost` | the helper's carrier slot under its tabs |
| `ImportRun` | one segment of the review import: engine, drive chains, watchers |
| `LocalAgent` | the helper's process: the slot, or the session it hosts |
| `ActionWindowProofs`, `CarrierHostProofs`, `ImportRunProofs` | types, and every safety property of the three |
| `LocalAgentProofs` | all of that for the process that hosts one of the three |

Definitions marked *(Broken variant: ...)* are bugs the code does not have; no specification
uses them. Each property is known to notice one.

### 2.1 `InquiryPublish`: state and code

| Variable | Code |
|---|---|
| `phase` | `InquiryWorkItem.phase` (from PROPOSED on; OPEN, proposal and operator dismissal come before) |
| `drafts` | `inquiry_reply_draft` rows; the version is the index, the content its fingerprint |
| `approvals` | `inquiry_approval`, unique on the work item: a set with at most one row |
| `execution` | `inquiry_execution`: status, whether a provider reference is stored, failure reason |
| `inquiry` | the inquiry row: `answered` = status ANSWERED, `stamp` = whether `answeredAt`/`answerBody` is filled and by whom, `sendable` = ACTIVE, REAL, a marketplace object and supported |
| `audited`, `rearms` | the audit rows that constrain later steps: `execute:` per attempt (its key is unique, a second insert throws) and EXECUTION_REARMED (they count the attempts) |
| `posted`, `elsewhere` | external: our answers under the question, and anybody else's |
| `live` | whether the deployment has a reply adapter for this channel and subtype |
| `pc`, `cand`, `x`, `q`, `outcome` | one request's next call, what it is about to bind, its copies, and the adapter's answer |
| `boot`, `bootx` | the start-up recovery and its copy |

One action is one repository or channel call with all its effects, and the reads that sit
next to each other without a write in between are grouped into one (the groups are named in
the map of `PROJECT.json`). The main path is

`ConfirmFirst → Bind → ReadPending → Revalidate → MarkDispatching → Post → RecordOutcome →
PublishedPhase → AuditOutcome → QueryChannel → VerifiedPhase → MarkAnswered → VerifySave`

with the exits the code has: a second binder refused by the unique key, nothing pending, a
refusal by `revalidate`, no adapter, an undetermined or retryable outcome, a duplicate audit
row whose exception skips the verification. `Requery`, `ResumePending`, `ResumeDispatching`,
`Rearm` are the other entries of the controller. `SweepRead/SweepSave/SweepClose` are a
collection sweep on a row that exists, `RepairBegin/RepairClose` the thread repair;
`CrashRestart`, `RequestDies`, `RecoveryScan`, `RecoverySave` the failures and the recovery.
A crash and the next start are one action: nothing in the system acts between them. The
recovery runs while requests are served, because Spring calls an `ApplicationRunner` after the
web server is up.

`Drop(r)` clears a request's copies when nothing later reads them; it changes no behaviour.

`Channel` is the marketplace the question came from, and for NAVER which of its two kinds of
question. Its five adapters share the service and differ in four ways, each a definition read
from the adapters:

| | Cafe24 | Coupang | ESM (`GMARKET`) | NAVER product | NAVER customer |
|---|---|---|---|---|---|
| `Overwrites`: a write replaces the answer there, so `revalidate` asks for a proven reading | | | | yes | |
| `LandedRetryable`: a 5xx, which may hide a landed write, comes back as RETRYABLE | | | | yes | yes |
| `LandedRefused`: a 200 without the expected envelope comes back as a refusal | | yes | yes | | |
| `ReadsTheText`: `verify` looks for the approved text under the question | yes | | | | |

`MayHaveLanded` and `AnswerProven` are the first three and the last as `Post` and `QueryChannel` use
them. `TellsApart` is what the properties about a single send need: no outcome called refused or
retryable hides a landed write. Every channel's time-out is DELIVERY_UNKNOWN. Cafe24's comparison is
that of normalised hashes; the model takes an answer somebody else wrote to differ from the approved
text.

Abstractions, and why they lose nothing the properties speak of: the five identity comparisons
of `revalidate` compare columns that no code changes after creation; verification rows,
verify-attempt counters, pre-send notes and the answer memory are written and never read here;
a re-arm's command id is its reason and correction, without the truncation at 120 characters;
a draft's text is its fingerprint; a sweep without a seller account (file upload) has no
connection to close items for and is left out; row locks inside the two JPA transactions of
`reconcileConnectorAnswered` and `repair` are not modelled – they read first and write at
their commit.

### 2.2 `AnswerContract`

`approved` is empty or one text; `Send` sends it, only after the approval, and with `Once` one time
only; `Claim` says "delivered" only of a question with an answer, and with `Own` only of an answer of
ours; `AnswerOfOthers` is somebody else's; `Retract` may take the claim back. `InquiryPublish`
implements it under the mapping in `Contract`, `Once` being `TellsApart` and `Own` `ReadsTheText`: what
a channel is promised is what its adapter can tell – with one seller thread at a time (see 3).

### 2.3 `ResponsibilityRun`: state and code

| Variable | Code |
|---|---|
| `now` | the index of the two-hour window that is open; nothing else of the clock matters but leases |
| `status`, `next` | the `responsibility` row: status, `next_run_at` as a window (0 for null) |
| `runs` | `responsibility_run`, unique on the window: status, attempt, `lease_owner`, whether `lease_until` is in the future, whether `next_attempt_at` is set |
| `sources` | `responsibility_run_source`, unique on run, source and attempt: whether the observation is recorded, and its result |
| `handing`, `copies` | a pause or stop that has locked the responsibility and read its runs, and has not committed |
| `pc`, `mine`, `at`, `row` | one instance: its next step, its run, its place in the list of required sources (the device recipe comes after them), the source row it carries |
| `snap`, `held` | what a `finish` or `cancelHeld` has read: the run's source rows and the run |
| `lost` | `Heartbeat.lost` |
| `handbacks`, `faults` | bounds only |

The path of one run:

`Materialize → Claim → (SkipSettled | BeginRecovery → Recover | BeginSource → Insert → Observe →
Record)* → BeginDevice … | SkipDevice → FinishRead → FinishWrite`

with the exits `LeaseLost`, a failed check anywhere (`Leave`), `HandedBack → CancelWrite`, and an
exception (`Throw`, a duplicate source row in `Insert`), which goes to the finish. `Retire` and
`Sweep` are the claims that start nothing; `StartWorking` is activate and resume, `HandBackRead`
and `HandBackWrite` pause and stop; `Heartbeat`, `LeaseLapses`, `Stall` move the lease, `Crash`
ends an instance and starts its successor.

Choices a reader should know:

* `SKIP LOCKED`, a retry that is not due yet, and the scan's limit all mean that a claim may see
  fewer runs than there are: `Tick` takes any subset of `Claimable` as seen.
* The reads that come before a check with no write of anyone's that could matter between them
  (the status, the history of the source, the run) are one step. The status may be stale by
  the time the observation starts; the behaviour this allows – one more source is observed – is
  that of a pause a moment later.
* A source's result is known in the database before its row is recorded, because it is that of
  its sync job; `Recovered` reads it when the attempt that asked is gone. The job of a source
  that is still being collected is closed as an orphan (`FAULT`).
* A result is one of five: settled; partly read, worth a retry or not; nothing read, worth a retry
  or not. Counts, cursors and failure texts only decide which.
* `finish` reads its clock at the start; the model reads it with the write, and lets the
  back-off fall inside the window or not.
* `CloseAll(..., "FAULT")` stands for EXECUTION_FAILED (retryable), `"REFUSED"` for CANCELLED.
* `ShortTransactions` says that no claim of a run commits between the check and the write of
  its former holder's transaction, and no claim during a hand-back's. The code does not enforce
  it; it is what the lease of minutes against transactions of milliseconds makes likely. The
  runs that assume it say so, `resp_fence` shows what happens without it, and the theorems that
  assume it have it in their statement (4.2).

`WindowContract` says the same without rows: `Take` gives a window to one worker, under a new
attempt number and while nobody else works; `Settle` adds one source for good; `Report` ends the
work on a window whose sources are all settled; `Relieve` takes windows from their workers (a
lapsed lease, a hand-back, a finish that is no success); `Withdraw` is a report that a hand-back
overwrites. The last is there because it happens: a pause saves the queued runs it read, and a
finish that was under way since before the run was queued again may have written SUCCESS in
between. With two hand-backs TLC finds it, so "no way back from SUCCESS" is not promised.

### 2.4 `AgentRun`: state and code

| Variable | Code |
|---|---|
| `arDomain`, `arLive` | inquiry or review run; whether the backend has reply adapters (`assertExecutionDisabled` refuses if it has) |
| `arHead`, `arApproval`, `arCommanded`, `arMints` | the backend as the runtime's calls see it: the head draft, the standing approval, whether the run's idempotent command was applied, guided sessions minted |
| `arSnap` | the draft in the checkpoint: the snapshot keeps its version and fingerprint |
| `arRow` | `agent_run_state`: status, version, `claimed_at` older than the lease or not, outcome |
| `arCall` | one resume request: its next call, the decision, the version its load noted |

`ARPrepare → ARPark`, then per request `ARClaim → ARLoad → (ARDetail → ARReadHead → ARSaveDraft →
ARConfirm | ARApprove → ARMint) → ARSave`, each a backend call, with `ARDies` and `ARLeaseLapses`
between any two. `ARPeople` is everybody else: a person saves, approves or withdraws at the
workspace, and a redeployment turns the adapters on or off. A text stands for title, body and
fingerprint together.

`RunContract` says the same without requests, rows and leases: `Show` puts a text before the
approver, `Write` is a text an answer brings, `Bind` makes one of these the text the run's
command stands for, once, and `Finish` records one outcome, APPROVED only of a run that is bound.
It lets a run bind after it was recorded as REJECTED, because the code does: a rejecting resume
takes over a lapsed claim and saves, and then the overdue holder, whose calls of the backend carry
the command and not the claim, applies its approval.

### 2.5 The local agent: `ActionWindow`, `CarrierHost`, `ImportRun`, `LocalAgent`

`ActionWindow`: `awEng` is `PersistedEngineState` (`ledger` = `appliedCommandIds`; `first` and
`artifact` are the two events `session.ts` reads back), the engine's methods are operators from
a record to a record and an effect, named after the method. `awDisk` is the saved record,
`awChain[c]` the probe a drive chain awaits with the reference it was called with. An answer is
`AWAnswer`; a probe answered where the engine no longer is throws in `expect()` (`AWLateAnswer`); a
rejected probe, a save that throws and a crash are the faults. `AWBoot` opens the record:
`AWSafeStage` and `AWPauseForRestore`.

`CarrierHost`: `chActive` is the slot, `chAttached` the tabs that asked for its carrier, `chRetiring`
and `chThen` the release in flight and what its continuation will serve. `release()` is two steps,
before and after `dispose()`. The shutdown is `disposeActive()` (`CHStop`), which awaits the carrier in the
slot and nothing else, and `close()` (`CHClose`), which may come while a release it did not await is in
flight. The carrier is what `isSettled()` and `isSurfaceOpen()` say of it.

`ImportRun`: `imStage` is the engine's stage; `imGate` is the history of the scope verdicts (`"holds"` until
one matches or the seller confirms, again after one that refuses; `"overrun"` when a call past the gate
is answered while it holds); `imChain` the drive
chains, `imWatch` and `imStale` the barrier watchers at the barrier and at one already left,
`imParkWatch`/`imParkDrives` the park watcher and the chain it awaits, `imBusy`, `imClosed`, `imDog` the
session's latches. The result handlers of this engine refuse a finished run and nothing else, so a
late answer does move a run; the model keeps that, and section 3 says what it leads to.

`LocalAgent` puts the three behind one variable: a process is looked at as its slot, or as the
session in it. The parts share no state – the slot gives a carrier nothing but its disposal – so one
run checks all three.

Abstractions: the texts of views, events and panels; of revisions, whether a command's is
fresh; of clocks, whether the grace has elapsed; the commands that change nothing but the guidance
flag; the import's second date step, which goes as its first, and its in-page panel, whose intents
are commands.

## 3. The runs

| Run | Instance | Checks |
|---|---|---|
| `publish_serial` | Cafe24: 1 seller thread, 1 job, 2 crashes, 1 death, up to 2 answers accepted, fair | `TypeOK`, `AtMostOneAnswer`, `SentIsNeverRedispatchable`, `RefusalIsWrittenDown`, `ImplementsContract`, `DispatchSettles` |
| `publish_editing` | NAVER product questions: 2 seller threads, 1 job that edits, sweeps or repairs, 2 texts, 2 versions, no re-arm | `OnlyApprovedAnswers`, `AnsweredMeansAnswered` |
| `publish_doublesend` | Cafe24: 2 seller threads, up to 2 answers | finds `AtMostOneAnswer` violated |
| `publish_known` | Cafe24: 1 seller thread, 1 job | finds `NeverSecondsAKnownAnswer` violated |
| `publish_monotonic` | Coupang: 1 seller thread, 1 job, fair | finds `AnsweredIsNeverDowngraded` violated |
| `resp_settles` | 2 instances, 2 windows, 1 source that never answers well, 1 fault, 1 hand-back, fair | `QueuedOnlyWhileActive`, `AtMostOneRunning`, `EveryWindowIsAccountedFor` |
| `resp_fenced` | 2 instances, 1 window, 2 sources and a device, 1 fault, 1 hand-back, short transactions | `TypeOK`, `SuccessMeansSettled`, `SettledStays`, `OnlyTheHolderEnds`, `ImplementsWindowContract` |
| `resp_device` | 1 source and a device, no fault | finds `RetryIsOwed` violated |
| `resp_fence` | 1 window, 1 fault, transactions of any length, fair | finds `OnlyTheHolderEnds` violated |
| `resp_resume` | 1 window, 1 hand-back | finds `ResumedWindowIsWorked` violated |
| `agent_run` | 2 resumes, 2 texts, 2 acts of people or redeployments, 1 fault | `ARTypeOK`, `ARApprovedTextWasRead`, `ARDoneIsBound`, `ARDoneStays`, `ARMintOnceWhileLeased`, `ImplementsRunContract` |
| `agent_host` | the slot: 2 tabs, 2 requests, 3 carriers; the export: 2 chains, 1 fault, 1 repeatable command; the import: 2 chains, 1 upset; fair | `LATypeOK`; of the export `AWDrivenStageHasItsChain`, `AWOneDownstreamChain`, `AWCompletionIsEarned`, `AWReplayIsNoop`, `AWWaitingViewIsStorable`, `AWTerminalStays`; of the slot `CHOneRetiring`, `CHAttachedKnowsItsCarrier`, `CHWatchedStays`; of the import `IMParkIsWatched`, `IMWaitIsWatched`, `IMIngestNeedsGate`, `IMTerminalStays`; and `LASlotIsFreed`, `LARunMoves` |

**What they show.** On Cafe24 and with one seller request at a time, nothing in the machinery –
ambiguous time-outs, crashes between any two calls, the recovery, refusals and re-arms, replays –
sends a second answer or leaves a sent one in a state from which it could be sent. With two requests
at a time it does: `maybeDispatch` checks ACTION_PENDING on a copy and saves DISPATCHING
without a condition, so a double click or a replay sends twice (`publish_doublesend`; the class
comment says it never does). `revalidate`'s comment says *already answered, by anyone* and the
code looks at two columns that a Cafe24 board answer does not fill (`publish_known`). And a
sweep's stale copy turns an ANSWERED inquiry UNANSWERED again, against `applyInquirySource`'s
"monotonic" (`publish_monotonic`).

On the other four channels one thread is enough for a second send, because the adapter calls a write
refused or retryable that may have landed. The model has each case, and `publish_serial` with that
channel in its configuration finds `AtMostOneAnswer` and `SentIsNeverRedispatchable` violated:

* NAVER, both kinds: a 5xx is `retryable` (`NaverProductQnaAnswerClient.java:72`,
  `NaverCustomerInquiryAnswerClient.java:80`), and the service puts the row back to ACTION_PENDING with the
  comment "Nothing was sent" (`InquiryPublishService.java:398`; `ReplyPublishResult.java:11` says so too).
  Cafe24's client says of the same status that it "can also mean the write landed and the response
  did not" (`Cafe24ReplyArticleClient.java:108-109`). A NAVER product answer is overwritten by the second
  send, the other kind is refused by NAVER as a duplicate; the model counts the sends.
* Coupang: a 200 whose body cannot be read is a refusal (`CoupangInquiryReplyClient.java:209`), FAILED
  without a reference, so the interlock "a provider reference means something may exist over there"
  (`InquiryPublishService.java:215-216`) lets it be re-armed. An ESM result code without a message number
  goes the same way (`EsmAnswerResponseParser.java:40-42`).

What COMPLETED rests on differs too. Cafe24's adapter reads the approved text back, since "a
`reply_status` alone would let someone else's answer, or an answer that never arrived, read as ours"
(`Cafe24ChannelReplyAdapter.java:193-194`). The other four ask only whether the marketplace calls the
question answered (Coupang: "Deliberately NOT a check that our text is present",
`CoupangInquiryReplyClient.java:216-218`), so there a seller's answer in the marketplace's own console
completes an execution of ours whose write never arrived. `AnsweredMeansAnswered` says for every channel that
the question has an answer, and for Cafe24 that it is ours; the contract's `Own` is the same.

The responsibility runtime keeps its promises about crashes: wherever an instance dies, throws
or stands still, the window's run is reclaimed and ends on record; and, while no claim commits
inside its transactions, a source that was settled is never read again, and SUCCESS is said only
when every required source was observed to its end.
Three sentences of its comments are not kept. A device that is asleep makes a settled run
PARTIAL and schedules a retry, because `finish` judges every row it finds (`resp_device`). The
fence is a check before a write, not a condition of it: a holder that stalls in between ends
its successor's run (`resp_fence`). And a holder that read PAUSED cancels the run although the
seller has resumed since; no later step reopens it, so the open window is not worked
(`resp_resume`).

A checkpointed agent run binds only a text that its checkpoint showed or its approver wrote, and
no late resume rewrites its outcome, whatever people do at the workspace in between. What it does
not promise, and no comment says it does: after a lease lapsed under its holder a second guided
session is minted, and the holder may still apply its approval to a run that the next resume
recorded as REJECTED; a resume refused with `DRAFT_CHANGED` leaves its claim behind, so the next
one waits for the lease to lapse; and an inquiry can be approved by a run only while
the runtime sees no adapter and the backend sees one (`assertExecutionDisabled` against
`assertCarriable`), that is, across a redeployment.

In the local agent the watchers and chains do not lose each other: a driven export stage has its
chain, a waiting or parked import its watcher, a watched carrier its slot, through pauses,
resumes, late answers, restarts and slow disposals; completion and ingest are earned. While
modelling we met seven behaviours that the properties name as exceptions rather than promise:

* an export whose save throws or whose probe rejects after the seller's click stays in a
  processing stage with no chain; only CANCEL or a restart helps (`awBroken` in
  `AWDrivenStageHasItsChain`);
* `PAUSE` and `RESUME` while a probe is out leave an older chain whose late answer throws; its
  `fatalCleanup` takes the overlay off the page of the run that goes on;
* when the import's window closes, `watchPark` ends before its first `await` and calls
  `maybeWatchPark` from its `finally`, which starts it again, synchronously and without end; the
  rejection ends the process (`local-agent.ts:2983`), where `import-session.ts:203-212` describes a
  recoverable park. `imUp` records it, and the import's properties are about a process that is up;
* an empty slot is filled at once even while a release is in flight, so for a moment two browser
  windows are up, one of them closing (`CHOneRetiring` bounds it), although
  `on-demand-carrier-host.ts:177` says two carriers never hold a browser at the same moment;
* a tab that disconnects while its handover or recycle disposes of the old carrier is attached
  all the same: the continuation looks at the slot only (`on-demand-carrier-host.ts:178-180`, `:234-236`), and
  `activateFor` puts the dead socket into `attached` (`:297`). No further disconnect comes for it, so
  `maybeRelease` (`:374`) keeps the carrier, and handover and recycle, whose precondition is that nobody
  is attached, refuse everybody else, until the helper stops. The comment of `attached` (`:110`) says "their
  emptiness is what 'nobody needs the window' means". `LASlotIsFreed` excepts it (`CHDeadTab`); without that
  exception TLC finds the slot held for ever;
* an import's late answer passes the scope gate. `onTargetLocated` and `onTargetHighlighted`
  (`import-engine.ts:321`, `:369`) look at no stage but a finished one, so: the scope matches, a chain
  locates the export; the seller pauses and resumes, the scope is read again and does not match,
  the run is SCOPE_BLOCKED; now the first chain's answers come, and the run waits at the export.
  `import-engine.ts:15-18` says "The scope gate is unbypassable" and `:484` "nothing highlights export until the
  selected window agrees". `IMIngestNeedsGate` says that nothing else passes the gate: its exception
  (`IMAnswered`) is a call past the gate that is answered after the verdict that refused;
* a shutdown that finds the slot empty while a release is in flight does not wait for it:
  `disposeActive` returns at once (`on-demand-carrier-host.ts:332-336`), then `close()` runs and the process
  exits, although "a window the on-demand walk opened must not outlive the helper that opened it"
  (`local-agent.ts:2441`). `CHStop` and `CHClose` have it; the properties of the slot end at `close()`.

**Bounds.** `MaxDrafts` = 2 is enough for an editor to move the head after the seller looked; two seller
threads race to bind;
`MaxPosts` = 2 lets a second answer happen; with `MaxPosts` = 1 (editing) a second
landing is cut off, because that run asks about what is said and what was approved: a first
landing that came back retryable, and the sends after it that do not land, are in it, a second landing
after it is left to the theorems, and the doublesend run explores the second answer. `Channel` is one per
configuration: Cafe24 where both of the contract's promises hold, NAVER product where `Overwrites`,
`LandedRetryable` and the status-only verification meet; for the
other four, `TypeOK`, `AnsweredMeansAnswered`, `RefusalIsWrittenDown`, `ImplementsContract` and
`DispatchSettles` were checked in the instance of `publish_serial` with one crash (0.3 to 1.0 million
states), and the theorems are for all five. The editing run leaves out
re-arms, which `publish_serial` has, and a second editor, whose race for a version number is
covered by `OnlyApproved` alone, for any number of editors. Two crashes and one death interrupt every step
of every request. One text suffices where no property compares texts. Two threads suffice for
every lost update: it takes one reader and one writer.

For the responsibility runtime, two instances are a holder and whoever reclaims it; two
windows let a run outlive its window while the next is due (but no schedule that is more than
one window behind); `MaxAttempts` = 2 in place of 3 leaves a first run, a reclaim or a retry,
and the limit reached; two sources let an attempt stop after the first. One fault falls at every
step; with two faults the properties of `resp_fenced` and the two invariants and the liveness
property of `resp_settles` hold as well, in about 2.6 and 0.4 million states. `resp_settles`
uses only a failing source, which maximises retries; `resp_fenced` uses settled and failing ones.
`REFUSED`, `PARTIAL` and `PARTIAL_FINAL` add outcomes, not steps: a retry is owed or not.

For the agent run, two resumes are a holder and whoever takes over; two acts of people move the
head and then approve, or withdraw what was approved, or turn an adapter on for the confirmation.
With three resumes and one act (4.0 million states) the properties hold as well. For the local
agent, two drive chains are an older and a newer one; a third would have to find an idle slot
while both await, which is a further copy of the older one, and the theorems speak of any
number. One fault falls between any two steps. Three carriers are the one in the slot, the one
being disposed of, and the next. One target and one artifact suffice, because no property
compares them.

**Deadlock** is checked in every run of `InquiryPublish`. The runs of `ResponsibilityRun` do
not check it: after the last window, with every run on record and no hand-back left, the
bounded system stops. Nor does `agent_run`, where every request has ended, nor `agent_host`,
where a run is over, or the host has shut down, and nothing is left to do.

**Fairness** of the publish runs (`FairSpec`): weak fairness of each request's next call – a servlet thread goes
on, and the adapters' HTTP clients have time-outs – and of the recovery, which every start
runs. No fairness is assumed of a seller, an editor, a sweep, a crash, or the channel's
answer. So an approval whose adapter went away, or a row whose request died alone, may wait
forever, as in the code; `DispatchSettles` excepts the latter by `deaths > 0`.

`FairSpec` of the responsibility runtime: weak fairness of each instance's tick (a scheduler with
a fixed delay) and of its next step (every wait of an observation has a limit: `adoptWait`, the
aside job's expiry, HTTP time-outs), of the lapse of a lease nobody renews, and of the commit of
a hand-back. Which runs a claim sees is not constrained by fairness beyond that: a tick that can
do something does something. Nothing is assumed of the seller, of results, of faults, of a heartbeat, or of
the window: `EveryWindowIsAccountedFor` holds also if the next window never opens. It holds for
a window that opens while the seller's job is on, until it is taken back.

`LAFairness`: weak fairness of the end of each driver call (every probe has a time-out of its own),
of a start after a crash (the supervisor restarts the helper), of the host's poll (a timer), of the end
of a `dispose()`, and of the park watcher's timer. None of the seller, of tabs, of commands, of
answers, of faults, or of a scope park on a surface with an apply control, which waits for
the seller's own press. `AgentRun` has no liveness: nothing retries a run by itself.

## 4. The proofs

### 4.1 `InquiryPublish`

For all sets of sellers, jobs, commands, texts and corrections and all bounds, from
`TextsAssumption` and `CommandsAssumption` (not empty), `ChannelAssumption` (one of the five) and
`BoundsAssumption`:

* `TypeCorrect`: `Spec => []TypeOK`.
* `OnlyApproved`: `Spec => []OnlyApprovedAnswers` – for **any number** of concurrent
  sellers and editors. Alone it is not inductive: the argument needs that the approval, when
  there is one, names a version whose text is the one its seller saw (`ApprovedAsSeen`), that a
  request about to bind holds such a version too, and that drafts are append-only.
* `AnsweredIsTrue`: `Spec => []AnsweredMeansAnswered`, for every channel. Not inductive either, since
  rows are overwritten with copies: the strengthening says every copy is as truthful as a row
  (`CopiesTruth`), which holds because answers on the channel only accumulate (`Gains`), and so does
  what an adapter takes for proof (`ProvenStays`).

`TInv` is `TypeOK` strengthened by what the next write needs (a request at "phase" holds an
EXECUTED or FAILED copy). Each step lemma has one step per action.

Under `OneSeller` (at most one seller thread; jobs, crashes, deaths and the start-up recovery
interleave with it freely), for any number of jobs, restarts, attempts, re-arms and posts:

* `SerialInductive`: the invariant `Serial`. None of the properties is inductive, because what a
  thread does next depends on a copy, and the recovery may overwrite the row with *its* copy at
  any time. So `Serial` says, for each place of the thread, which statuses the row may have by
  now (DELIVERY_UNKNOWN everywhere, since the recovery may have saved the DISPATCHING copy it
  read), what the thread's copy and its outcome say of whether an answer went out, and that before
  an approval there is no row, no answer and nobody to write either. It holds on every channel; what
  it says of an answer that went out is about the channels where `TellsApart` (`Sent`, `SentOnce`). The
  central fact there: up to the post nothing was sent, and once an answer went out the outcome in
  hand is CONFIRMED or DELIVERY_UNKNOWN, never a refusal, so no re-arm starts.
* From it `RefusalsAreWrittenDown`, on every channel, and under `TellsApart`, which of the five is
  Cafe24, `OneAnswerAtMost` and `SentIsNotSentAgain`. Without it the two are false (section 3).
* `PublishKeepsTheContract`: `Spec => ImplementsContract`, step by step and on every channel, with what
  that channel is promised. `ContractWriters` sorts the
  steps by what they may change of the contract's variables: only `Bind` approves, only a `Post` that
  lands sends, and what else changes the execution's status claims or retracts.

The code does not give `OneSeller`: nothing serialises two confirmations of one work item. It is
needed for each of the four. `publish_doublesend` shows `AtMostOneAnswer` violated with two
threads, and `InquiryPublish_serial.cfg` with a second seller in `Sellers` shows it of
`SentIsNeverRedispatchable`, `RefusalIsWrittenDown` and `ImplementsContract`. What holds for any
number of threads is the first group.

**Only model-checked:** `DispatchSettles`, since liveness under fairness is out of this prover's
reach.

### 4.2 `ResponsibilityRun`

For any instances, numbers of sources, windows, attempts, hand-backs and faults, with or without
a device and whether or not transactions are short, from `NoOneAssumption`,
`SourcesAssumption`, `ObservedAssumption` and `RunBoundsAssumption`:

* `RunTypeCorrect`: `Spec => []TypeOK`. `TypeInv` adds that a hand-back's copies have the shape
  of the rows they were read from, since they are written back whole, and that only required
  sources are recovered, since the recovery advances to the next one.
* `OneRunningRun`: `Spec => []AtMostOneRunning`. `StepKinds` sorts the steps by what they may do
  to a run's status: only a claim starts a run, and it does so when the unique index sees no
  other; every stale copy that is written ends its run.
* `HandBackLeavesNothingQueued`: `Spec => []QueuedOnlyWhileActive`. Not inductive, because a
  hand-back reads before it commits: while it is under way, every queued run is queued in its
  copies too (`CopiesCover`), because nothing else queues a run under the lock it holds.
* `OnlyHolderEndsRun`: under `ShortTransactions`, `Spec => OnlyTheHolderEnds`. The invariant
  follows a run from the check to the write: whoever is in between works a run that nobody else
  holds (`MidInv` – it may have been retired meanwhile, which is why "it still holds the run" is
  not inductive), and a run that a hand-back will write back has not been claimed since
  (`BackInv`). `StepChecked` shows that no instance comes to be in between without the check.
  Without the assumption the statement is false, as `resp_fence` shows.

Under `ShortTransactions` too, and for as many sources, attempts, instances and faults as there are:

* `NothingOpenIsLeftBehind`, `SettledIsNotReadAgain`, `SuccessIsSettled`: `[]Tidy(sources)`,
  `SettledStays`, `[]SuccessMeansSettled`. They rest on `RowInv`. A save writes back a row, and a
  finish all rows, as they were read before the check, so the invariant follows each copy to the
  table. An instance about to open a source carries the row of the current attempt of a source
  that is not settled, and leaves no earlier row open; one about to save an observation carries a
  row whose slot is in the table, of a source that is not settled; a finish's copy differs from the
  table only by open rows that learned their result or were closed by who retired the run
  (`Weakened`). That a check may be stale is where `ShortTransactions` comes in: an attempt
  number changes by a claim alone (`AttemptStep`), and a claim disturbs nobody in between. What
  makes `SuccessIsSettled` work is that a settled source survives `Weakened` in both directions
  (`WeakenedKeepsSettled`): what the finish's copy calls settled is settled in the table.
* `RuntimeKeepsTheContract`: `Spec => ImplementsWindowContract`. To `RowInv` it adds that a run which
  somebody is about to write is not SUCCESS and has had an attempt (`BusyInv`). `SettlesBySave`
  shows that only the save of an observation settles anything, and only its own source;
  `RelievesOnly` maps every step that starts, counts and reports nothing; a claim, an ending, a
  save and a hand-back have a lemma each.

The code does not give `ShortTransactions` either (2.3). Each statement needs it: `resp_fence`
shows it of `OnlyTheHolderEnds`, and `ResponsibilityRun_fenced.cfg` with `ShortTransactions = FALSE`
shows `SuccessMeansSettled`, `SettledStays` and `ImplementsWindowContract` violated.

**Only model-checked:** `EveryWindowIsAccountedFor` (liveness).

### 4.3 `AgentRun`

For any requests, texts and bounds, from `ARAssumption`: `ARTypeCorrect`; `ARApprovedWasRead` (the
head never falls behind the checkpoint's version and keeps its text while the version is the
same, and a request that writes carries a text it may); `ARApprovedIsBound` and `ARFinishedStays` (a
request past its load names a version the row has left once the run is done); `ARMintsOnce` (while
no lease lapsed, one request at most is past the claim); and `ARKeepsTheContract`:
`ARSpec => ImplementsRunContract`. To the earlier invariants the last adds `ARRunInv`: a command
binds a text, the approval it gave an inquiry stands (so the command never binds another), and
only a finished run has an outcome. `ARAssumption` says that null is no text, no draft, no binding
and no outcome. Every property of the run is proved.

### 4.4 The local agent

For any chains, tabs, requests, targets, artifacts, command identities and bounds, from
`AWAssumption`, `AWNoneIsNoRecord`, `CHAssumption` and `IMAssumption`, each for the specification of its
component:

* `AWInvariant`: the engine in memory and the one on disk are both consistent – the seller's stages
  are at step 2, those behind them at step 3, step 3 was verified, COMPLETE was ingested, a
  pause keeps a stage it may return to – every chain belongs to a started run, a chain that
  fetches to a stage behind the seller's, what is over on disk is over in memory, and the
  ledger is what took effect. The properties need each other: a restore turns what holds on disk
  into what holds in memory. From it `AWDrivenIsDriven`, `AWOneChainFetches`, `AWCompleteIsEarned`,
  `AWReplayTakesOnce`, `AWWaitIsStorable`, `AWOverIsKept`.
* `CHTypeCorrect`, `CHAttachedKnows`, `CHWatchedIsKept` from an invariant that an empty slot has no tab on
  it; `CHReleasesDoNotPile` from one that every window is the active or the retiring carrier's.
* `IMInvariant`: what stands behind the scope gate is there while the gate is open or was overrun, which
  every method's result admits (`IMAdmits`, one lemma per method); a barrier watcher is at a barrier; and the two watcher properties, which the proof
  needs together. From it `IMParksAreWatched`, `IMWaitsAreWatched`, `IMGateHolds`, `IMOverStays`.

`LocalAgentProofs` carries them to the process. A step of `LANext` is a step of one part and a stutter
of the others (`LAStepsOfParts`), so the three invariants together are one of `LASpec`
(`LAInvariant`), and `LATypeCorrect`, `LAPartsHold` and `LAPartsStay` state for `LASpec` the very
properties `agent_host` checks.

**Only model-checked:** `LASlotIsFreed` and `LARunMoves` (liveness).

## 5. Plan

Done: `InquiryPublish` with `AnswerContract`, `ResponsibilityRun` with `WindowContract`, `AgentRun` with
`RunContract`, and the local agent's `ActionWindow`, `CarrierHost`, `ImportRun`, with the proofs of section 4. Left, in this order:

1. `ReviewReplyExecution`: execute, replay, observe, read-back, the partial unique index;
   a run for "one public reply per review"; proof that a guided observation never goes back.
2. `SyncRun`: the gate with its row lock and stale reclaim, composed with the executor.
3. The other carriers of the helper (issuance, renewal, review locate and acquisition), which
   have the shape of `ActionWindow` and `ImportRun`; a saved run marker of the import.
4. The follow-up of an ended responsibility run into operations cases, composed with it.
5. Of `InquiryPublish` with several seller threads, how many answers can go out: a bound in the
   number of threads that passed the check.

## 6. Not modelled

Formatting, parsing and HTTP shapes of the marketplaces (their outcomes are the models'
inputs); authentication and credential hand-off; the agent runtime's conversation, planner and
retrieval, whose outputs are language; the helper's page drivers and calibration, whose answers
are the sessions' inputs; its other carriers (see the plan); frontend; contracts; deployment.
Ingestion of new rows, orders and products is data mapping with an insert-or-skip. The agent
quota is a count followed by an insert.

Of the agent run: the graph's nodes before the checkpoint, the proposal of an inquiry (idempotent and
never undone), the in-process fast path that no request of the service reaches, and listing. Of the
import segment: the second date step and the panel.

Of the responsibility runtime: the follow-up cases and summaries, the rollout gate, an
organisation without required sources (`NO_REQUIRED_SOURCE`), a set of sources that changes
between attempts, several responsibilities sharing one scan, and the cap of windows per tick.
