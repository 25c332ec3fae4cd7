-------------------------- MODULE ResponsibilityRun --------------------------
(***************************************************************************)
(* The responsibility runtime for ONE responsibility: the windows it is    *)
(* due for, the instances of ResponsibilityRunCoordinator that work them   *)
(* under leases, and the seller who hands the job over and takes it back.  *)
(*                                                                         *)
(* A run is a row with a lease.  Its holder checks, in a transaction that  *)
(* locks nothing, that it still holds the run, and then writes: a step of  *)
(* an instance ends with that CHECK, and its next step is the WRITE.  A    *)
(* save writes the whole row as it was read.                               *)
(*                                                                         *)
(* Time is the number of the open window; a lease is live or lapsed.       *)
(***************************************************************************)
EXTENDS Naturals, FiniteSets

CONSTANTS
  Instances,          \* processes that run the scheduler
  NoOne,              \* lease_owner is null
  NSources,           \* required sources of the organisation
  Devices,            \* TRUE when a device recipe is open for the organisation
  Observed,           \* what a source may answer
  MaxAttempts,        \* MAX_ATTEMPTS: no retry after this many
  ShortTransactions,  \* TRUE when no claim commits between a check and its write
  MaxWindow,          \* bound on the windows that open
  MaxHandBacks,       \* bound on pauses and stops
  MaxFaults           \* bound on crashes, exceptions and missed heartbeats

Results == {"SETTLED", "PARTIAL", "PARTIAL_FINAL", "FAULT", "REFUSED"}

ASSUME NoOneAssumption == NoOne \notin Instances
ASSUME SourcesAssumption == NSources \in Nat \ {0} /\ Devices \in BOOLEAN
ASSUME ObservedAssumption == Observed \subseteq Results
ASSUME RunBoundsAssumption ==
  /\ MaxAttempts \in Nat \ {0} /\ MaxWindow \in Nat \ {0}
  /\ MaxHandBacks \in Nat /\ MaxFaults \in Nat /\ ShortTransactions \in BOOLEAN

Windows == 1..MaxWindow
Sources == 1..NSources
Device == NSources + 1      \* the device recipe comes after the required sources
Keys == 1..Device

\* SourceCompleteness with the retryable flag of SourceFailureReason: COMPLETE and
\* BOUNDED are SETTLED, a NONE is a FAULT (worth retrying) or REFUSED (not).
Settled(result) == result = "SETTLED"
Nothing(result) == result \in {"FAULT", "REFUSED"}
Retryable(result) == result \in {"PARTIAL", "FAULT"}

RunStatuses == {"NONE", "PENDING", "RUNNING", "SUCCESS", "PARTIAL", "FAILED", "CANCELLED"}

\* A responsibility_run row, one per window; "NONE" stands for "no row yet".
Runs == [status : RunStatuses, attempt : Nat, owner : Instances \cup {NoOne},
         live : BOOLEAN, retry : BOOLEAN]
NoRun == [status |-> "NONE", attempt |-> 0, owner |-> NoOne, live |-> FALSE, retry |-> FALSE]
Queued == [NoRun EXCEPT !.status = "PENDING"]
Ended(run, status) == [status |-> status, attempt |-> run.attempt, owner |-> NoOne,
                       live |-> FALSE, retry |-> FALSE]
\* (Broken variant: a lapsed lease is taken over under the same attempt.)
ClaimedUncounted(run, o) == [status |-> "RUNNING", attempt |-> run.attempt, owner |-> o,
                             live |-> TRUE, retry |-> FALSE]
\* (Broken variant: the claim keeps next_attempt_at.)
ClaimedWithRetry(run, o) == [status |-> "RUNNING", attempt |-> run.attempt + 1,
                             owner |-> o, live |-> TRUE, retry |-> run.retry]
Claimed(run, o) == [status |-> "RUNNING", attempt |-> run.attempt + 1, owner |-> o,
                    live |-> TRUE, retry |-> FALSE]

\* A responsibility_run_source row: open until its observation is recorded.  The result
\* is known earlier than that, from the moment its sync job has finished.
SourceRows == [window : Windows, key : Keys, attempt : Nat, recorded : BOOLEAN,
               result : Results \cup {"unknown"}]
Opened(i, k, a) == [window |-> i, key |-> k, attempt |-> a, recorded |-> FALSE,
                    result |-> "unknown"]
Recorded(row, result) == [row EXCEPT !.recorded = TRUE, !.result = result]
NoRow == Opened(1, 1, 0)

SameRow(r, s) == r.window = s.window /\ r.key = s.key /\ r.attempt = s.attempt
Saved(rows, new) == {r \in rows : \A n \in new : ~SameRow(r, n)} \cup new

Of(rows, i, k) == {r \in rows : r.window = i /\ r.key = k}
Latest(rows, i, k) ==
  {r \in Of(rows, i, k) : \A s \in Of(rows, i, k) : s.attempt <= r.attempt}
SettledAt(rows, i, k) == \E r \in Latest(rows, i, k) : r.recorded /\ Settled(r.result)

VARIABLES
  now,        \* the window that is open
  status,     \* the responsibility's status
  next,       \* next_run_at; 0 for null
  runs,       \* responsibility_run rows
  sources,    \* responsibility_run_source rows
  handing,    \* a hand-back in progress: its target status, or "none"
  copies,     \* the runs as that hand-back read them
  pc, mine, at, row, snap, held, lost,  \* per instance
  handbacks, faults

tables == <<status, next, runs, sources>>
seller == <<handing, copies, handbacks>>
locals == <<pc, mine, at, row, snap, held, lost>>
vars == <<now, tables, seller, locals, faults>>

Steps == {"idle", "next", "recovering", "opening", "observing", "recording",
          "finish", "finishing", "cancelling"}

\* Between the check and the write of one transaction.
MidTransaction == {"recovering", "opening", "recording", "finishing", "cancelling"}

Working(o, i) == pc[o] # "idle" /\ mine[o] = i

\* (Broken variant: the fence looks at the status only.)
HeldByAnyone(o) == runs[mine[o]].status = "RUNNING"

Held(o) == runs[mine[o]].status = "RUNNING" /\ runs[mine[o]].owner = o

-----------------------------------------------------------------------------
(* Initially the seller has just activated the responsibility: the first    *)
(* window has its run and the schedule goes on from the next boundary.      *)

NoCopies == [i \in Windows |-> NoRun]

Init ==
  /\ now = 1
  /\ status = "ACTIVE"
  /\ next = 2
  /\ runs = [i \in Windows |-> IF i = 1 THEN Queued ELSE NoRun]
  /\ sources = {}
  /\ handing = "none"
  /\ copies = NoCopies
  /\ pc = [o \in Instances |-> "idle"]
  /\ mine = [o \in Instances |-> 1]
  /\ at = [o \in Instances |-> 1]
  /\ row = [o \in Instances |-> NoRow]
  /\ snap = [o \in Instances |-> {}]
  /\ held = [o \in Instances |-> NoRun]
  /\ lost = [o \in Instances |-> FALSE]
  /\ handbacks = 0
  /\ faults = 0

WindowPasses ==
  /\ now < MaxWindow
  /\ now' = now + 1
  /\ UNCHANGED <<tables, seller, locals, faults>>

-----------------------------------------------------------------------------
(* The seller: activate, resume, pause, stop.                               *)

\* activate and resume of a responsibility that is not ACTIVE, under its row lock.
StartWorking ==
  /\ status # "ACTIVE"
  /\ handing = "none"
  /\ status' = "ACTIVE"
  /\ next' = now + 1
  /\ runs' = [runs EXCEPT ![now] =
       IF @.status = "NONE" THEN Queued
       ELSE IF @.status = "CANCELLED" THEN Ended(@, "PENDING") ELSE @]
  /\ UNCHANGED <<now, sources, seller, locals, faults>>

\* pause and stop: the responsibility row is locked, the runs are only read.
HandBackRead(target) ==
  /\ handing = "none"
  /\ status \notin {target, "STOPPED"}
  /\ handbacks < MaxHandBacks
  /\ handing' = target
  /\ copies' = runs
  /\ handbacks' = handbacks + 1
  /\ UNCHANGED <<now, tables, locals, faults>>

\* The commit writes back whole the runs it changed: queued ones and waiting retries.
HandBackWrite ==
  /\ handing # "none"
  /\ status' = handing
  /\ next' = 0
  /\ runs' = [i \in Windows |->
       IF copies[i].status = "PENDING" THEN Ended(copies[i], "CANCELLED")
       ELSE IF copies[i].retry THEN [copies[i] EXCEPT !.retry = FALSE]
       ELSE runs[i]]
  /\ handing' = "none"
  /\ copies' = NoCopies
  /\ UNCHANGED <<now, sources, handbacks, locals, faults>>

-----------------------------------------------------------------------------
(* tick: materialise, then claim.                                           *)

\* Every boundary since next_run_at gets its row; the ones that are over are MISSED.
Materialized(from) ==
  [i \in Windows |->
     IF i \in from..now /\ runs[i].status = "NONE"
     THEN IF i = now THEN Queued ELSE Ended(Queued, "CANCELLED")
     ELSE runs[i]]

\* (Broken variant: the responsibility row is not locked.)
MaterializeUnlocked(o) ==
  /\ pc[o] = "idle"
  /\ status = "ACTIVE"
  /\ next <= now
  /\ runs' = Materialized(next)
  /\ next' = now + 1
  /\ UNCHANGED <<now, status, sources, seller, locals, faults>>

Materialize(o) ==
  /\ pc[o] = "idle"
  /\ status = "ACTIVE"
  /\ handing = "none"               \* lockDueActive skips a locked responsibility
  /\ next <= now
  /\ runs' = Materialized(next)
  /\ next' = now + 1
  /\ UNCHANGED <<now, status, sources, seller, locals, faults>>

\* (Broken variant: a lapsed lease is nobody's business.)
ClaimableWithoutLapsed ==
  {i \in Windows : runs[i].status = "PENDING" \/ runs[i].retry}

\* lockClaimable, except that a waiting retry may not be due yet and that rows another
\* transaction has locked are skipped: a claim sees some of these.
Claimable ==
  {i \in Windows : \/ runs[i].status = "PENDING"
                   \/ runs[i].status = "RUNNING" /\ ~runs[i].live
                   \/ runs[i].retry}

LiveOther(i) == \E j \in Windows \ {i} : runs[j].status = "RUNNING" /\ runs[j].live

\* A queued or waiting run whose window is over, and every run of a responsibility that
\* is not ACTIVE, is put away.
PutAway(run) ==
  IF run.status \in {"PENDING", "RUNNING"} THEN Ended(run, "CANCELLED")
  ELSE [run EXCEPT !.retry = FALSE]

Stale(i) == i # now /\ runs[i].status # "RUNNING"

\* The runs of one claim that may be started.
Startable(seen) == {i \in seen : ~Stale(i) /\ ~LiveOther(i)}

CloseAll(rows, result) == {Recorded(r, result) : r \in {s \in rows : ~s.recorded}}
RowsOf(i) == {r \in sources : r.window = i}

\* claimNext when the responsibility is not ACTIVE: retire what was seen.
Retire(o, seen) ==
  /\ pc[o] = "idle"
  /\ status # "ACTIVE"
  /\ seen # {}
  /\ runs' = [i \in Windows |-> IF i \in seen THEN PutAway(runs[i]) ELSE runs[i]]
  /\ LET ending == {i \in seen : runs[i].status \in {"PENDING", "RUNNING"}}
     IN  sources' = Saved(sources, CloseAll(UNION {RowsOf(i) : i \in ending}, "REFUSED"))
  /\ UNCHANGED <<now, status, next, seller, locals, faults>>

\* claimNext that finds nothing to start and puts the stale ones away.
Sweep(o, seen) ==
  /\ pc[o] = "idle"
  /\ status = "ACTIVE"
  /\ Startable(seen) = {}
  /\ \E i \in seen : Stale(i)
  /\ runs' = [i \in Windows |-> IF i \in seen /\ Stale(i) THEN PutAway(runs[i]) ELSE runs[i]]
  /\ UNCHANGED <<now, status, next, sources, seller, locals, faults>>

\* (Broken variant: without the partial unique index.)
NoIndex(i) == TRUE

\* uq_responsibility_run_active: a second RUNNING run rolls the claim back.
OnlyRunning(i) == \A j \in Windows \ {i} : runs[j].status # "RUNNING"

\* Nobody is between a check and a write that this claim would slip in between.
Undisturbed(i) ==
  /\ handing = "none"
  /\ \A p \in Instances : ~(pc[p] \in MidTransaction /\ mine[p] = i)

\* claimNext: the oldest run that may be started, after putting the older ones away.
Claim(o, seen) ==
  /\ pc[o] = "idle"
  /\ status = "ACTIVE"
  /\ \E i \in Startable(seen) :
       /\ \A j \in Startable(seen) : i <= j
       /\ OnlyRunning(i)
       /\ ShortTransactions => Undisturbed(i)
       /\ runs' = [j \in Windows |->
            IF j = i THEN Claimed(runs[i], o)
            ELSE IF j \in seen /\ j < i /\ Stale(j) THEN PutAway(runs[j]) ELSE runs[j]]
       /\ mine' = [mine EXCEPT ![o] = i]
  /\ pc' = [pc EXCEPT ![o] = "next"]
  /\ UNCHANGED <<now, status, next, sources, seller, at, row, snap, held, lost, faults>>

-----------------------------------------------------------------------------
(* execute: the required sources in order, the device recipe, the finish.   *)

Goto(o, step) == pc' = [pc EXCEPT ![o] = step]
KeepLocals == UNCHANGED <<mine, at, row, snap, held, lost>>

\* The instance lets go of the run and is back in its tick.
Leave(o) ==
  /\ Goto(o, "idle")
  /\ mine' = [mine EXCEPT ![o] = 1]
  /\ at' = [at EXCEPT ![o] = 1]
  /\ row' = [row EXCEPT ![o] = NoRow]
  /\ snap' = [snap EXCEPT ![o] = {}]
  /\ held' = [held EXCEPT ![o] = NoRun]
  /\ lost' = [lost EXCEPT ![o] = FALSE]

Advance(o) ==
  /\ Goto(o, "next")
  /\ at' = [at EXCEPT ![o] = @ + 1]
  /\ row' = [row EXCEPT ![o] = NoRow]
  /\ UNCHANGED <<mine, snap, held, lost>>

\* The check of guardedSave passed: this row is what will be saved.
Carry(o, step, r) ==
  /\ Goto(o, step)
  /\ row' = [row EXCEPT ![o] = r]
  /\ UNCHANGED <<mine, at, snap, held, lost>>

\* A transaction that ends the run has read it, and its source rows.
Hold(o, step) ==
  /\ Goto(o, step)
  /\ snap' = [snap EXCEPT ![o] = RowsOf(mine[o])]
  /\ held' = [held EXCEPT ![o] = runs[mine[o]]]
  /\ UNCHANGED <<mine, at, row, lost>>

Fresh(o) == Opened(mine[o], at[o], runs[mine[o]].attempt)

\* An observation of an earlier attempt that nobody recorded.
Interrupted(o) ==
  {r \in Latest(sources, mine[o], at[o]) : ~r.recorded /\ r.attempt < runs[mine[o]].attempt}

\* Its sync job tells: finished, and the read happened; not, and it is closed.
Recovered(r) == Recorded(r, IF r.result = "unknown" THEN "FAULT" ELSE r.result)

AtSource(o) == pc[o] = "next" /\ at[o] \in Sources
InLine(o) == AtSource(o) /\ ~lost[o] /\ status = "ACTIVE"

LeaseLost(o) ==
  /\ AtSource(o) /\ lost[o]
  /\ Leave(o)
  /\ UNCHANGED <<now, tables, seller, faults>>

\* The responsibility is no longer ACTIVE: the holder cancels its run.
HandedBack(o) ==
  /\ AtSource(o) /\ ~lost[o] /\ status # "ACTIVE"
  /\ IF Held(o) THEN Hold(o, "cancelling") ELSE Leave(o)
  /\ UNCHANGED <<now, tables, seller, faults>>

\* A settled source is not collected again in the same window.
SkipSettled(o) ==
  /\ InLine(o)
  /\ SettledAt(sources, mine[o], at[o])
  /\ Advance(o)
  /\ UNCHANGED <<now, tables, seller, faults>>

BeginRecovery(o) ==
  /\ InLine(o)
  /\ Interrupted(o) # {}
  /\ IF Held(o) THEN \E r \in Interrupted(o) : Carry(o, "recovering", Recovered(r))
     ELSE Leave(o)
  /\ UNCHANGED <<now, tables, seller, faults>>

\* (Broken variant: settled sources are read again by a retry.)
BeginSourceAgain(o) ==
  /\ InLine(o)
  /\ Interrupted(o) = {}
  /\ IF Held(o) THEN Carry(o, "opening", Fresh(o)) ELSE Leave(o)
  /\ UNCHANGED <<now, tables, seller, faults>>

BeginSource(o) ==
  /\ InLine(o)
  /\ Interrupted(o) = {}
  /\ ~SettledAt(sources, mine[o], at[o])
  /\ IF Held(o) THEN Carry(o, "opening", Fresh(o)) ELSE Leave(o)
  /\ UNCHANGED <<now, tables, seller, faults>>

\* The recovered observation is saved; unless it settled the source, it is read again.
Recover(o) ==
  /\ pc[o] = "recovering"
  /\ sources' = Saved(sources, {row[o]})
  /\ IF Settled(row[o].result) THEN Advance(o)
     ELSE IF Held(o) THEN Carry(o, "opening", Fresh(o)) ELSE Leave(o)
  /\ UNCHANGED <<now, status, next, runs, seller, faults>>

\* uq_responsibility_run_source_attempt refuses a second row: an exception.
Insert(o) ==
  /\ pc[o] = "opening"
  /\ IF \E r \in sources : SameRow(r, row[o])
     THEN Goto(o, "finish") /\ UNCHANGED sources
     ELSE Goto(o, "observing") /\ sources' = sources \cup {row[o]}
  /\ KeepLocals
  /\ UNCHANGED <<now, status, next, runs, seller, faults>>

\* The sync job ends with some result, and the instance checks its lease again.
Observe(o, result) ==
  /\ pc[o] = "observing"
  /\ sources' = {IF SameRow(r, row[o]) /\ ~r.recorded THEN [r EXCEPT !.result = result] ELSE r
                   : r \in sources}
  /\ IF Held(o) THEN Carry(o, "recording", Recorded(row[o], result))
     ELSE IF at[o] = Device THEN Goto(o, "finish") /\ KeepLocals
     ELSE Leave(o)
  /\ UNCHANGED <<now, status, next, runs, seller, faults>>

Record(o) ==
  /\ pc[o] = "recording"
  /\ sources' = Saved(sources, {row[o]})
  /\ IF at[o] = Device THEN Goto(o, "finish") /\ KeepLocals ELSE Advance(o)
  /\ UNCHANGED <<now, status, next, runs, seller, faults>>

\* observeDeviceRecipe: whatever it meets, the finish follows.
AtDevice(o) == pc[o] = "next" /\ at[o] = Device
ReadsDevice(o) ==
  Devices /\ ~lost[o] /\ Held(o) /\ ~SettledAt(sources, mine[o], Device)

BeginDevice(o) ==
  /\ AtDevice(o) /\ ReadsDevice(o)
  /\ Carry(o, "opening", Fresh(o))
  /\ UNCHANGED <<now, tables, seller, faults>>

SkipDevice(o) ==
  /\ AtDevice(o) /\ ~ReadsDevice(o)
  /\ Goto(o, "finish") /\ KeepLocals
  /\ UNCHANGED <<now, tables, seller, faults>>

-----------------------------------------------------------------------------
(* finish and cancelHeld.                                                   *)

\* RunOutcomeRule over the latest row of every source that has one.
Outcome(latest) ==
  IF latest = {} THEN "FAILED"
  ELSE IF \A r \in latest : Settled(r.result) THEN "SUCCESS"
  ELSE IF \A r \in latest : Nothing(r.result) THEN "FAILED"
  ELSE "PARTIAL"

\* (Broken variant: a source never reached gets no row.)
UnreachedIgnored(o) == {}

\* The rows the finish writes: open ones closed, and a row per source never reached.
Unreached(o) == {Recorded(Opened(mine[o], k, held[o].attempt), "FAULT") :
                   k \in Sources \ {r.key : r \in snap[o]}}

FinishRows(o) == CloseAll(snap[o], "FAULT") \cup Unreached(o)

FinishRead(o) ==
  /\ pc[o] = "finish"
  /\ IF Held(o) THEN Hold(o, "finishing") ELSE Leave(o)
  /\ UNCHANGED <<now, tables, seller, faults>>

\* A row that somebody has inserted meanwhile refuses the finish as a whole.
Refused(o) == \E r \in sources, n \in Unreached(o) : SameRow(r, n)

\* execute's catch calls finish once more; what fails there is swallowed.
FinishAgain(o) == Leave(o) \/ (Goto(o, "finish") /\ KeepLocals)

\* soon: the backed-off retry still falls into the window.
FinishWrite(o, soon) ==
  LET i == mine[o]
      rows == Saved(snap[o], FinishRows(o))
      latest == UNION {Latest(rows, i, k) : k \in Keys}
      outcome == Outcome(latest)
      retry == /\ soon /\ i = now
               /\ outcome \in {"PARTIAL", "FAILED"}
               /\ held[o].attempt < MaxAttempts
               /\ \E r \in latest : Retryable(r.result)
  IN  /\ pc[o] = "finishing"
      /\ IF Refused(o) THEN FinishAgain(o) /\ UNCHANGED <<sources, runs>>
         ELSE /\ sources' = Saved(sources, FinishRows(o))
              /\ runs' = [runs EXCEPT ![i] = [Ended(held[o], outcome) EXCEPT !.retry = retry]]
              /\ Leave(o)
      /\ UNCHANGED <<now, status, next, seller, faults>>

CancelWrite(o) ==
  /\ pc[o] = "cancelling"
  /\ sources' = Saved(sources, CloseAll(snap[o], "REFUSED"))
  /\ runs' = [runs EXCEPT ![mine[o]] = Ended(held[o], "CANCELLED")]
  /\ Leave(o)
  /\ UNCHANGED <<now, status, next, seller, faults>>

-----------------------------------------------------------------------------
(* Leases, heartbeats and faults.                                           *)

\* renewLease, or the fence a reclaimed holder hits.
Heartbeat(o) ==
  /\ pc[o] # "idle"
  /\ \/ /\ Held(o) /\ ~runs[mine[o]].live
        /\ runs' = [runs EXCEPT ![mine[o]].live = TRUE]
        /\ UNCHANGED lost
     \/ /\ ~Held(o) /\ ~lost[o]
        /\ lost' = [lost EXCEPT ![o] = TRUE]
        /\ UNCHANGED runs
  /\ UNCHANGED <<now, status, next, sources, seller, pc, mine, at, row, snap, held, faults>>

Lapse(i) ==
  /\ runs[i].status = "RUNNING" /\ runs[i].live
  /\ runs' = [runs EXCEPT ![i].live = FALSE]
  /\ UNCHANGED <<now, status, next, sources, seller, locals>>

\* Nobody renews the lease of a holder that is gone.
LeaseLapses(i) ==
  /\ Lapse(i)
  /\ ~Working(runs[i].owner, i)
  /\ UNCHANGED faults

Fault == faults < MaxFaults /\ faults' = faults + 1

\* The holder is there, but its process stands still for longer than the lease.
Stall(i) ==
  /\ Lapse(i)
  /\ Working(runs[i].owner, i)
  /\ Fault

\* An exception anywhere in execute leads to finish.
Throw(o) ==
  /\ pc[o] \in {"next", "recovering", "opening", "observing", "recording", "cancelling"}
  /\ Goto(o, "finish") /\ KeepLocals
  /\ Fault
  /\ UNCHANGED <<now, tables, seller>>

FinishFails(o) ==
  /\ pc[o] \in {"finish", "finishing"}
  /\ FinishAgain(o)
  /\ Fault
  /\ UNCHANGED <<now, tables, seller>>

\* The process dies; its successor holds nothing.
Crash(o) ==
  /\ pc[o] # "idle"
  /\ Leave(o)
  /\ Fault
  /\ UNCHANGED <<now, tables, seller>>

-----------------------------------------------------------------------------
Tick(o) ==
  \/ Materialize(o)
  \/ \E seen \in SUBSET Claimable : Retire(o, seen) \/ Sweep(o, seen) \/ Claim(o, seen)

Work(o) ==
  \/ LeaseLost(o) \/ HandedBack(o)
  \/ SkipSettled(o) \/ BeginRecovery(o) \/ BeginSource(o)
  \/ Recover(o) \/ Insert(o) \/ (\E result \in Observed : Observe(o, result)) \/ Record(o)
  \/ BeginDevice(o) \/ SkipDevice(o)
  \/ FinishRead(o) \/ (\E soon \in BOOLEAN : FinishWrite(o, soon)) \/ CancelWrite(o)

Next ==
  \/ WindowPasses \/ StartWorking \/ HandBackWrite
  \/ \E target \in {"PAUSED", "STOPPED"} : HandBackRead(target)
  \/ \E o \in Instances : Tick(o) \/ Work(o) \/ Heartbeat(o)
                          \/ Throw(o) \/ FinishFails(o) \/ Crash(o)
  \/ \E i \in Windows : LeaseLapses(i) \/ Stall(i)

Spec == Init /\ [][Next]_vars

\* The scheduler ticks with a fixed delay, every wait of an observation is bounded, a
\* hand-back commits, and the lease of a holder that is gone runs out.
Fairness ==
  /\ \A o \in Instances : WF_vars(Tick(o)) /\ WF_vars(Work(o))
  /\ \A i \in Windows : WF_vars(LeaseLapses(i))
  /\ WF_vars(HandBackWrite)

FairSpec == Spec /\ Fairness

-----------------------------------------------------------------------------
(* Properties.                                                              *)

\* Every row keeps the shape the schema of V106 insists on: a RUNNING run names its
\* holder, and only a PARTIAL or FAILED run carries a retry time.
TypeOK ==
  /\ now \in Windows
  /\ status \in {"ACTIVE", "PAUSED", "STOPPED"}
  /\ next \in Nat
  /\ status # "ACTIVE" => next = 0
  /\ runs \in [Windows -> Runs]
  /\ \A i \in Windows : runs[i].status = "RUNNING" => runs[i].owner # NoOne
  /\ \A i \in Windows : runs[i].retry => runs[i].status \in {"PARTIAL", "FAILED"}
  /\ sources \subseteq SourceRows
  /\ handing \in {"none", "PAUSED", "STOPPED"}
  /\ copies \in [Windows -> Runs]
  /\ pc \in [Instances -> Steps]
  /\ mine \in [Instances -> Windows]
  /\ at \in [Instances -> Keys]
  /\ row \in [Instances -> SourceRows]
  /\ snap \in [Instances -> SUBSET SourceRows]
  /\ held \in [Instances -> Runs]
  /\ lost \in [Instances -> BOOLEAN]
  /\ handbacks \in 0..MaxHandBacks
  /\ faults \in 0..MaxFaults

\* R2: at most one RUNNING run of the responsibility, whatever an instance believes
\* (uq_responsibility_run_active).
AtMostOneRunning ==
  \A i, j \in Windows : runs[i].status = "RUNNING" /\ runs[j].status = "RUNNING" => i = j

\* R3: a SUCCESS window has every required source observed to its end, whichever attempts
\* of whichever instances did it and however stale the copy that was saved last
\* (RunOutcomeRule, finish).
SuccessMeansSettled ==
  \A i \in Windows : runs[i].status = "SUCCESS" =>
    \A k \in Sources : SettledAt(sources, i, k)

\* A pause or stop leaves no queued run behind, because it cannot race a window being
\* created (class comment of ResponsibilityService).
QueuedOnlyWhileActive ==
  status # "ACTIVE" => \A i \in Windows : runs[i].status # "PENDING"

\* R6: once a required source is settled in a window, no attempt reads it again and
\* nothing unsettles it (observeSource), as long as the checks of guardedSave hold until
\* their write.
SettledStays ==
  [][\A i \in Windows, k \in Sources : SettledAt(sources, i, k) =>
       Of(sources, i, k)' = Of(sources, i, k)]_vars

\* A run under a live lease is ended by its holder only: a holder that lost its lease
\* "cannot finish a run someone else now owns" (class comment of the coordinator).
HolderEnds(i) ==
  \E o \in Instances : /\ runs[i].owner = o /\ Working(o, i)
                       /\ pc[o] \in {"finishing", "cancelling"} /\ pc'[o] = "idle"
OnlyTheHolderEnds ==
  [][\A i \in Windows :
       runs[i].status = "RUNNING" /\ runs[i].live /\ runs'[i].status # "RUNNING"
       => HolderEnds(i)]_vars

\* The window that opens while the responsibility is ACTIVE gets its row, and the row does
\* not stay queued or running: no crash between claim and finish is a silent skip (class
\* comment of the coordinator), unless the seller takes the job back.
OnRecord(i) == runs[i].status \notin {"NONE", "PENDING", "RUNNING"}
EveryWindowIsAccountedFor ==
  \A i \in Windows : (now = i /\ status = "ACTIVE") ~> (OnRecord(i) \/ status # "ACTIVE")

\* After a resume the current window is worked: it is never left CANCELLED while the
\* responsibility is ACTIVE (class comment of ResponsibilityService).
ResumedWindowIsWorked == status = "ACTIVE" => runs[now].status # "CANCELLED"

\* A device that did not answer schedules no retry (comment of observeDeviceSource): a
\* retry is owed to a required source.
RetryIsOwed ==
  \A i \in Windows : runs[i].retry =>
    \E k \in Sources : \E r \in Latest(sources, i, k) : Retryable(r.result)

\* The rows seen as a promise: who holds a window under which attempt, what is settled in
\* it, and whether it is SUCCESS.
Contract == INSTANCE WindowContract
              WITH Workers <- Instances,
                   Nobody <- NoOne,
                   holder <- [i \in Windows |->
                     IF runs[i].status = "RUNNING" THEN runs[i].owner ELSE NoOne],
                   attempt <- [i \in Windows |-> runs[i].attempt],
                   settled <- {p \in Windows \X Sources : SettledAt(sources, p[1], p[2])},
                   reported <- {i \in Windows : runs[i].status = "SUCCESS"}

\* As long as no claim commits between a check and its write, the runtime - leases that
\* lapse under a live holder, crashes, retries, hand-backs, saves of whole stale rows -
\* implements the contract.
ImplementsWindowContract == Contract!Spec

=============================================================================
