------------------------ MODULE ResponsibilityProofs ------------------------
(***************************************************************************)
(* Theorems of ResponsibilityRun, for any number of instances, windows,    *)
(* sources, hand-backs and faults: first what holds whether or not claims  *)
(* slip in between a check and its write, then what the fence gives while  *)
(* none does (ShortTransactions), and the contract it amounts to.          *)
(***************************************************************************)
EXTENDS ResponsibilityRun, WellFoundedInduction, TLAPS

TablesOK ==
  /\ now \in Windows
  /\ status \in {"ACTIVE", "PAUSED", "STOPPED"}
  /\ next \in Nat
  /\ status # "ACTIVE" => next = 0
  /\ runs \in [Windows -> Runs]
  /\ \A i \in Windows : runs[i].status = "RUNNING" => runs[i].owner # NoOne
  /\ \A i \in Windows : runs[i].retry => runs[i].status \in {"PARTIAL", "FAILED"}
  /\ sources \subseteq SourceRows

\* A copy of a hand-back has the shape of the row it was read from.
SellerOK ==
  /\ handing \in {"none", "PAUSED", "STOPPED"}
  /\ copies \in [Windows -> Runs]
  /\ \A i \in Windows : copies[i].retry => copies[i].status \in {"PARTIAL", "FAILED"}
  /\ handbacks \in 0..MaxHandBacks

\* An interrupted observation is recovered for required sources only.
LocalsOK ==
  /\ pc \in [Instances -> Steps]
  /\ mine \in [Instances -> Windows]
  /\ at \in [Instances -> Keys]
  /\ row \in [Instances -> SourceRows]
  /\ snap \in [Instances -> SUBSET SourceRows]
  /\ held \in [Instances -> Runs]
  /\ lost \in [Instances -> BOOLEAN]
  /\ \A o \in Instances : pc[o] = "recovering" => at[o] \in Sources

FaultsOK == faults \in 0..MaxFaults

TypeInv == TablesOK /\ SellerOK /\ LocalsOK /\ FaultsOK

-----------------------------------------------------------------------------
(* The rows.                                                                *)

LEMMA WindowFacts == /\ 1 \in Windows
                     /\ Sources \subseteq Keys
                     /\ Device \in Keys
                     /\ \A k \in Keys : k \in Sources \/ k = Device
                     /\ \A k \in Sources : k + 1 \in Keys
                     /\ 1 \in Keys
  BY RunBoundsAssumption, SourcesAssumption DEF Windows, Sources, Keys, Device

LEMMA EndedType ==
  ASSUME NEW run \in Runs, NEW s \in RunStatuses
  PROVE  /\ Ended(run, s) \in Runs
         /\ Ended(run, s).status = s
         /\ ~Ended(run, s).retry
  BY DEF Runs, Ended

LEMMA NoRunType == /\ NoRun \in Runs /\ NoRun.status = "NONE" /\ ~NoRun.retry
                   /\ Queued \in Runs /\ Queued.status = "PENDING" /\ ~Queued.retry
  BY DEF Runs, NoRun, Queued, RunStatuses

LEMMA ClaimedType ==
  ASSUME NEW run \in Runs, NEW o \in Instances
  PROVE  /\ Claimed(run, o) \in Runs
         /\ Claimed(run, o).status = "RUNNING" /\ Claimed(run, o).owner = o
         /\ ~Claimed(run, o).retry
  BY DEF Runs, Claimed, RunStatuses

LEMMA PutAwayType ==
  ASSUME NEW run \in Runs
  PROVE  /\ PutAway(run) \in Runs
         /\ ~PutAway(run).retry
         /\ PutAway(run).status \in {"CANCELLED", run.status}
         /\ PutAway(run).status \notin {"PENDING", "RUNNING"}
  BY DEF Runs, PutAway, Ended, RunStatuses

LEMMA OpenedType ==
  ASSUME NEW i \in Windows, NEW k \in Keys, NEW a \in Nat
  PROVE  Opened(i, k, a) \in SourceRows
  BY DEF Opened, SourceRows

LEMMA RecordedType ==
  ASSUME NEW r \in SourceRows, NEW result \in Results
  PROVE  Recorded(r, result) \in SourceRows
  BY DEF Recorded, SourceRows

LEMMA NoRowType == NoRow \in SourceRows
  BY OpenedType, WindowFacts DEF NoRow

LEMMA CloseAllType ==
  ASSUME NEW rows \in SUBSET SourceRows, NEW result \in Results
  PROVE  CloseAll(rows, result) \subseteq SourceRows
  BY RecordedType DEF CloseAll

LEMMA SavedType ==
  ASSUME NEW rows \in SUBSET SourceRows, NEW new \in SUBSET SourceRows
  PROVE  Saved(rows, new) \subseteq SourceRows
  BY DEF Saved

LEMMA RowsOfType ==
  ASSUME TablesOK, NEW i \in Windows
  PROVE  RowsOf(i) \subseteq SourceRows
  BY DEF TablesOK, RowsOf

LEMMA OutcomeType ==
  ASSUME NEW latest
  PROVE  Outcome(latest) \in {"SUCCESS", "FAILED", "PARTIAL"}
  BY DEF Outcome

-----------------------------------------------------------------------------
(* What the steps of an instance do to its own state.                       *)

LEMMA LeaveType ==
  ASSUME LocalsOK, NEW o \in Instances, Leave(o)
  PROVE  LocalsOK'
  BY WindowFacts, NoRowType, NoRunType DEF LocalsOK, Leave, Goto, Steps

LEMMA KeepType ==
  ASSUME LocalsOK, NEW o \in Instances, NEW step \in Steps \ {"recovering"},
         Goto(o, step), KeepLocals
  PROVE  LocalsOK'
  BY DEF LocalsOK, Goto, KeepLocals

LEMMA AdvanceType ==
  ASSUME LocalsOK, NEW o \in Instances, at[o] \in Sources, Advance(o)
  PROVE  LocalsOK'
  BY WindowFacts, NoRowType DEF LocalsOK, Advance, Goto, Steps

LEMMA CarryType ==
  ASSUME LocalsOK, NEW o \in Instances, NEW step \in Steps, NEW r \in SourceRows,
         step = "recovering" => at[o] \in Sources, Carry(o, step, r)
  PROVE  LocalsOK'
  BY DEF LocalsOK, Carry, Goto

LEMMA HoldType ==
  ASSUME TablesOK, LocalsOK, NEW o \in Instances, NEW step \in Steps \ {"recovering"},
         Hold(o, step)
  PROVE  LocalsOK'
  BY RowsOfType DEF TablesOK, LocalsOK, Hold, Goto

LEMMA UnchangedLocals == ASSUME LocalsOK, UNCHANGED locals PROVE LocalsOK'
  BY DEF LocalsOK, locals

LEMMA UnchangedSeller == ASSUME SellerOK, UNCHANGED seller PROVE SellerOK'
  BY DEF SellerOK, seller

LEMMA UnchangedTables == ASSUME TablesOK, UNCHANGED now, UNCHANGED tables PROVE TablesOK'
  BY DEF TablesOK, tables

\* A step that only touches source rows.
LEMMA NewSources ==
  ASSUME TablesOK, UNCHANGED <<now, status, next, runs>>, sources' \subseteq SourceRows
  PROVE  TablesOK'
  BY DEF TablesOK

\* A step that replaces the run of one window.
LEMMA NewRun ==
  ASSUME TablesOK, UNCHANGED <<now, status, next>>, sources' \subseteq SourceRows,
         NEW i \in Windows, NEW run \in Runs, runs' = [runs EXCEPT ![i] = run],
         run.status = "RUNNING" => run.owner # NoOne,
         run.retry => run.status \in {"PARTIAL", "FAILED"}
  PROVE  TablesOK'
  BY DEF TablesOK

-----------------------------------------------------------------------------
(* The steps, by what they touch.                                           *)

LEMMA InitType == Init => TypeInv
<1> SUFFICES ASSUME Init PROVE TypeInv
  OBVIOUS
<1>1. TablesOK
  BY WindowFacts, NoRunType, RunBoundsAssumption
  DEF Init, TablesOK, Windows
<1>2. SellerOK
  BY NoRunType, RunBoundsAssumption DEF Init, SellerOK, NoCopies
<1>3. LocalsOK
  BY WindowFacts, NoRowType, NoRunType DEF Init, LocalsOK, Steps
<1>4. FaultsOK
  BY RunBoundsAssumption DEF Init, FaultsOK
<1> QED
  BY <1>1, <1>2, <1>3, <1>4 DEF TypeInv

\* Steps of the clock and the seller.
LEMMA WindowPassesType == ASSUME TypeInv, WindowPasses PROVE TypeInv'
<1>1. TablesOK'
  BY RunBoundsAssumption DEF TypeInv, TablesOK, WindowPasses, tables, Windows
<1> QED
  BY <1>1, UnchangedSeller, UnchangedLocals DEF TypeInv, WindowPasses, FaultsOK

LEMMA StartWorkingType == ASSUME TypeInv, StartWorking PROVE TypeInv'
<1> DEFINE run == IF runs[now].status = "NONE" THEN Queued
                  ELSE IF runs[now].status = "CANCELLED" THEN Ended(runs[now], "PENDING")
                  ELSE runs[now]
<1>1. now \in Windows /\ runs[now] \in Runs /\ "PENDING" \in RunStatuses
  BY DEF TypeInv, TablesOK, RunStatuses
<1>2. /\ run \in Runs
      /\ run.status = "RUNNING" => run.owner # NoOne
      /\ run.retry => run.status \in {"PARTIAL", "FAILED"}
  <2>1. Ended(runs[now], "PENDING") \in Runs /\ Ended(runs[now], "PENDING").status = "PENDING"
        /\ ~Ended(runs[now], "PENDING").retry
    BY <1>1, EndedType
  <2> QED
    BY <1>1, <2>1, NoRunType DEF TypeInv, TablesOK
<1>3. runs' = [runs EXCEPT ![now] = run]
  BY DEF StartWorking
<1> HIDE DEF run
<1>4. TablesOK'
  BY <1>1, <1>2, <1>3 DEF TypeInv, TablesOK, StartWorking, Windows
<1> QED
  BY <1>4, UnchangedSeller, UnchangedLocals DEF TypeInv, StartWorking, FaultsOK

LEMMA HandBackReadType ==
  ASSUME TypeInv, NEW target \in {"PAUSED", "STOPPED"}, HandBackRead(target)
  PROVE  TypeInv'
<1>1. SellerOK'
  BY RunBoundsAssumption DEF TypeInv, TablesOK, SellerOK, HandBackRead
<1> QED
  BY <1>1, UnchangedTables, UnchangedLocals DEF TypeInv, HandBackRead, FaultsOK

LEMMA HandBackWriteType == ASSUME TypeInv, HandBackWrite PROVE TypeInv'
<1>1. \A i \in Windows : /\ runs'[i] \in Runs
                         /\ runs'[i].status = "RUNNING" => runs'[i].owner # NoOne
                         /\ runs'[i].retry => runs'[i].status \in {"PARTIAL", "FAILED"}
  <2> SUFFICES ASSUME NEW i \in Windows
               PROVE  /\ runs'[i] \in Runs
                      /\ runs'[i].status = "RUNNING" => runs'[i].owner # NoOne
                      /\ runs'[i].retry => runs'[i].status \in {"PARTIAL", "FAILED"}
    OBVIOUS
  <2> DEFINE unretried == [copies[i] EXCEPT !.retry = FALSE]
  <2>1. copies[i] \in Runs /\ "CANCELLED" \in RunStatuses
    BY DEF TypeInv, SellerOK, RunStatuses
  <2>2. /\ Ended(copies[i], "CANCELLED") \in Runs
        /\ Ended(copies[i], "CANCELLED").status = "CANCELLED"
        /\ ~Ended(copies[i], "CANCELLED").retry
    BY <2>1, EndedType
  <2>3. unretried \in Runs /\ unretried.status = copies[i].status /\ ~unretried.retry
    BY <2>1 DEF Runs
  <2>4. copies[i].retry => copies[i].status \in {"PARTIAL", "FAILED"}
    BY DEF TypeInv, SellerOK
  <2>5. runs'[i] = IF copies[i].status = "PENDING" THEN Ended(copies[i], "CANCELLED")
                   ELSE IF copies[i].retry THEN unretried ELSE runs[i]
    BY DEF HandBackWrite
  <2> HIDE DEF unretried
  <2> QED
    BY <2>2, <2>3, <2>4, <2>5 DEF TypeInv, TablesOK
<1>2. runs' \in [Windows -> Runs]
  <2>1. runs' = [i \in Windows |-> runs'[i]]
    BY DEF HandBackWrite
  <2> QED
    BY <1>1, <2>1
<1>3. TablesOK'
  BY <1>1, <1>2 DEF TypeInv, TablesOK, SellerOK, HandBackWrite
<1>4. SellerOK'
  BY NoRunType DEF TypeInv, SellerOK, HandBackWrite, NoCopies
<1> QED
  BY <1>3, <1>4, UnchangedLocals DEF TypeInv, HandBackWrite, FaultsOK

\* Steps of a tick.  Each writes, per window, the run it had or one of a known shape.
RunShape(run) ==
  /\ run \in Runs
  /\ run.status = "RUNNING" => run.owner # NoOne
  /\ run.retry => run.status \in {"PARTIAL", "FAILED"}

LEMMA NewRuns ==
  ASSUME TablesOK, NEW new, runs' = [i \in Windows |-> new[i]],
         \A i \in Windows : RunShape(new[i]),
         UNCHANGED <<now, status>>, next' \in Nat, status # "ACTIVE" => next' = 0,
         sources' \subseteq SourceRows
  PROVE  TablesOK'
  BY DEF TablesOK, RunShape

LEMMA OldShape == ASSUME TablesOK, NEW i \in Windows PROVE RunShape(runs[i])
  BY DEF TablesOK, RunShape

LEMMA PutAwayShape == ASSUME NEW run \in Runs PROVE RunShape(PutAway(run))
  BY PutAwayType DEF RunShape

LEMMA MaterializeType ==
  ASSUME TypeInv, NEW o \in Instances, Materialize(o)
  PROVE  TypeInv'
<1> DEFINE new == Materialized(next)
<1>1. "CANCELLED" \in RunStatuses
  BY DEF RunStatuses
<1>2. RunShape(Queued) /\ RunShape(Ended(Queued, "CANCELLED"))
  BY <1>1, NoRunType, EndedType DEF RunShape
<1>3. \A i \in Windows : new[i] \in {Queued, Ended(Queued, "CANCELLED"), runs[i]}
  BY DEF Materialized
<1>4. \A i \in Windows : RunShape(new[i])
  BY <1>2, <1>3, OldShape DEF TypeInv
<1>5. runs' = [i \in Windows |-> new[i]]
  BY DEF Materialize, Materialized
<1>6. status = "ACTIVE" /\ next' \in Nat
  BY DEF TypeInv, TablesOK, Materialize, Windows
<1>7. TablesOK /\ sources' \subseteq SourceRows /\ UNCHANGED <<now, status>>
  BY DEF TypeInv, TablesOK, Materialize
<1> HIDE DEF new
<1>8. TablesOK'
  BY <1>4, <1>5, <1>6, <1>7, NewRuns
<1> QED
  BY <1>8, UnchangedSeller, UnchangedLocals DEF TypeInv, Materialize, FaultsOK

LEMMA RetireType ==
  ASSUME TypeInv, NEW o \in Instances, NEW seen \in SUBSET Claimable, Retire(o, seen)
  PROVE  TypeInv'
<1> DEFINE new == [i \in Windows |-> IF i \in seen THEN PutAway(runs[i]) ELSE runs[i]]
           ending == {i \in seen : runs[i].status \in {"PENDING", "RUNNING"}}
           closing == UNION {RowsOf(i) : i \in ending}
<1>1. seen \subseteq Windows /\ "REFUSED" \in Results
  BY DEF Claimable, Results
<1>2. sources' \subseteq SourceRows
  <2>1. closing \subseteq SourceRows
    BY <1>1, RowsOfType DEF TypeInv
  <2>2. sources' = Saved(sources, CloseAll(closing, "REFUSED"))
    BY DEF Retire
  <2>3. CloseAll(closing, "REFUSED") \subseteq SourceRows
    BY <1>1, <2>1, CloseAllType
  <2> QED
    BY <2>2, <2>3, SavedType DEF TypeInv, TablesOK
<1>3. \A i \in Windows : RunShape(new[i])
  <2> SUFFICES ASSUME NEW i \in Windows PROVE RunShape(new[i])
    OBVIOUS
  <2>1. RunShape(runs[i]) /\ runs[i] \in Runs
    BY OldShape DEF TypeInv, RunShape
  <2>2. RunShape(PutAway(runs[i]))
    BY <2>1, PutAwayShape
  <2> QED
    BY <2>1, <2>2
<1>4. runs' = [i \in Windows |-> new[i]]
  BY DEF Retire
<1>5. TablesOK /\ UNCHANGED <<now, status, next>> /\ next' \in Nat /\ (status # "ACTIVE" => next' = 0)
  BY DEF TypeInv, TablesOK, Retire
<1> HIDE DEF new
<1>6. TablesOK'
  BY <1>2, <1>3, <1>4, <1>5, NewRuns
<1> QED
  BY <1>6, UnchangedSeller, UnchangedLocals DEF TypeInv, Retire, FaultsOK

LEMMA SweepType ==
  ASSUME TypeInv, NEW o \in Instances, NEW seen \in SUBSET Claimable, Sweep(o, seen)
  PROVE  TypeInv'
<1> DEFINE new == [i \in Windows |->
                     IF i \in seen /\ Stale(i) THEN PutAway(runs[i]) ELSE runs[i]]
<1>1. \A i \in Windows : RunShape(new[i])
  <2> SUFFICES ASSUME NEW i \in Windows PROVE RunShape(new[i])
    OBVIOUS
  <2>1. RunShape(runs[i]) /\ runs[i] \in Runs
    BY OldShape DEF TypeInv, RunShape
  <2>2. RunShape(PutAway(runs[i]))
    BY <2>1, PutAwayShape
  <2> QED
    BY <2>1, <2>2
<1>2. runs' = [i \in Windows |-> new[i]]
  BY DEF Sweep
<1>3. /\ TablesOK /\ UNCHANGED <<now, status, next>> /\ next' \in Nat
      /\ (status # "ACTIVE" => next' = 0) /\ sources' \subseteq SourceRows
  BY DEF TypeInv, TablesOK, Sweep
<1> HIDE DEF new
<1>4. TablesOK'
  BY <1>1, <1>2, <1>3, NewRuns
<1> QED
  BY <1>4, UnchangedSeller, UnchangedLocals DEF TypeInv, Sweep, FaultsOK

LEMMA ClaimType ==
  ASSUME TypeInv, NEW o \in Instances, NEW seen \in SUBSET Claimable, Claim(o, seen)
  PROVE  TypeInv'
<1>1. PICK i \in Startable(seen) :
        /\ runs' = [j \in Windows |->
             IF j = i THEN Claimed(runs[i], o)
             ELSE IF j \in seen /\ j < i /\ Stale(j) THEN PutAway(runs[j]) ELSE runs[j]]
        /\ mine' = [mine EXCEPT ![o] = i]
  BY DEF Claim
<1> DEFINE new == [j \in Windows |->
             IF j = i THEN Claimed(runs[i], o)
             ELSE IF j \in seen /\ j < i /\ Stale(j) THEN PutAway(runs[j]) ELSE runs[j]]
<1>2. i \in Windows
  BY DEF Startable, Claimable
<1>3. \A j \in Windows : RunShape(new[j])
  <2> SUFFICES ASSUME NEW j \in Windows PROVE RunShape(new[j])
    OBVIOUS
  <2>1. RunShape(runs[j]) /\ runs[j] \in Runs /\ runs[i] \in Runs
    BY <1>2, OldShape DEF TypeInv, RunShape
  <2>2. RunShape(PutAway(runs[j]))
    BY <2>1, PutAwayShape
  <2>3. RunShape(Claimed(runs[i], o))
    BY <2>1, ClaimedType, NoOneAssumption DEF RunShape
  <2> QED
    BY <2>1, <2>2, <2>3
<1>4. runs' = [j \in Windows |-> new[j]]
  BY <1>1
<1>5. /\ TablesOK /\ UNCHANGED <<now, status, next>> /\ next' \in Nat
      /\ (status # "ACTIVE" => next' = 0) /\ sources' \subseteq SourceRows
  BY DEF TypeInv, TablesOK, Claim
<1> HIDE DEF new
<1>6. TablesOK'
  BY <1>3, <1>4, <1>5, NewRuns
<1>7. LocalsOK'
  BY <1>1, <1>2 DEF TypeInv, LocalsOK, Claim, Steps
<1> QED
  BY <1>6, <1>7, UnchangedSeller DEF TypeInv, Claim, FaultsOK

-----------------------------------------------------------------------------
(* The steps of a run.                                                      *)

LEMMA FreshType ==
  ASSUME TypeInv, NEW o \in Instances
  PROVE  Fresh(o) \in SourceRows
<1>1. mine[o] \in Windows /\ at[o] \in Keys /\ runs[mine[o]].attempt \in Nat
  BY DEF TypeInv, TablesOK, LocalsOK, Runs
<1> QED
  BY <1>1, OpenedType DEF Fresh

\* Steps that leave the tables alone and move the instance.
LEMMA MoveType ==
  ASSUME TypeInv, UNCHANGED <<now, tables, seller>>, LocalsOK', FaultsOK'
  PROVE  TypeInv'
  BY UnchangedTables, UnchangedSeller DEF TypeInv

LEMMA LeaseLostType == ASSUME TypeInv, NEW o \in Instances, LeaseLost(o) PROVE TypeInv'
<1>1. LocalsOK'
  BY LeaveType DEF TypeInv, LeaseLost
<1> QED
  BY <1>1, MoveType DEF TypeInv, LeaseLost, FaultsOK

LEMMA HandedBackType == ASSUME TypeInv, NEW o \in Instances, HandedBack(o) PROVE TypeInv'
<1>1. "cancelling" \in Steps \ {"recovering"}
  BY DEF Steps
<1>2. LocalsOK'
  BY <1>1, LeaveType, HoldType DEF TypeInv, HandedBack
<1> QED
  BY <1>2, MoveType DEF TypeInv, HandedBack, FaultsOK

LEMMA SkipSettledType == ASSUME TypeInv, NEW o \in Instances, SkipSettled(o) PROVE TypeInv'
<1>1. LocalsOK'
  BY AdvanceType DEF TypeInv, SkipSettled, InLine, AtSource
<1> QED
  BY <1>1, MoveType DEF TypeInv, SkipSettled, FaultsOK

LEMMA RecoveredType == ASSUME NEW r \in SourceRows PROVE Recovered(r) \in SourceRows
<1>1. (IF r.result = "unknown" THEN "FAULT" ELSE r.result) \in Results
  BY DEF SourceRows, Results
<1> QED
  BY <1>1, RecordedType DEF Recovered

LEMMA BeginRecoveryType ==
  ASSUME TypeInv, NEW o \in Instances, BeginRecovery(o) PROVE TypeInv'
<1>1. at[o] \in Sources /\ "recovering" \in Steps
  BY DEF BeginRecovery, InLine, AtSource, Steps
<1>2. CASE Held(o)
  <2>1. PICK r \in Interrupted(o) : Carry(o, "recovering", Recovered(r))
    BY <1>2 DEF BeginRecovery
  <2>2. r \in SourceRows
    BY DEF TypeInv, TablesOK, Interrupted, Latest, Of
  <2>3. LocalsOK'
    BY <1>1, <2>1, <2>2, RecoveredType, CarryType DEF TypeInv
  <2> QED
    BY <2>3, MoveType DEF TypeInv, BeginRecovery, FaultsOK
<1>3. CASE ~Held(o)
  <2>1. LocalsOK'
    BY <1>3, LeaveType DEF TypeInv, BeginRecovery
  <2> QED
    BY <2>1, MoveType DEF TypeInv, BeginRecovery, FaultsOK
<1> QED
  BY <1>2, <1>3

LEMMA BeginSourceType == ASSUME TypeInv, NEW o \in Instances, BeginSource(o) PROVE TypeInv'
<1>1. "opening" \in Steps /\ "opening" # "recovering"
  BY DEF Steps
<1>2. LocalsOK'
  BY <1>1, FreshType, LeaveType, CarryType DEF TypeInv, BeginSource
<1> QED
  BY <1>2, MoveType DEF TypeInv, BeginSource, FaultsOK

\* The rows a step saves are rows.
LEMMA SavedRowType ==
  ASSUME TypeInv, NEW o \in Instances
  PROVE  Saved(sources, {row[o]}) \subseteq SourceRows
<1>1. {row[o]} \in SUBSET SourceRows
  BY DEF TypeInv, LocalsOK
<1> QED
  BY <1>1, SavedType DEF TypeInv, TablesOK

LEMMA RecoverType == ASSUME TypeInv, NEW o \in Instances, Recover(o) PROVE TypeInv'
<1>1. "opening" \in Steps /\ "opening" # "recovering"
  BY DEF Steps
<1>2. at[o] \in Sources
  BY DEF TypeInv, LocalsOK, Recover
<1>3. LocalsOK'
  BY <1>1, <1>2, FreshType, AdvanceType, LeaveType, CarryType DEF TypeInv, Recover
<1>4. TablesOK'
  BY SavedRowType, NewSources DEF TypeInv, Recover
<1> QED
  BY <1>3, <1>4, UnchangedSeller DEF TypeInv, Recover, FaultsOK

LEMMA InsertType == ASSUME TypeInv, NEW o \in Instances, Insert(o) PROVE TypeInv'
<1>1. "finish" \in Steps \ {"recovering"} /\ "observing" \in Steps \ {"recovering"}
  BY DEF Steps
<1>2. LocalsOK'
  BY <1>1, KeepType DEF TypeInv, Insert
<1>3. sources' \subseteq SourceRows
  BY DEF TypeInv, TablesOK, LocalsOK, Insert
<1>4. TablesOK'
  BY <1>3, NewSources DEF TypeInv, Insert
<1> QED
  BY <1>2, <1>4, UnchangedSeller DEF TypeInv, Insert, FaultsOK

LEMMA ObserveType ==
  ASSUME TypeInv, NEW o \in Instances, NEW result \in Observed, Observe(o, result)
  PROVE  TypeInv'
<1>1. /\ "finish" \in Steps \ {"recovering"}
      /\ "recording" \in Steps /\ "recording" # "recovering"
      /\ result \in Results
  BY ObservedAssumption DEF Steps
<1>2. row[o] \in SourceRows
  BY DEF TypeInv, LocalsOK
<1>3. Recorded(row[o], result) \in SourceRows
  BY <1>1, <1>2, RecordedType
<1>4. LocalsOK'
  BY <1>1, <1>3, KeepType, LeaveType, CarryType DEF TypeInv, Observe
<1>5. sources' \subseteq SourceRows
  <2>1. \A r \in SourceRows : [r EXCEPT !.result = result] \in SourceRows
    BY <1>1 DEF SourceRows
  <2>2. sources' = {IF SameRow(r, row[o]) /\ ~r.recorded
                      THEN [r EXCEPT !.result = result] ELSE r : r \in sources}
    BY DEF Observe
  <2> QED
    BY <2>1, <2>2 DEF TypeInv, TablesOK
<1>6. TablesOK'
  BY <1>5, NewSources DEF TypeInv, Observe
<1> QED
  BY <1>4, <1>6, UnchangedSeller DEF TypeInv, Observe, FaultsOK

LEMMA RecordType == ASSUME TypeInv, NEW o \in Instances, Record(o) PROVE TypeInv'
<1>1. "finish" \in Steps \ {"recovering"}
  BY DEF Steps
<1>2. at[o] \in Sources \/ at[o] = Device
  BY WindowFacts DEF TypeInv, LocalsOK
<1>3. LocalsOK'
  BY <1>1, <1>2, KeepType, AdvanceType DEF TypeInv, Record
<1>4. TablesOK'
  BY SavedRowType, NewSources DEF TypeInv, Record
<1> QED
  BY <1>3, <1>4, UnchangedSeller DEF TypeInv, Record, FaultsOK

LEMMA BeginDeviceType == ASSUME TypeInv, NEW o \in Instances, BeginDevice(o) PROVE TypeInv'
<1>1. "opening" \in Steps /\ "opening" # "recovering"
  BY DEF Steps
<1>2. LocalsOK'
  BY <1>1, FreshType, CarryType DEF TypeInv, BeginDevice
<1> QED
  BY <1>2, MoveType DEF TypeInv, BeginDevice, FaultsOK

LEMMA SkipDeviceType == ASSUME TypeInv, NEW o \in Instances, SkipDevice(o) PROVE TypeInv'
<1>1. "finish" \in Steps \ {"recovering"}
  BY DEF Steps
<1>2. LocalsOK'
  BY <1>1, KeepType DEF TypeInv, SkipDevice
<1> QED
  BY <1>2, MoveType DEF TypeInv, SkipDevice, FaultsOK

-----------------------------------------------------------------------------
(* The end of a run, leases and faults.                                     *)

LEMMA FinishReadType == ASSUME TypeInv, NEW o \in Instances, FinishRead(o) PROVE TypeInv'
<1>1. "finishing" \in Steps \ {"recovering"}
  BY DEF Steps
<1>2. LocalsOK'
  BY <1>1, HoldType, LeaveType DEF TypeInv, FinishRead
<1> QED
  BY <1>2, MoveType DEF TypeInv, FinishRead, FaultsOK

LEMMA FinishAgainType ==
  ASSUME LocalsOK, NEW o \in Instances, FinishAgain(o) PROVE LocalsOK'
<1>1. "finish" \in Steps \ {"recovering"}
  BY DEF Steps
<1> QED
  BY <1>1, LeaveType, KeepType DEF FinishAgain

LEMMA FinishRowsType ==
  ASSUME TypeInv, NEW o \in Instances PROVE FinishRows(o) \subseteq SourceRows
<1>1. /\ mine[o] \in Windows /\ held[o].attempt \in Nat /\ snap[o] \in SUBSET SourceRows
      /\ "FAULT" \in Results
  BY DEF TypeInv, LocalsOK, Runs, Results
<1>2. CloseAll(snap[o], "FAULT") \subseteq SourceRows
  BY <1>1, CloseAllType
<1>3. \A k \in Sources : Recorded(Opened(mine[o], k, held[o].attempt), "FAULT") \in SourceRows
  BY <1>1, WindowFacts, OpenedType, RecordedType
<1>4. Unreached(o) \subseteq SourceRows
  BY <1>3 DEF Unreached
<1> QED
  BY <1>2, <1>4 DEF FinishRows

\* The run that a finish saves.
LEMMA FinishedShape ==
  ASSUME NEW run \in Runs, NEW outcome \in {"SUCCESS", "FAILED", "PARTIAL"},
         NEW retry \in BOOLEAN, retry => outcome \in {"PARTIAL", "FAILED"}
  PROVE  /\ RunShape([Ended(run, outcome) EXCEPT !.retry = retry])
         /\ [Ended(run, outcome) EXCEPT !.retry = retry].status = outcome
  BY DEF RunShape, Runs, Ended, RunStatuses

LEMMA ReplaceRun ==
  ASSUME TablesOK, UNCHANGED <<now, status, next>>, sources' \subseteq SourceRows,
         NEW i \in Windows, NEW run, RunShape(run), runs' = [runs EXCEPT ![i] = run]
  PROVE  TablesOK'
  BY NewRun DEF RunShape

\* What a finish that is not refused does to its run.
LEMMA FinishedRun ==
  ASSUME NEW o \in Instances, NEW soon \in BOOLEAN, FinishWrite(o, soon)
  PROVE  \/ UNCHANGED <<sources, runs>> /\ FinishAgain(o)
         \/ /\ sources' = Saved(sources, FinishRows(o))
            /\ Leave(o)
            /\ \E outcome \in {"SUCCESS", "FAILED", "PARTIAL"}, retry \in BOOLEAN :
                 /\ retry => outcome \in {"PARTIAL", "FAILED"}
                 /\ runs' = [runs EXCEPT ![mine[o]] =
                               [Ended(held[o], outcome) EXCEPT !.retry = retry]]
<1> DEFINE rows == Saved(snap[o], FinishRows(o))
           latest == UNION {Latest(rows, mine[o], k) : k \in Keys}
           outcome == Outcome(latest)
           retry == /\ soon /\ mine[o] = now
                    /\ outcome \in {"PARTIAL", "FAILED"}
                    /\ held[o].attempt < MaxAttempts
                    /\ \E r \in latest : Retryable(r.result)
<1>1. outcome \in {"SUCCESS", "FAILED", "PARTIAL"}
  BY OutcomeType
<1>2. retry \in BOOLEAN /\ (retry => outcome \in {"PARTIAL", "FAILED"})
  OBVIOUS
<1>3. \/ UNCHANGED <<sources, runs>> /\ FinishAgain(o)
      \/ /\ sources' = Saved(sources, FinishRows(o))
         /\ Leave(o)
         /\ runs' = [runs EXCEPT ![mine[o]] = [Ended(held[o], outcome) EXCEPT !.retry = retry]]
  BY DEF FinishWrite
<1> HIDE DEF outcome, retry
<1> QED
  BY <1>1, <1>2, <1>3

LEMMA FinishWriteType ==
  ASSUME TypeInv, NEW o \in Instances, NEW soon \in BOOLEAN, FinishWrite(o, soon)
  PROVE  TypeInv'
<1>1. UNCHANGED <<now, status, next, seller, faults>>
  BY DEF FinishWrite
<1>2. LocalsOK'
  BY FinishedRun, FinishAgainType, LeaveType DEF TypeInv
<1>3. CASE UNCHANGED <<sources, runs>>
  BY <1>1, <1>2, <1>3, MoveType DEF TypeInv, tables, FaultsOK
<1>4. CASE ~UNCHANGED <<sources, runs>>
  <2>1. PICK outcome \in {"SUCCESS", "FAILED", "PARTIAL"}, retry \in BOOLEAN :
          /\ retry => outcome \in {"PARTIAL", "FAILED"}
          /\ runs' = [runs EXCEPT ![mine[o]] = [Ended(held[o], outcome) EXCEPT !.retry = retry]]
    BY <1>4, FinishedRun
  <2>2. mine[o] \in Windows /\ held[o] \in Runs
    BY DEF TypeInv, LocalsOK
  <2>3. RunShape([Ended(held[o], outcome) EXCEPT !.retry = retry])
    BY <2>1, <2>2, FinishedShape
  <2>4. sources' \subseteq SourceRows
    BY <1>4, FinishedRun, FinishRowsType, SavedType DEF TypeInv, TablesOK
  <2>5. TablesOK'
    BY <1>1, <2>1, <2>2, <2>3, <2>4, ReplaceRun DEF TypeInv
  <2> QED
    BY <1>1, <1>2, <2>5, UnchangedSeller DEF TypeInv, FaultsOK
<1> QED
  BY <1>3, <1>4

LEMMA CancelWriteType == ASSUME TypeInv, NEW o \in Instances, CancelWrite(o) PROVE TypeInv'
<1>1. /\ mine[o] \in Windows /\ held[o] \in Runs /\ snap[o] \in SUBSET SourceRows
      /\ "CANCELLED" \in RunStatuses /\ "REFUSED" \in Results
  BY DEF TypeInv, LocalsOK, RunStatuses, Results
<1>2. RunShape(Ended(held[o], "CANCELLED"))
  BY <1>1, EndedType DEF RunShape
<1>3. sources' \subseteq SourceRows
  BY <1>1, CloseAllType, SavedType DEF TypeInv, TablesOK, CancelWrite
<1>4. TablesOK'
  BY <1>1, <1>2, <1>3, ReplaceRun DEF TypeInv, CancelWrite
<1>5. LocalsOK'
  BY LeaveType DEF TypeInv, CancelWrite
<1> QED
  BY <1>4, <1>5, UnchangedSeller DEF TypeInv, CancelWrite, FaultsOK

\* A lease that is renewed or runs out leaves everything else of the run as it was.
LEMMA LeaseShape ==
  ASSUME TablesOK, NEW i \in Windows, NEW b \in BOOLEAN
  PROVE  RunShape([runs[i] EXCEPT !.live = b])
  BY DEF TablesOK, RunShape, Runs

LEMMA HeartbeatType == ASSUME TypeInv, NEW o \in Instances, Heartbeat(o) PROVE TypeInv'
<1>1. CASE runs' = [runs EXCEPT ![mine[o]].live = TRUE] /\ UNCHANGED lost
  <2>1. mine[o] \in Windows
    BY DEF TypeInv, LocalsOK
  <2>2. runs' = [runs EXCEPT ![mine[o]] = [runs[mine[o]] EXCEPT !.live = TRUE]]
    BY <1>1, <2>1 DEF TypeInv, TablesOK
  <2>3. RunShape([runs[mine[o]] EXCEPT !.live = TRUE])
    BY <2>1, LeaseShape DEF TypeInv
  <2>4. sources' \subseteq SourceRows
    BY DEF TypeInv, TablesOK, Heartbeat
  <2>5. TablesOK'
    BY <2>1, <2>2, <2>3, <2>4, ReplaceRun DEF TypeInv, Heartbeat
  <2> QED
    BY <1>1, <2>5, UnchangedSeller, UnchangedLocals
    DEF TypeInv, Heartbeat, locals, FaultsOK
<1>2. CASE lost' = [lost EXCEPT ![o] = TRUE] /\ UNCHANGED runs
  <2>1. LocalsOK'
    BY <1>2 DEF TypeInv, LocalsOK, Heartbeat
  <2> QED
    BY <1>2, <2>1, MoveType DEF TypeInv, Heartbeat, tables, FaultsOK
<1> QED
  BY <1>1, <1>2 DEF Heartbeat

LEMMA LapseType ==
  ASSUME TypeInv, NEW i \in Windows, Lapse(i)
  PROVE  TablesOK' /\ SellerOK' /\ LocalsOK'
<1>1. runs' = [runs EXCEPT ![i] = [runs[i] EXCEPT !.live = FALSE]]
  BY DEF TypeInv, TablesOK, Lapse
<1>2. RunShape([runs[i] EXCEPT !.live = FALSE])
  BY LeaseShape DEF TypeInv
<1>3. sources' \subseteq SourceRows
  BY DEF TypeInv, TablesOK, Lapse
<1>4. TablesOK'
  BY <1>1, <1>2, <1>3, ReplaceRun DEF TypeInv, Lapse
<1> QED
  BY <1>4, UnchangedSeller, UnchangedLocals DEF TypeInv, Lapse

LEMMA FaultType == ASSUME FaultsOK, Fault PROVE FaultsOK'
  BY RunBoundsAssumption DEF FaultsOK, Fault

LEMMA ThrowType == ASSUME TypeInv, NEW o \in Instances, Throw(o) PROVE TypeInv'
<1>1. "finish" \in Steps \ {"recovering"}
  BY DEF Steps
<1>2. LocalsOK' /\ FaultsOK'
  BY <1>1, KeepType, FaultType DEF TypeInv, Throw
<1> QED
  BY <1>2, MoveType DEF Throw

LEMMA FinishFailsType == ASSUME TypeInv, NEW o \in Instances, FinishFails(o) PROVE TypeInv'
<1>1. LocalsOK' /\ FaultsOK'
  BY FinishAgainType, FaultType DEF TypeInv, FinishFails
<1> QED
  BY <1>1, MoveType DEF FinishFails

LEMMA CrashType == ASSUME TypeInv, NEW o \in Instances, Crash(o) PROVE TypeInv'
<1>1. LocalsOK' /\ FaultsOK'
  BY LeaveType, FaultType DEF TypeInv, Crash
<1> QED
  BY <1>1, MoveType DEF Crash

-----------------------------------------------------------------------------
(* Type correctness.                                                        *)

LEMMA TickType == ASSUME TypeInv, NEW o \in Instances, Tick(o) PROVE TypeInv'
  BY MaterializeType, RetireType, SweepType, ClaimType DEF Tick

LEMMA WorkType == ASSUME TypeInv, NEW o \in Instances, Work(o) PROVE TypeInv'
<1>1. CASE LeaseLost(o) \/ HandedBack(o) \/ SkipSettled(o)
  BY <1>1, LeaseLostType, HandedBackType, SkipSettledType
<1>2. CASE BeginRecovery(o) \/ BeginSource(o) \/ Recover(o) \/ Insert(o)
  BY <1>2, BeginRecoveryType, BeginSourceType, RecoverType, InsertType
<1>3. CASE \E result \in Observed : Observe(o, result)
  BY <1>3, ObserveType
<1>4. CASE Record(o) \/ BeginDevice(o) \/ SkipDevice(o)
  BY <1>4, RecordType, BeginDeviceType, SkipDeviceType
<1>5. CASE FinishRead(o) \/ (\E soon \in BOOLEAN : FinishWrite(o, soon)) \/ CancelWrite(o)
  BY <1>5, FinishReadType, FinishWriteType, CancelWriteType
<1> QED
  BY <1>1, <1>2, <1>3, <1>4, <1>5 DEF Work

LEMMA LeaseLapsesType == ASSUME TypeInv, NEW i \in Windows, LeaseLapses(i) PROVE TypeInv'
  BY LapseType DEF TypeInv, LeaseLapses, FaultsOK

LEMMA StallType == ASSUME TypeInv, NEW i \in Windows, Stall(i) PROVE TypeInv'
  BY LapseType, FaultType DEF TypeInv, Stall

LEMMA StutterType == ASSUME TypeInv, UNCHANGED vars PROVE TypeInv'
  BY MoveType, UnchangedLocals DEF TypeInv, vars, FaultsOK

LEMMA TypeStep == TypeInv /\ [Next]_vars => TypeInv'
<1> SUFFICES ASSUME TypeInv, [Next]_vars PROVE TypeInv'
  OBVIOUS
<1>1. CASE WindowPasses \/ StartWorking \/ HandBackWrite
  BY <1>1, WindowPassesType, StartWorkingType, HandBackWriteType
<1>2. CASE \E target \in {"PAUSED", "STOPPED"} : HandBackRead(target)
  BY <1>2, HandBackReadType
<1>3. CASE \E o \in Instances : Tick(o) \/ Work(o)
  BY <1>3, TickType, WorkType
<1>4. CASE \E o \in Instances : Heartbeat(o) \/ Throw(o) \/ FinishFails(o) \/ Crash(o)
  BY <1>4, HeartbeatType, ThrowType, FinishFailsType, CrashType
<1>5. CASE \E i \in Windows : LeaseLapses(i) \/ Stall(i)
  BY <1>5, LeaseLapsesType, StallType
<1>6. CASE UNCHANGED vars
  BY <1>6, StutterType
<1> QED
  BY <1>1, <1>2, <1>3, <1>4, <1>5, <1>6 DEF Next

\* Type correctness, with what the schema of V106 insists on: whatever an instance saves
\* from a stale copy, a RUNNING row names its holder and only a PARTIAL or FAILED row
\* carries a retry time.
THEOREM RunTypeCorrect == Spec => []TypeOK
<1>1. TypeInv => TypeOK
  BY DEF TypeInv, TablesOK, SellerOK, LocalsOK, FaultsOK, TypeOK
<1> QED
  BY <1>1, InitType, TypeStep, PTL DEF Spec

LEMMA AlwaysTyped == Spec => []TypeInv
  BY InitType, TypeStep, PTL DEF Spec

-----------------------------------------------------------------------------
(* Which steps queue a run, and which start one.                            *)

NoNew(s) == \A i \in Windows : runs'[i].status = s => runs[i].status = s

\* No run is started, and none changes hands.
NoStart == \A i \in Windows : runs'[i].status = "RUNNING" =>
             runs[i].status = "RUNNING" /\ runs'[i].owner = runs[i].owner

LEMMA RetireStarts ==
  ASSUME TypeInv, NEW o \in Instances, NEW seen \in SUBSET Claimable, Retire(o, seen)
  PROVE  NoNew("PENDING") /\ NoStart
  BY PutAwayType DEF TypeInv, TablesOK, Retire, NoNew, NoStart

LEMMA SweepStarts ==
  ASSUME TypeInv, NEW o \in Instances, NEW seen \in SUBSET Claimable, Sweep(o, seen)
  PROVE  NoNew("PENDING") /\ NoStart
  BY PutAwayType DEF TypeInv, TablesOK, Sweep, NoNew, NoStart

LEMMA FinishStarts ==
  ASSUME TypeInv, NEW o \in Instances, NEW soon \in BOOLEAN, FinishWrite(o, soon)
  PROVE  NoNew("PENDING") /\ NoStart
<1>1. CASE UNCHANGED runs
  BY <1>1 DEF NoNew, NoStart
<1>2. CASE ~UNCHANGED runs
  <2>1. PICK outcome \in {"SUCCESS", "FAILED", "PARTIAL"}, retry \in BOOLEAN :
          /\ retry => outcome \in {"PARTIAL", "FAILED"}
          /\ runs' = [runs EXCEPT ![mine[o]] = [Ended(held[o], outcome) EXCEPT !.retry = retry]]
    BY <1>2, FinishedRun
  <2>2. mine[o] \in Windows /\ held[o] \in Runs
    BY DEF TypeInv, LocalsOK
  <2>3. [Ended(held[o], outcome) EXCEPT !.retry = retry].status = outcome
    BY <2>1, <2>2, FinishedShape
  <2>4. runs'[mine[o]].status = outcome
    BY <2>1, <2>2, <2>3 DEF TypeInv, TablesOK
  <2>5. \A i \in Windows \ {mine[o]} : runs'[i] = runs[i]
    BY <2>1 DEF TypeInv, TablesOK
  <2> QED
    BY <2>4, <2>5 DEF NoNew, NoStart
<1> QED
  BY <1>1, <1>2

LEMMA CancelStarts ==
  ASSUME TypeInv, NEW o \in Instances, CancelWrite(o)
  PROVE  NoNew("PENDING") /\ NoStart
  BY DEF TypeInv, TablesOK, LocalsOK, CancelWrite, Ended, NoNew, NoStart

LEMMA HeartbeatStarts ==
  ASSUME TypeInv, NEW o \in Instances, Heartbeat(o)
  PROVE  NoNew("PENDING") /\ NoStart
<1>1. \A i \in Windows : runs[i] \in Runs
  BY DEF TypeInv, TablesOK
<1>2. \A i \in Windows : runs'[i].status = runs[i].status /\ runs'[i].owner = runs[i].owner
  BY <1>1 DEF TypeInv, TablesOK, LocalsOK, Heartbeat, Runs
<1> QED
  BY <1>2 DEF NoNew, NoStart

LEMMA LapseStarts ==
  ASSUME TypeInv, NEW i \in Windows, Lapse(i)
  PROVE  NoNew("PENDING") /\ NoStart
<1>1. \A j \in Windows : runs'[j].status = runs[j].status /\ runs'[j].owner = runs[j].owner
  BY DEF TypeInv, TablesOK, Lapse, Runs
<1> QED
  BY <1>1 DEF NoNew, NoStart

LEMMA ClaimStarts ==
  ASSUME TypeInv, NEW o \in Instances, NEW seen \in SUBSET Claimable, Claim(o, seen)
  PROVE  /\ NoNew("PENDING")
         /\ \E i \in Windows : /\ OnlyRunning(i)
                               /\ \A j \in Windows \ {i} :
                                    runs'[j].status = "RUNNING" => runs[j].status = "RUNNING"
<1>1. PICK i \in Startable(seen) :
        /\ OnlyRunning(i)
        /\ runs' = [j \in Windows |->
             IF j = i THEN Claimed(runs[i], o)
             ELSE IF j \in seen /\ j < i /\ Stale(j) THEN PutAway(runs[j]) ELSE runs[j]]
  BY DEF Claim
<1>2. i \in Windows
  BY DEF Startable, Claimable
<1>3. \A j \in Windows \ {i} : runs'[j] \in {PutAway(runs[j]), runs[j]}
  BY <1>1
<1>4. \A j \in Windows \ {i} : /\ runs'[j].status = "RUNNING" => runs[j].status = "RUNNING"
                               /\ runs'[j].status = "PENDING" => runs[j].status = "PENDING"
  BY <1>3, PutAwayType DEF TypeInv, TablesOK
<1>5. runs'[i].status = "RUNNING"
  BY <1>1, <1>2, ClaimedType DEF TypeInv, TablesOK
<1> QED
  BY <1>1, <1>2, <1>4, <1>5 DEF NoNew

\* Only activation and the materialiser queue a run, under the lock of the responsibility;
\* only a claim starts one.
Queues == StartWorking \/ \E o \in Instances : Materialize(o)
HandsBack == HandBackWrite \/ \E target \in {"PAUSED", "STOPPED"} : HandBackRead(target)
Claims == \E o \in Instances : \E seen \in SUBSET Claimable : Claim(o, seen)
KeepsStatus == UNCHANGED <<status, handing, copies>>

LEMMA StepKinds ==
  ASSUME TypeInv, [Next]_vars
  PROVE  Queues \/ HandsBack \/ (/\ KeepsStatus /\ NoNew("PENDING")
                                 /\ NoStart \/ Claims)
<1>1. CASE WindowPasses \/ UNCHANGED vars
  BY <1>1 DEF WindowPasses, vars, tables, seller, KeepsStatus, NoNew, NoStart
<1>2. CASE StartWorking \/ HandBackWrite \/ \E target \in {"PAUSED", "STOPPED"} : HandBackRead(target)
  BY <1>2 DEF Queues, HandsBack
<1>3. CASE \E o \in Instances : Tick(o)
  <2>1. PICK o \in Instances : Tick(o)
    BY <1>3
  <2>2. CASE Materialize(o)
    BY <2>2 DEF Queues
  <2>3. CASE \E seen \in SUBSET Claimable : Retire(o, seen) \/ Sweep(o, seen)
    <3>1. NoNew("PENDING") /\ NoStart
      BY <2>3, RetireStarts, SweepStarts
    <3>2. KeepsStatus
      BY <2>3 DEF Retire, Sweep, seller, KeepsStatus
    <3> QED
      BY <3>1, <3>2
  <2>4. CASE \E seen \in SUBSET Claimable : Claim(o, seen)
    <3>1. NoNew("PENDING") /\ Claims
      BY <2>4, ClaimStarts DEF Claims
    <3>2. KeepsStatus
      BY <2>4 DEF Claim, seller, KeepsStatus
    <3> QED
      BY <3>1, <3>2
  <2> QED
    BY <2>1, <2>2, <2>3, <2>4 DEF Tick
<1>4. CASE \E o \in Instances : Work(o)
  <2>1. PICK o \in Instances : Work(o)
    BY <1>4
  <2>2. CASE (\E soon \in BOOLEAN : FinishWrite(o, soon)) \/ CancelWrite(o)
    <3>1. NoNew("PENDING") /\ NoStart
      BY <2>2, FinishStarts, CancelStarts
    <3>2. KeepsStatus
      BY <2>2 DEF FinishWrite, CancelWrite, seller, KeepsStatus
    <3> QED
      BY <3>1, <3>2
  <2>3. CASE ~((\E soon \in BOOLEAN : FinishWrite(o, soon)) \/ CancelWrite(o))
    <3>1. UNCHANGED <<runs, status, seller>>
      BY <2>1, <2>3 DEF Work, LeaseLost, HandedBack, SkipSettled, BeginRecovery, BeginSource,
         Recover, Insert, Observe, Record, BeginDevice, SkipDevice, FinishRead, tables
    <3> QED
      BY <3>1 DEF NoNew, NoStart, KeepsStatus, seller
  <2> QED
    BY <2>2, <2>3
<1>5. CASE \E o \in Instances : Heartbeat(o)
  <2>1. NoNew("PENDING") /\ NoStart
    BY <1>5, HeartbeatStarts
  <2> QED
    BY <1>5, <2>1 DEF Heartbeat, seller, KeepsStatus
<1>6. CASE \E o \in Instances : Throw(o) \/ FinishFails(o) \/ Crash(o)
  BY <1>6 DEF Throw, FinishFails, Crash, tables, seller, KeepsStatus, NoNew, NoStart
<1>7. CASE \E i \in Windows : LeaseLapses(i) \/ Stall(i)
  <2>1. PICK i \in Windows : Lapse(i)
    BY <1>7 DEF LeaseLapses, Stall
  <2>2. NoNew("PENDING") /\ NoStart
    BY <2>1, LapseStarts
  <2> QED
    BY <2>1, <2>2 DEF Lapse, seller, KeepsStatus
<1> QED
  BY <1>1, <1>2, <1>3, <1>4, <1>5, <1>6, <1>7 DEF Next

-----------------------------------------------------------------------------
(* One RUNNING run.                                                         *)

LEMMA QueuesStartNothing == ASSUME TypeInv, Queues PROVE NoStart
<1>1. CASE StartWorking
  BY <1>1 DEF TypeInv, TablesOK, StartWorking, Queued, NoRun, Ended, NoStart
<1>2. CASE \E o \in Instances : Materialize(o)
  BY <1>2 DEF TypeInv, TablesOK, Materialize, Materialized, Queued, NoRun, Ended, NoStart
<1> QED
  BY <1>1, <1>2 DEF Queues

LEMMA HandBackStartsNothing == ASSUME TypeInv, HandsBack PROVE NoStart
<1>1. CASE \E target \in {"PAUSED", "STOPPED"} : HandBackRead(target)
  BY <1>1 DEF HandBackRead, tables, NoStart
<1>2. CASE HandBackWrite
  <2> SUFFICES ASSUME NEW i \in Windows, runs'[i].status = "RUNNING"
               PROVE  runs[i].status = "RUNNING" /\ runs'[i].owner = runs[i].owner
    BY DEF NoStart
  <2> DEFINE unretried == [copies[i] EXCEPT !.retry = FALSE]
  <2>1. copies[i] \in Runs /\ (copies[i].retry => copies[i].status \in {"PARTIAL", "FAILED"})
    BY DEF TypeInv, SellerOK
  <2>2. unretried.status = copies[i].status
    BY <2>1 DEF Runs
  <2>3. Ended(copies[i], "CANCELLED").status = "CANCELLED"
    BY DEF Ended
  <2>4. runs'[i] = IF copies[i].status = "PENDING" THEN Ended(copies[i], "CANCELLED")
                   ELSE IF copies[i].retry THEN unretried ELSE runs[i]
    BY <1>2 DEF HandBackWrite
  <2> HIDE DEF unretried
  <2> QED
    BY <2>1, <2>2, <2>3, <2>4
<1> QED
  BY <1>1, <1>2 DEF HandsBack

\* R2 for any number of instances, and however stale the copies they save: the runtime
\* never has two RUNNING runs of a responsibility.
THEOREM OneRunningRun == Spec => []AtMostOneRunning
<1>1. Init => AtMostOneRunning
  BY DEF Init, AtMostOneRunning, Queued, NoRun
<1>2. TypeInv /\ AtMostOneRunning /\ [Next]_vars => AtMostOneRunning'
  <2> SUFFICES ASSUME TypeInv, AtMostOneRunning, [Next]_vars PROVE AtMostOneRunning'
    OBVIOUS
  <2>1. CASE NoStart
    BY <2>1 DEF NoStart, AtMostOneRunning
  <2>2. CASE Claims
    <3>1. PICK i \in Windows :
            /\ OnlyRunning(i)
            /\ \A j \in Windows \ {i} :
                 runs'[j].status = "RUNNING" => runs[j].status = "RUNNING"
      BY <2>2, ClaimStarts DEF Claims
    <3>2. \A j \in Windows \ {i} : runs'[j].status # "RUNNING"
      BY <3>1 DEF OnlyRunning
    <3> QED
      BY <3>2 DEF AtMostOneRunning
  <2> QED
    BY <2>1, <2>2, StepKinds, QueuesStartNothing, HandBackStartsNothing
<1> QED
  BY <1>1, <1>2, AlwaysTyped, PTL DEF Spec

-----------------------------------------------------------------------------
(* Nothing is queued for a responsibility that was handed back.             *)

\* What a hand-back has read covers every run that is queued, until it commits: nothing
\* else queues a run while the responsibility is locked.
CopiesCover ==
  handing # "none" => \A i \in Windows : runs[i].status = "PENDING" => copies[i].status = "PENDING"

QueueInv == QueuedOnlyWhileActive /\ CopiesCover

LEMMA HandBackEmpties == ASSUME TypeInv, QueueInv, HandsBack PROVE QueueInv'
<1>1. CASE \E target \in {"PAUSED", "STOPPED"} : HandBackRead(target)
  BY <1>1 DEF HandBackRead, tables, QueueInv, QueuedOnlyWhileActive, CopiesCover
<1>2. CASE HandBackWrite
  <2>1. \A i \in Windows : runs'[i].status # "PENDING"
    <3> SUFFICES ASSUME NEW i \in Windows, runs'[i].status = "PENDING" PROVE FALSE
      OBVIOUS
    <3> DEFINE unretried == [copies[i] EXCEPT !.retry = FALSE]
    <3>1. copies[i] \in Runs /\ (copies[i].retry => copies[i].status \in {"PARTIAL", "FAILED"})
      BY DEF TypeInv, SellerOK
    <3>2. unretried.status = copies[i].status
      BY <3>1 DEF Runs
    <3>3. Ended(copies[i], "CANCELLED").status = "CANCELLED"
      BY DEF Ended
    <3>4. runs'[i] = IF copies[i].status = "PENDING" THEN Ended(copies[i], "CANCELLED")
                     ELSE IF copies[i].retry THEN unretried ELSE runs[i]
      BY <1>2 DEF HandBackWrite
    <3>5. runs[i].status = "PENDING" => copies[i].status = "PENDING"
      BY <1>2 DEF HandBackWrite, QueueInv, CopiesCover
    <3> HIDE DEF unretried
    <3> QED
      BY <3>1, <3>2, <3>3, <3>4, <3>5
  <2>2. handing' = "none"
    BY <1>2 DEF HandBackWrite
  <2> QED
    BY <2>1, <2>2 DEF QueueInv, QueuedOnlyWhileActive, CopiesCover
<1> QED
  BY <1>1, <1>2 DEF HandsBack

\* A pause or a stop leaves no queued run behind, for any number of instances, claims and
\* hand-backs: the lock of the responsibility row is enough, though the runs are not locked.
THEOREM HandBackLeavesNothingQueued == Spec => []QueuedOnlyWhileActive
<1>1. Init => QueueInv
  BY DEF Init, QueueInv, QueuedOnlyWhileActive, CopiesCover
<1>2. TypeInv /\ QueueInv /\ [Next]_vars => QueueInv'
  <2> SUFFICES ASSUME TypeInv, QueueInv, [Next]_vars PROVE QueueInv'
    OBVIOUS
  <2>1. CASE Queues
    <3>1. status' = "ACTIVE" /\ handing' = "none"
      BY <2>1 DEF Queues, StartWorking, Materialize, seller
    <3> QED
      BY <3>1 DEF QueueInv, QueuedOnlyWhileActive, CopiesCover
  <2>2. CASE HandsBack
    BY <2>2, HandBackEmpties
  <2>3. CASE KeepsStatus /\ NoNew("PENDING")
    BY <2>3 DEF KeepsStatus, NoNew, QueueInv, QueuedOnlyWhileActive, CopiesCover
  <2> QED
    BY <2>1, <2>2, <2>3, StepKinds
<1>3. QueueInv => QueuedOnlyWhileActive
  BY DEF QueueInv
<1> QED
  BY <1>1, <1>2, <1>3, AlwaysTyped, PTL DEF Spec

-----------------------------------------------------------------------------
(***************************************************************************)
(* The fence, when no claim commits between a check and its write: a run is*)
(* ended by its holder only.                                               *)
(***************************************************************************)

\* An instance between a check and its write works a run that nobody else holds: it may have
\* been retired meanwhile, but not claimed.
Mine(o) == runs[mine[o]].status = "RUNNING" => runs[mine[o]].owner = o
MidInv == \A o \in Instances : pc[o] \in MidTransaction => Mine(o)

\* No run that a hand-back will write back has been claimed since it was read.
BackInv == handing # "none" =>
             \A i \in Windows : copies[i].status = "PENDING" \/ copies[i].retry =>
                                  runs[i].status # "RUNNING"

FenceInv == MidInv /\ BackInv

-----------------------------------------------------------------------------
(* An instance is between a check and its write only after a check.         *)

Checked == \A p \in Instances : pc'[p] \in MidTransaction =>
             mine'[p] = mine[p] /\ (pc[p] \in MidTransaction \/ Held(p))

\* A step of o leaves the others where they are.
OthersStay(o) == \A p \in Instances \ {o} : pc'[p] = pc[p] /\ mine'[p] = mine[p]

LEMMA LeaveChecked ==
  ASSUME TypeInv, NEW o \in Instances, Leave(o) PROVE Checked
  BY DEF TypeInv, LocalsOK, Leave, Goto, Checked, MidTransaction

LEMMA KeepChecked ==
  ASSUME TypeInv, NEW o \in Instances, NEW step, step \notin MidTransaction \/ Held(o),
         Goto(o, step), UNCHANGED mine
  PROVE  Checked
  BY DEF TypeInv, LocalsOK, Goto, Checked

LEMMA StillChecked == ASSUME UNCHANGED <<pc, mine>> PROVE Checked
  BY DEF Checked

LEMMA ClaimChecked ==
  ASSUME TypeInv, NEW o \in Instances, NEW seen \in SUBSET Claimable, Claim(o, seen)
  PROVE  Checked
  BY DEF TypeInv, LocalsOK, Claim, Checked, MidTransaction

LEMMA WorkChecked == ASSUME TypeInv, NEW o \in Instances, Work(o) PROVE Checked
<1>1. {"next", "observing", "finish", "idle"} \cap MidTransaction = {}
  BY DEF MidTransaction
<1>2. CASE LeaseLost(o)
  BY <1>2, LeaveChecked DEF LeaseLost
<1>3. CASE HandedBack(o)
  BY <1>3, LeaveChecked, KeepChecked DEF HandedBack, Hold
<1>4. CASE SkipSettled(o)
  BY <1>1, <1>4, KeepChecked DEF SkipSettled, Advance
<1>5. CASE BeginRecovery(o)
  BY <1>5, LeaveChecked, KeepChecked DEF BeginRecovery, Carry
<1>6. CASE BeginSource(o)
  BY <1>6, LeaveChecked, KeepChecked DEF BeginSource, Carry
<1>7. CASE Recover(o)
  BY <1>1, <1>7, LeaveChecked, KeepChecked DEF Recover, Advance, Carry
<1>8. CASE Insert(o)
  BY <1>1, <1>8, KeepChecked DEF Insert, KeepLocals
<1>9. CASE \E result \in Observed : Observe(o, result)
  BY <1>1, <1>9, LeaveChecked, KeepChecked DEF Observe, Carry, KeepLocals
<1>10. CASE Record(o)
  BY <1>1, <1>10, KeepChecked DEF Record, Advance, KeepLocals
<1>11. CASE BeginDevice(o) \/ SkipDevice(o)
  BY <1>1, <1>11, KeepChecked DEF BeginDevice, SkipDevice, ReadsDevice, Carry, KeepLocals
<1>12. CASE FinishRead(o)
  BY <1>12, LeaveChecked, KeepChecked DEF FinishRead, Hold
<1>13. CASE \E soon \in BOOLEAN : FinishWrite(o, soon)
  <2>1. Leave(o) \/ FinishAgain(o)
    BY <1>13, FinishedRun
  <2> QED
    BY <1>1, <2>1, LeaveChecked, KeepChecked DEF FinishAgain, KeepLocals
<1>14. CASE CancelWrite(o)
  BY <1>14, LeaveChecked DEF CancelWrite
<1> QED
  BY <1>2, <1>3, <1>4, <1>5, <1>6, <1>7, <1>8, <1>9, <1>10, <1>11, <1>12, <1>13, <1>14 DEF Work

LEMMA StepChecked == ASSUME TypeInv, [Next]_vars PROVE Checked
<1>1. CASE WindowPasses \/ StartWorking \/ HandBackWrite \/ UNCHANGED vars
  BY <1>1, StillChecked DEF WindowPasses, StartWorking, HandBackWrite, vars, locals
<1>2. CASE \E target \in {"PAUSED", "STOPPED"} : HandBackRead(target)
  BY <1>2, StillChecked DEF HandBackRead, locals
<1>3. CASE \E o \in Instances : Tick(o)
  <2>1. PICK o \in Instances : Tick(o)
    BY <1>3
  <2>2. CASE \E seen \in SUBSET Claimable : Claim(o, seen)
    BY <2>2, ClaimChecked
  <2>3. CASE Materialize(o) \/ \E seen \in SUBSET Claimable : Retire(o, seen) \/ Sweep(o, seen)
    BY <2>3, StillChecked DEF Materialize, Retire, Sweep, locals
  <2> QED
    BY <2>1, <2>2, <2>3 DEF Tick
<1>4. CASE \E o \in Instances : Work(o)
  BY <1>4, WorkChecked
<1>5. CASE \E o \in Instances : Heartbeat(o)
  BY <1>5, StillChecked DEF Heartbeat
<1>6. CASE \E o \in Instances : Throw(o) \/ FinishFails(o) \/ Crash(o)
  <2>1. PICK o \in Instances : Throw(o) \/ FinishFails(o) \/ Crash(o)
    BY <1>6
  <2>2. Leave(o) \/ (Goto(o, "finish") /\ KeepLocals)
    BY <2>1 DEF Throw, FinishFails, FinishAgain, Crash
  <2>3. "finish" \notin MidTransaction
    BY DEF MidTransaction
  <2> QED
    BY <2>2, <2>3, LeaveChecked, KeepChecked DEF KeepLocals
<1>7. CASE \E i \in Windows : LeaseLapses(i) \/ Stall(i)
  BY <1>7, StillChecked DEF LeaseLapses, Stall, Lapse, locals
<1> QED
  BY <1>1, <1>2, <1>3, <1>4, <1>5, <1>6, <1>7 DEF Next

-----------------------------------------------------------------------------
(* The fence is inductive.                                                  *)

LEMMA InitFence == Init => FenceInv
  BY DEF Init, FenceInv, MidInv, BackInv, MidTransaction

\* Only a claim gives a run to somebody, and it waits for those who have checked.
LEMMA MidStep ==
  ASSUME ShortTransactions, TypeInv, MidInv, [Next]_vars
  PROVE  MidInv'
<1> SUFFICES ASSUME NEW p \in Instances, pc'[p] \in MidTransaction,
                    runs'[mine'[p]].status = "RUNNING"
             PROVE  runs'[mine'[p]].owner = p
  BY DEF MidInv, Mine
<1>1. mine'[p] = mine[p] /\ (pc[p] \in MidTransaction \/ Held(p)) /\ mine[p] \in Windows
  BY StepChecked DEF Checked, TypeInv, LocalsOK
<1>2. CASE NoStart
  BY <1>1, <1>2 DEF NoStart, MidInv, Mine, Held
<1>3. CASE Claims
  <2>1. PICK o \in Instances, seen \in SUBSET Claimable : Claim(o, seen)
    BY <1>3 DEF Claims
  <2>2. PICK i \in Startable(seen) :
          /\ Undisturbed(i)
          /\ runs' = [j \in Windows |->
               IF j = i THEN Claimed(runs[i], o)
               ELSE IF j \in seen /\ j < i /\ Stale(j) THEN PutAway(runs[j]) ELSE runs[j]]
    BY <2>1 DEF Claim
  <2>3. p # o /\ pc[p] = pc'[p]
    BY <2>1 DEF Claim, TypeInv, LocalsOK, MidTransaction
  <2>4. mine[p] # i
    BY <2>2, <2>3 DEF Undisturbed
  <2>5. runs'[mine[p]] \in {PutAway(runs[mine[p]]), runs[mine[p]]}
    BY <1>1, <2>2, <2>4
  <2>6. runs'[mine[p]] = runs[mine[p]]
    BY <1>1, <2>5, PutAwayType DEF TypeInv, TablesOK
  <2> QED
    BY <1>1, <2>3, <2>6 DEF MidInv, Mine
<1> QED
  BY <1>2, <1>3, StepKinds, QueuesStartNothing, HandBackStartsNothing

LEMMA BackStep ==
  ASSUME ShortTransactions, TypeInv, BackInv, [Next]_vars
  PROVE  BackInv'
<1>1. CASE Queues
  BY <1>1 DEF Queues, StartWorking, Materialize, seller, BackInv
<1>2. CASE HandBackWrite
  BY <1>2 DEF HandBackWrite, BackInv
<1>3. CASE \E target \in {"PAUSED", "STOPPED"} : HandBackRead(target)
  BY <1>3 DEF HandBackRead, tables, BackInv, TypeInv, TablesOK
<1>4. CASE KeepsStatus /\ NoStart
  BY <1>4 DEF KeepsStatus, NoStart, BackInv
<1>5. CASE KeepsStatus /\ Claims
  <2>1. handing = "none"
    BY <1>5 DEF Claims, Claim, Undisturbed
  <2> QED
    BY <1>5, <2>1 DEF KeepsStatus, BackInv
<1> QED
  BY <1>1, <1>2, <1>3, <1>4, <1>5, StepKinds DEF HandsBack

LEMMA FenceStep ==
  ASSUME ShortTransactions
  PROVE  TypeInv /\ FenceInv /\ [Next]_vars => FenceInv'
  BY MidStep, BackStep DEF FenceInv

-----------------------------------------------------------------------------
(* Who ends a run.                                                          *)

Ending(i) == runs[i].status = "RUNNING" /\ runs[i].live /\ runs'[i].status # "RUNNING"

LEMMA SellerEndsNothing ==
  ASSUME TypeInv, FenceInv, StartWorking \/ HandBackWrite, NEW i \in Windows
  PROVE  ~Ending(i)
<1> SUFFICES ASSUME runs[i].status = "RUNNING" PROVE runs'[i].status = "RUNNING"
  BY DEF Ending
<1>1. CASE StartWorking
  BY <1>1 DEF StartWorking, TypeInv, TablesOK
<1>2. CASE HandBackWrite
  <2>1. ~(copies[i].status = "PENDING" \/ copies[i].retry)
    BY <1>2 DEF HandBackWrite, FenceInv, BackInv
  <2> QED
    BY <1>2, <2>1 DEF HandBackWrite
<1> QED
  BY <1>1, <1>2

LEMMA TickEndsNothing ==
  ASSUME TypeInv, NEW o \in Instances, Tick(o), NEW i \in Windows
  PROVE  ~Ending(i)
<1> SUFFICES ASSUME runs[i].status = "RUNNING", runs[i].live PROVE runs'[i].status = "RUNNING"
  BY DEF Ending
<1>1. CASE Materialize(o)
  BY <1>1 DEF Materialize, Materialized
<1>2. ASSUME NEW seen \in SUBSET Claimable, Retire(o, seen) PROVE runs'[i].status = "RUNNING"
  <2>1. ~runs[i].retry
    BY DEF TypeInv, TablesOK
  <2>2. i \notin seen
    BY <2>1 DEF Claimable
  <2> QED
    BY <1>2, <2>2 DEF Retire
<1>3. ASSUME NEW seen \in SUBSET Claimable, Sweep(o, seen) PROVE runs'[i].status = "RUNNING"
  BY <1>3 DEF Sweep, Stale
<1>4. ASSUME NEW seen \in SUBSET Claimable, Claim(o, seen) PROVE runs'[i].status = "RUNNING"
  <2>1. PICK j \in Startable(seen) :
          runs' = [w \in Windows |->
            IF w = j THEN Claimed(runs[j], o)
            ELSE IF w \in seen /\ w < j /\ Stale(w) THEN PutAway(runs[w]) ELSE runs[w]]
    BY <1>4 DEF Claim
  <2>2. ~Stale(i)
    BY DEF Stale
  <2>3. runs[j] \in Runs
    BY DEF Startable, Claimable, TypeInv, TablesOK
  <2>4. Claimed(runs[j], o).status = "RUNNING"
    BY <2>3, ClaimedType
  <2> QED
    BY <2>1, <2>2, <2>4
<1> QED
  BY <1>1, <1>2, <1>3, <1>4 DEF Tick

LEMMA LeaseEndsNothing ==
  ASSUME TypeInv, NEW i \in Windows,
         (\E o \in Instances : Heartbeat(o)) \/ (\E j \in Windows : Lapse(j))
  PROVE  ~Ending(i)
<1>1. \A j \in Windows : runs[j] \in Runs
  BY DEF TypeInv, TablesOK
<1>2. runs'[i].status = runs[i].status
  <2>1. CASE \E o \in Instances : Heartbeat(o)
    BY <1>1, <2>1 DEF TypeInv, TablesOK, LocalsOK, Heartbeat, Runs
  <2>2. CASE \E j \in Windows : Lapse(j)
    BY <1>1, <2>2 DEF TypeInv, TablesOK, Lapse, Runs
  <2> QED
    BY <2>1, <2>2
<1> QED
  BY <1>2 DEF Ending

\* Only its own window is touched by an instance that ends a run, and it is the holder.
LEMMA WorkEndsOwn ==
  ASSUME TypeInv, FenceInv, NEW o \in Instances, Work(o), NEW i \in Windows, Ending(i)
  PROVE  HolderEnds(i)
<1>1. runs'[i] # runs[i] /\ runs[i].status = "RUNNING"
  BY DEF Ending
<1>2. (\E soon \in BOOLEAN : FinishWrite(o, soon)) \/ CancelWrite(o)
  BY <1>1 DEF Work, LeaseLost, HandedBack, SkipSettled, BeginRecovery, BeginSource, Recover,
     Insert, Observe, Record, BeginDevice, SkipDevice, FinishRead, tables
<1>3. pc[o] \in {"finishing", "cancelling"}
  BY <1>2 DEF FinishWrite, CancelWrite
<1>4. Leave(o) /\ mine[o] = i
  <2>1. CASE \E soon \in BOOLEAN : FinishWrite(o, soon)
    <3>1. Leave(o) /\ \E run : runs' = [runs EXCEPT ![mine[o]] = run]
      BY <1>1, <2>1, FinishedRun
    <3> QED
      BY <1>1, <3>1 DEF TypeInv, TablesOK
  <2>2. CASE CancelWrite(o)
    BY <1>1, <2>2 DEF CancelWrite, TypeInv, TablesOK
  <2> QED
    BY <1>2, <2>1, <2>2
<1>5. runs[i].owner = o
  BY <1>1, <1>3, <1>4 DEF FenceInv, MidInv, Mine, MidTransaction
<1>6. Working(o, i) /\ pc'[o] = "idle"
  BY <1>3, <1>4 DEF Working, Leave, Goto, TypeInv, LocalsOK
<1> QED
  BY <1>3, <1>5, <1>6 DEF HolderEnds

LEMMA EndedByHolder ==
  ASSUME TypeInv, FenceInv, [Next]_vars, NEW i \in Windows, Ending(i)
  PROVE  HolderEnds(i)
<1>1. CASE UNCHANGED runs
  BY <1>1 DEF Ending
<1>2. CASE StartWorking \/ HandBackWrite
  BY <1>2, SellerEndsNothing
<1>3. CASE \E o \in Instances : Tick(o)
  BY <1>3, TickEndsNothing
<1>4. CASE \E o \in Instances : Work(o)
  BY <1>4, WorkEndsOwn
<1>5. CASE (\E o \in Instances : Heartbeat(o)) \/ (\E j \in Windows : Lapse(j))
  BY <1>5, LeaseEndsNothing
<1>6. CASE \/ WindowPasses \/ UNCHANGED vars
           \/ \E target \in {"PAUSED", "STOPPED"} : HandBackRead(target)
           \/ \E o \in Instances : Throw(o) \/ FinishFails(o) \/ Crash(o)
  BY <1>1, <1>6 DEF WindowPasses, vars, tables, HandBackRead, Throw, FinishFails, Crash
<1> QED
  BY <1>2, <1>3, <1>4, <1>5, <1>6 DEF Next, LeaseLapses, Stall

\* The fence, for any number of instances, windows, sources and faults: as long as no claim
\* commits between a check and its write, a run under a live lease is ended by its holder only
\* (heldBy in guardedSave, finish and cancelHeld).
THEOREM OnlyHolderEndsRun ==
  ASSUME ShortTransactions
  PROVE  Spec => OnlyTheHolderEnds
<1> DEFINE ByHolder == \A i \in Windows :
             runs[i].status = "RUNNING" /\ runs[i].live /\ runs'[i].status # "RUNNING"
             => HolderEnds(i)
<1>1. TypeInv /\ FenceInv /\ [Next]_vars => ByHolder
  BY EndedByHolder DEF Ending
<1>2. OnlyTheHolderEnds <=> [][ByHolder]_vars
  BY DEF OnlyTheHolderEnds
<1> HIDE DEF ByHolder
<1>3. Spec => [][ByHolder]_vars
  BY <1>1, InitType, TypeStep, InitFence, FenceStep, PTL DEF Spec
<1> QED
  BY <1>2, <1>3

-----------------------------------------------------------------------------
(***************************************************************************)
(* The rows of a window under the same fence: what is settled stays, and a *)
(* window that is SUCCESS has all its sources settled.                     *)
(*                                                                         *)
(* Neither is inductive.  A save writes back the row, and a finish all the *)
(* rows, as they were read before the check; so the invariant says of every*)
(* instance about to write how what it holds relates to the table: the row *)
(* has its slot there, it is of the run's attempt, no row of the source is *)
(* settled, and a finish's copy has changed only by open rows that learned *)
(* their result or were closed by who retired the run (Weakened).          *)
(***************************************************************************)

\* One row per slot, and of a required source only the latest row may still be open.
Tidy(rows) ==
  \A r, s \in rows :
    /\ SameRow(r, s) => r = s
    /\ r.window = s.window /\ r.key = s.key /\ r.key \in Sources /\ ~r.recorded
         => s.attempt <= r.attempt

\* What may happen to the rows of a run under an instance that is not looking: an open
\* one learns its result, or is closed as REFUSED by who retires the run.
Kept(s, t) == /\ SameRow(s, t)
              /\ s.recorded => t = s
              /\ ~s.recorded => ~t.recorded \/ t.result = "REFUSED"
Weakened(old, new) == /\ \A s \in old : \E t \in new : Kept(s, t)
                      /\ \A t \in new : \E s \in old : Kept(s, t)

LEMMA WeakenedRefl == ASSUME NEW rows PROVE Weakened(rows, rows)
  BY DEF Weakened, Kept, SameRow

LEMMA WeakenedTrans ==
  ASSUME NEW a, NEW b, NEW c, Weakened(a, b), Weakened(b, c)
  PROVE  Weakened(a, c)
<1>1. ASSUME NEW s, NEW t, NEW u, Kept(s, t), Kept(t, u) PROVE Kept(s, u)
  BY <1>1 DEF Kept, SameRow
<1> QED
  BY <1>1 DEF Weakened

\* Of a required source that is settled nothing is open.
LEMMA AllRecorded ==
  ASSUME NEW rows \in SUBSET SourceRows, Tidy(rows), NEW i \in Windows, NEW k \in Sources,
         SettledAt(rows, i, k)
  PROVE  \A s \in Of(rows, i, k) : s.recorded
<1>1. PICK r \in Latest(rows, i, k) : r.recorded
  BY DEF SettledAt
<1> SUFFICES ASSUME NEW s \in Of(rows, i, k), ~s.recorded PROVE FALSE
  OBVIOUS
<1>2. /\ r \in rows /\ s \in rows
      /\ r.window = i /\ r.key = k /\ s.window = i /\ s.key = k
      /\ s.attempt <= r.attempt
  BY DEF Latest, Of
<1>3. r.attempt <= s.attempt
  BY <1>2 DEF Tidy
<1>4. r.attempt \in Nat /\ s.attempt \in Nat
  BY <1>2 DEF SourceRows
<1>5. SameRow(s, r)
  BY <1>2, <1>3, <1>4 DEF SameRow
<1> QED
  BY <1>1, <1>2, <1>5 DEF Tidy

\* Weakening neither settles a source nor touches one that is settled.
LEMMA WeakenedUnsettled ==
  ASSUME NEW old, NEW new, NEW i, NEW k, ~SettledAt(old, i, k),
         Weakened({r \in old : r.window = i}, {r \in new : r.window = i})
  PROVE  ~SettledAt(new, i, k)
<1> SUFFICES ASSUME NEW t \in Latest(new, i, k), t.recorded, Settled(t.result) PROVE FALSE
  BY DEF SettledAt
<1>1. t \in new /\ t.window = i /\ t.key = k
  BY DEF Latest, Of
<1>2. PICK s \in old : s.window = i /\ Kept(s, t)
  BY <1>1 DEF Weakened
<1>3. s = t
  BY <1>2 DEF Kept, Settled
<1>4. ASSUME NEW u \in Of(old, i, k) PROVE u.attempt <= t.attempt
  <2>1. PICK v \in new : v.window = i /\ Kept(u, v)
    BY DEF Of, Weakened
  <2>2. v \in Of(new, i, k) /\ v.attempt = u.attempt
    BY <2>1 DEF Kept, SameRow, Of
  <2> QED
    BY <2>2 DEF Latest
<1>5. t \in Latest(old, i, k)
  BY <1>1, <1>2, <1>3, <1>4 DEF Latest, Of
<1> QED
  BY <1>5 DEF SettledAt

LEMMA WeakenedKeepsSettled ==
  ASSUME NEW old \in SUBSET SourceRows, NEW new, Tidy(old), NEW i \in Windows,
         NEW k \in Sources, SettledAt(old, i, k),
         Weakened({r \in old : r.window = i}, {r \in new : r.window = i})
  PROVE  Of(new, i, k) = Of(old, i, k)
<1>1. \A s \in Of(old, i, k) : s.recorded
  BY AllRecorded
<1>2. ASSUME NEW s \in Of(old, i, k) PROVE s \in Of(new, i, k)
  <2>1. PICK t \in new : t.window = i /\ Kept(s, t)
    BY DEF Of, Weakened
  <2> QED
    BY <1>1, <2>1 DEF Kept, Of
<1>3. ASSUME NEW t \in Of(new, i, k) PROVE t \in Of(old, i, k)
  <2>1. PICK s \in old : s.window = i /\ Kept(s, t)
    BY DEF Of, Weakened
  <2>2. s \in Of(old, i, k)
    BY <2>1 DEF Kept, SameRow, Of
  <2> QED
    BY <1>1, <2>1, <2>2 DEF Kept
<1> QED
  BY <1>2, <1>3

\* Saving recorded rows keeps the table tidy, if each has its slot already or is the
\* first of its source.
LEMMA SavedTidy ==
  ASSUME NEW rows \in SUBSET SourceRows, Tidy(rows), NEW new \in SUBSET SourceRows,
         \A n \in new : n.recorded,
         \A m, n \in new : SameRow(m, n) => m = n,
         \A n \in new : \/ \E m \in rows : SameRow(m, n)
                        \/ \A r \in rows : ~(r.window = n.window /\ r.key = n.key)
  PROVE  Tidy(Saved(rows, new))
<1> SUFFICES ASSUME NEW r \in Saved(rows, new), NEW s \in Saved(rows, new)
             PROVE  /\ SameRow(r, s) => r = s
                    /\ r.window = s.window /\ r.key = s.key /\ r.key \in Sources /\ ~r.recorded
                         => s.attempt <= r.attempt
  BY DEF Tidy
<1>1. SameRow(r, s) => r = s
  BY DEF Saved, Tidy, SameRow
<1>2. ASSUME r.window = s.window, r.key = s.key, r.key \in Sources, ~r.recorded
      PROVE  s.attempt <= r.attempt
  <2>1. r \in rows
    BY <1>2 DEF Saved
  <2>2. CASE s \in rows
    BY <1>2, <2>1, <2>2 DEF Tidy
  <2>3. CASE s \in new
    <3>1. PICK m \in rows : SameRow(m, s)
      BY <1>2, <2>1, <2>3
    <3> QED
      BY <1>2, <2>1, <3>1 DEF SameRow, Tidy
  <2> QED
    BY <2>2, <2>3 DEF Saved
<1> QED
  BY <1>1, <1>2

LEMMA SavedElsewhere ==
  ASSUME NEW rows, NEW new, NEW i, \A n \in new : n.window = i, NEW j, j # i
  PROVE  {r \in Saved(rows, new) : r.window = j} = {r \in rows : r.window = j}
  BY DEF Saved, SameRow

\* No slot is ever lost by a save.
LEMMA SavedSlots ==
  ASSUME NEW rows, NEW new
  PROVE  \A r \in rows : \E s \in Saved(rows, new) : SameRow(r, s)
  BY DEF Saved, SameRow

LEMMA RecordedFacts ==
  ASSUME NEW r \in SourceRows, NEW result \in Results
  PROVE  /\ Recorded(r, result) \in SourceRows
         /\ SameRow(r, Recorded(r, result))
         /\ Recorded(r, result).recorded
         /\ Recorded(r, result).result = result
  BY DEF Recorded, SourceRows, SameRow

\* Closing open rows of a table weakens it and keeps it tidy.
LEMMA CloseFacts ==
  ASSUME NEW rows \in SUBSET SourceRows, NEW u \in SUBSET rows, Tidy(rows),
         NEW result \in Results
  PROVE  /\ Tidy(Saved(rows, CloseAll(u, result)))
         /\ \A i : result = "REFUSED" =>
              Weakened({r \in rows : r.window = i},
                       {r \in Saved(rows, CloseAll(u, result)) : r.window = i})
<1> DEFINE new == CloseAll(u, result)
<1>1. \A n \in new : \E s \in u : ~s.recorded /\ n = Recorded(s, result)
  BY DEF CloseAll
<1>2. \A s \in u : ~s.recorded => Recorded(s, result) \in new
  BY DEF CloseAll
<1> HIDE DEF new
<1>3. \A n \in new : \E s \in u : /\ ~s.recorded /\ n = Recorded(s, result)
                                  /\ SameRow(s, n) /\ n.recorded /\ n.result = result
                                  /\ n \in SourceRows
  BY <1>1, RecordedFacts
<1>4. \A m, n \in new : SameRow(m, n) => m = n
  <2> SUFFICES ASSUME NEW m \in new, NEW n \in new, SameRow(m, n) PROVE m = n
    OBVIOUS
  <2>1. PICK s \in u : m = Recorded(s, result) /\ SameRow(s, m)
    BY <1>3
  <2>2. PICK t \in u : n = Recorded(t, result) /\ SameRow(t, n)
    BY <1>3
  <2>3. SameRow(s, t)
    BY <2>1, <2>2 DEF SameRow
  <2>4. s = t
    BY <2>3 DEF Tidy
  <2> QED
    BY <2>1, <2>2, <2>4
<1>5. Tidy(Saved(rows, new))
  BY <1>3, <1>4, SavedTidy
<1>6. ASSUME NEW i, result = "REFUSED"
      PROVE  Weakened({r \in rows : r.window = i}, {r \in Saved(rows, new) : r.window = i})
  <2>1. ASSUME NEW s \in rows, s.window = i
        PROVE  \E t \in Saved(rows, new) : t.window = i /\ Kept(s, t)
    <3>1. CASE \E n \in new : SameRow(s, n)
      <4>1. PICK n \in new : SameRow(s, n)
        BY <3>1
      <4>2. PICK v \in u : ~v.recorded /\ SameRow(v, n) /\ n.result = result
        BY <1>3
      <4>3. s = v
        BY <4>1, <4>2 DEF SameRow, Tidy
      <4> QED
        BY <1>6, <2>1, <4>1, <4>2, <4>3 DEF Kept, SameRow, Saved
    <3>2. CASE ~\E n \in new : SameRow(s, n)
      BY <2>1, <3>2 DEF Saved, Kept, SameRow
    <3> QED
      BY <3>1, <3>2
  <2>2. ASSUME NEW t \in Saved(rows, new), t.window = i
        PROVE  \E s \in rows : s.window = i /\ Kept(s, t)
    <3>1. CASE t \in rows
      BY <2>2, <3>1 DEF Kept, SameRow
    <3>2. CASE t \in new
      BY <1>3, <1>6, <2>2, <3>2 DEF Kept, SameRow
    <3> QED
      BY <3>1, <3>2 DEF Saved
  <2> QED
    BY <2>1, <2>2 DEF Weakened
<1> QED
  BY <1>5, <1>6 DEF new
-----------------------------------------------------------------------------
(* The inductive invariant: what an instance that is about to write knows.  *)

\* No row is ahead of its run, and a window without a run had no attempt.
Bounded == \A r \in sources : r.attempt <= runs[r.window].attempt
Unborn == \A i \in Windows : runs[i].status = "NONE" => runs[i].attempt = 0

\* No run that a hand-back will write back has had another attempt meanwhile.
BackAttempt ==
  handing # "none" => \A i \in Windows : copies[i].status = "PENDING" \/ copies[i].retry =>
                                           copies[i].attempt = runs[i].attempt

\* One instance at a time is between a check and a write of a run.
MidOne == \A p, q \in Instances :
            pc[p] \in MidTransaction /\ pc[q] \in MidTransaction /\ mine[p] = mine[q] => p = q

Here(o) == Of(sources, mine[o], at[o])
Unsettled(o) == at[o] \in Sources => ~SettledAt(sources, mine[o], at[o])

\* The row in hand has its slot in the table.
Placed(o) == /\ row[o].window = mine[o] /\ row[o].key = at[o]
             /\ \E r \in sources : SameRow(r, row[o])

AtRecovering(o) == /\ Placed(o) /\ row[o].recorded /\ Unsettled(o)
                   /\ \A r \in Here(o) : r.attempt <= row[o].attempt
AtOpening(o) == /\ row[o] = Fresh(o) /\ Unsettled(o)
                /\ at[o] \in Sources =>
                     \A r \in Here(o) : r.attempt < row[o].attempt => r.recorded
AtObserving(o) == /\ Placed(o)
                  /\ Held(o) => /\ row[o].attempt = runs[mine[o]].attempt
                                /\ \A r \in sources : SameRow(r, row[o]) => ~r.recorded
AtRecording(o) == Placed(o) /\ row[o].recorded /\ Unsettled(o)
AtEnd(o) == /\ Tidy(snap[o]) /\ Weakened(snap[o], RowsOf(mine[o]))
            /\ held[o].attempt = runs[mine[o]].attempt

AtRow(o) == /\ pc[o] = "recovering" => AtRecovering(o)
            /\ pc[o] = "opening" => AtOpening(o)
            /\ pc[o] = "observing" => AtObserving(o)
            /\ pc[o] = "recording" => AtRecording(o)
            /\ pc[o] \in {"finishing", "cancelling"} => AtEnd(o)

RowInv == /\ Tidy(sources) /\ Bounded /\ Unborn /\ BackAttempt /\ MidOne
          /\ \A o \in Instances : AtRow(o)

LEMMA InitRows == Init => RowInv
<1> SUFFICES ASSUME Init PROVE RowInv
  OBVIOUS
<1>1. Tidy(sources) /\ Bounded
  BY DEF Init, Tidy, Bounded
<1>2. Unborn /\ BackAttempt
  BY DEF Init, Unborn, BackAttempt, Queued, NoRun
<1>3. MidOne /\ \A o \in Instances : AtRow(o)
  BY DEF Init, MidOne, MidTransaction, AtRow
<1> QED
  BY <1>1, <1>2, <1>3 DEF RowInv

-----------------------------------------------------------------------------
(* What a step does to the runs.                                            *)

FinishesRun(i) == \E o \in Instances, soon \in BOOLEAN : FinishWrite(o, soon) /\ mine[o] = i

KeepsAttempt(i) == /\ runs'[i].attempt = runs[i].attempt
                   /\ runs'[i].status = "NONE" => runs[i].status = "NONE"
                   /\ runs'[i].status = "SUCCESS" => runs[i].status = "SUCCESS" \/ FinishesRun(i)

Takes(i) == \E o \in Instances :
              /\ pc[o] = "idle" /\ mine'[o] = i /\ pc'[o] = "next"
              /\ Undisturbed(i) /\ runs'[i] = Claimed(runs[i], o)

LEMMA PutAwayAttempt ==
  ASSUME NEW run \in Runs
  PROVE  PutAway(run).attempt = run.attempt /\ PutAway(run).status \in {run.status, "CANCELLED"}
  BY DEF Runs, PutAway, Ended

LEMMA StartAttempt ==
  ASSUME TypeInv, Unborn, NEW i \in Windows,
         StartWorking \/ \E o \in Instances : Materialize(o)
  PROVE  KeepsAttempt(i)
<1>1. runs[i] \in Runs /\ now \in Windows /\ runs \in [Windows -> Runs]
  BY DEF TypeInv, TablesOK
<1>2. runs[i].status = "NONE" => runs[i].attempt = 0
  BY DEF Unborn
<1>3. CASE StartWorking
  BY <1>1, <1>2, <1>3 DEF StartWorking, KeepsAttempt, Queued, NoRun, Ended
<1>4. CASE \E o \in Instances : Materialize(o)
  BY <1>1, <1>2, <1>4 DEF Materialize, Materialized, KeepsAttempt, Queued, NoRun, Ended
<1> QED
  BY <1>3, <1>4

LEMMA HandBackAttempt ==
  ASSUME TypeInv, BackAttempt, NEW i \in Windows, HandBackWrite
  PROVE  KeepsAttempt(i)
<1>1. /\ copies[i] \in Runs
      /\ copies[i].retry => copies[i].status \in {"PARTIAL", "FAILED"}
  BY DEF TypeInv, SellerOK
<1>2. copies[i].status = "PENDING" \/ copies[i].retry => copies[i].attempt = runs[i].attempt
  BY DEF HandBackWrite, BackAttempt
<1>3. /\ Ended(copies[i], "CANCELLED").status = "CANCELLED"
      /\ Ended(copies[i], "CANCELLED").attempt = copies[i].attempt
  BY DEF Ended
<1> DEFINE unretried == [copies[i] EXCEPT !.retry = FALSE]
<1>4. unretried.status = copies[i].status /\ unretried.attempt = copies[i].attempt
  BY <1>1 DEF Runs
<1>5. runs'[i] = IF copies[i].status = "PENDING" THEN Ended(copies[i], "CANCELLED")
                 ELSE IF copies[i].retry THEN unretried ELSE runs[i]
  BY DEF HandBackWrite
<1> HIDE DEF unretried
<1> QED
  BY <1>1, <1>2, <1>3, <1>4, <1>5 DEF KeepsAttempt

LEMMA TickAttempt ==
  ASSUME ShortTransactions, TypeInv, Unborn, NEW o \in Instances, Tick(o), NEW i \in Windows
  PROVE  KeepsAttempt(i) \/ Takes(i)
<1>1. \A j \in Windows : runs[j] \in Runs
  BY DEF TypeInv, TablesOK
<1>2. CASE Materialize(o)
  BY <1>2, StartAttempt
<1>3. ASSUME NEW seen \in SUBSET Claimable, Retire(o, seen) \/ Sweep(o, seen)
      PROVE  KeepsAttempt(i)
  <2>1. runs'[i] \in {PutAway(runs[i]), runs[i]}
    BY <1>3 DEF Retire, Sweep
  <2> QED
    BY <1>1, <2>1, PutAwayAttempt DEF KeepsAttempt
<1>4. ASSUME NEW seen \in SUBSET Claimable, Claim(o, seen)
      PROVE  KeepsAttempt(i) \/ Takes(i)
  <2>1. PICK j \in Startable(seen) :
          /\ Undisturbed(j)
          /\ runs' = [w \in Windows |->
               IF w = j THEN Claimed(runs[j], o)
               ELSE IF w \in seen /\ w < j /\ Stale(w) THEN PutAway(runs[w]) ELSE runs[w]]
          /\ mine' = [mine EXCEPT ![o] = j]
    BY <1>4 DEF Claim
  <2>2. CASE i = j
    BY <1>4, <2>1, <2>2 DEF Claim, Takes, TypeInv, LocalsOK
  <2>3. CASE i # j
    <3>1. runs'[i] \in {PutAway(runs[i]), runs[i]}
      BY <2>1, <2>3
    <3> QED
      BY <1>1, <3>1, PutAwayAttempt DEF KeepsAttempt
  <2> QED
    BY <2>2, <2>3
<1> QED
  BY <1>2, <1>3, <1>4 DEF Tick

LEMMA EndAttempt ==
  ASSUME TypeInv, NEW o \in Instances, AtRow(o), NEW i \in Windows,
         (\E soon \in BOOLEAN : FinishWrite(o, soon)) \/ CancelWrite(o)
  PROVE  KeepsAttempt(i)
<1>1. /\ mine[o] \in Windows /\ held[o] \in Runs /\ runs \in [Windows -> Runs]
      /\ held[o].attempt = runs[mine[o]].attempt
  BY DEF TypeInv, LocalsOK, TablesOK, FinishWrite, CancelWrite, AtRow, AtEnd
<1>2. CASE UNCHANGED runs
  BY <1>2 DEF KeepsAttempt
<1>3. CASE (\E soon \in BOOLEAN : FinishWrite(o, soon)) /\ ~UNCHANGED runs
  <2>1. PICK outcome \in {"SUCCESS", "FAILED", "PARTIAL"}, retry \in BOOLEAN :
          runs' = [runs EXCEPT ![mine[o]] = [Ended(held[o], outcome) EXCEPT !.retry = retry]]
    BY <1>3, FinishedRun
  <2> DEFINE run == [Ended(held[o], outcome) EXCEPT !.retry = retry]
  <2>2. run.attempt = held[o].attempt /\ run.status = outcome
    BY DEF Ended
  <2>3. runs'[i] = IF i = mine[o] THEN run ELSE runs[i]
    BY <1>1, <2>1
  <2> HIDE DEF run
  <2> QED
    BY <1>1, <1>3, <2>2, <2>3 DEF KeepsAttempt, FinishesRun
<1>4. CASE CancelWrite(o)
  <2>1. runs'[i] = IF i = mine[o] THEN Ended(held[o], "CANCELLED") ELSE runs[i]
    BY <1>1, <1>4 DEF CancelWrite
  <2> QED
    BY <1>1, <2>1 DEF KeepsAttempt, Ended
<1> QED
  BY <1>2, <1>3, <1>4

LEMMA LeaseAttempt ==
  ASSUME TypeInv, NEW i \in Windows,
         (\E o \in Instances : Heartbeat(o)) \/ (\E j \in Windows : Lapse(j))
  PROVE  KeepsAttempt(i)
<1>1. \A j \in Windows : runs[j] \in Runs
  BY DEF TypeInv, TablesOK
<1>2. runs'[i].status = runs[i].status /\ runs'[i].attempt = runs[i].attempt
  <2>1. CASE \E o \in Instances : Heartbeat(o)
    BY <1>1, <2>1 DEF TypeInv, TablesOK, LocalsOK, Heartbeat, Runs
  <2>2. CASE \E j \in Windows : Lapse(j)
    BY <1>1, <2>2 DEF TypeInv, TablesOK, Lapse, Runs
  <2> QED
    BY <2>1, <2>2
<1> QED
  BY <1>2 DEF KeepsAttempt

\* A run has another attempt only by a claim, which disturbs nobody.
LEMMA AttemptStep ==
  ASSUME ShortTransactions, TypeInv, RowInv, [Next]_vars, NEW i \in Windows
  PROVE  KeepsAttempt(i) \/ Takes(i)
<1>1. CASE UNCHANGED runs
  BY <1>1 DEF KeepsAttempt
<1>2. CASE StartWorking
  BY <1>2, StartAttempt DEF RowInv
<1>3. CASE HandBackWrite
  BY <1>3, HandBackAttempt DEF RowInv
<1>4. CASE \E o \in Instances : Tick(o)
  BY <1>4, TickAttempt DEF RowInv
<1>5. CASE \E o \in Instances : Work(o)
  <2>1. PICK o \in Instances : Work(o)
    BY <1>5
  <2>2. CASE (\E soon \in BOOLEAN : FinishWrite(o, soon)) \/ CancelWrite(o)
    BY <2>2, EndAttempt DEF RowInv
  <2>3. CASE ~((\E soon \in BOOLEAN : FinishWrite(o, soon)) \/ CancelWrite(o))
    BY <1>1, <2>1, <2>3 DEF Work, LeaseLost, HandedBack, SkipSettled, BeginRecovery,
       BeginSource, Recover, Insert, Observe, Record, BeginDevice, SkipDevice, FinishRead, tables
  <2> QED
    BY <2>2, <2>3
<1>6. CASE (\E o \in Instances : Heartbeat(o)) \/ (\E j \in Windows : Lapse(j))
  BY <1>6, LeaseAttempt
<1>7. CASE \/ WindowPasses \/ UNCHANGED vars
           \/ \E target \in {"PAUSED", "STOPPED"} : HandBackRead(target)
           \/ \E o \in Instances : Throw(o) \/ FinishFails(o) \/ Crash(o)
  BY <1>1, <1>7 DEF WindowPasses, vars, tables, HandBackRead, Throw, FinishFails, Crash
<1> QED
  BY <1>2, <1>3, <1>4, <1>5, <1>6, <1>7 DEF Next, LeaseLapses, Stall

-----------------------------------------------------------------------------
(* What a step does to the rows.                                            *)

\* The rows of the window are weakened, and of a run that is RUNNING nothing is closed.
Softened(i) ==
  /\ Weakened({r \in sources : r.window = i}, {r \in sources' : r.window = i})
  /\ runs'[i].status = "RUNNING" =>
       \A t \in sources' : t.window = i /\ t.recorded => t \in sources

\* An instance saves rows of its own run, none of them of a source that is settled.
Writes(o, new) ==
  /\ pc[o] \in MidTransaction /\ pc'[o] # pc[o]
  /\ new \subseteq SourceRows
  /\ sources' = Saved(sources, new)
  /\ \A n \in new : /\ n.window = mine[o]
                    /\ n.attempt <= runs[mine[o]].attempt
                    /\ n.key \in Sources => ~SettledAt(sources, mine[o], n.key)

LEMMA SameSoftened ==
  ASSUME UNCHANGED sources PROVE \A i \in Windows : Softened(i)
  BY WeakenedRefl DEF Softened

LEMMA RetireRows ==
  ASSUME TypeInv, Tidy(sources), NEW o \in Instances, NEW seen \in SUBSET Claimable,
         Retire(o, seen)
  PROVE  Tidy(sources') /\ \A i \in Windows : Softened(i)
<1> DEFINE ending == {i \in seen : runs[i].status \in {"PENDING", "RUNNING"}}
           closing == UNION {RowsOf(i) : i \in ending}
<1>1. /\ sources' = Saved(sources, CloseAll(closing, "REFUSED"))
      /\ runs' = [i \in Windows |-> IF i \in seen THEN PutAway(runs[i]) ELSE runs[i]]
      /\ seen \subseteq Windows
  BY DEF Retire, Claimable
<1>2. closing \in SUBSET sources /\ \A r \in closing : r.window \in ending
  BY DEF RowsOf
<1>3. sources \in SUBSET SourceRows /\ "REFUSED" \in Results
  BY DEF TypeInv, TablesOK, Results
<1> HIDE DEF closing
<1>4. /\ Tidy(sources')
      /\ \A i : Weakened({r \in sources : r.window = i}, {r \in sources' : r.window = i})
  <2>1. /\ Tidy(Saved(sources, CloseAll(closing, "REFUSED")))
        /\ \A i : "REFUSED" = "REFUSED" =>
             Weakened({r \in sources : r.window = i},
                      {r \in Saved(sources, CloseAll(closing, "REFUSED")) : r.window = i})
    BY <1>2, <1>3, CloseFacts, ZenonT(30)
  <2> QED
    BY <1>1, <2>1, ZenonT(30)
<1>5. ASSUME NEW i \in Windows, runs'[i].status = "RUNNING",
             NEW t \in sources', t.window = i, t \notin sources
      PROVE  FALSE
  <2>1. t \in CloseAll(closing, "REFUSED")
    BY <1>1, <1>5 DEF Saved
  <2>2. PICK s \in closing : t = Recorded(s, "REFUSED")
    BY <2>1 DEF CloseAll
  <2>3. s.window = i
    BY <1>2, <1>3, <1>5, <2>2, RecordedFacts DEF SameRow
  <2>4. i \in seen
    BY <1>2, <2>3
  <2>5. runs'[i] = PutAway(runs[i]) /\ runs[i] \in Runs
    BY <1>1, <2>4 DEF TypeInv, TablesOK
  <2> QED
    BY <1>5, <2>5, PutAwayType
<1> QED
  BY <1>4, <1>5 DEF Softened

LEMMA ObserveRows ==
  ASSUME TypeInv, Tidy(sources), NEW o \in Instances, NEW result \in Observed,
         Observe(o, result)
  PROVE  Tidy(sources') /\ \A i \in Windows : Softened(i)
<1> DEFINE F(r) == IF SameRow(r, row[o]) /\ ~r.recorded THEN [r EXCEPT !.result = result] ELSE r
<1>1. sources' = {F(r) : r \in sources}
  BY DEF Observe
<1>2. ASSUME NEW r \in sources
      PROVE  /\ SameRow(r, F(r)) /\ F(r).recorded = r.recorded
             /\ r.recorded => F(r) = r
             /\ F(r).window = r.window /\ F(r).key = r.key /\ F(r).attempt = r.attempt
  <2>1. r \in SourceRows
    BY DEF TypeInv, TablesOK
  <2> QED
    BY <2>1 DEF SourceRows, SameRow
<1> HIDE DEF F
<1>3. Tidy(sources')
  <2> SUFFICES ASSUME NEW r \in sources, NEW s \in sources
               PROVE  /\ SameRow(F(r), F(s)) => F(r) = F(s)
                      /\ /\ F(r).window = F(s).window /\ F(r).key = F(s).key
                         /\ F(r).key \in Sources /\ ~F(r).recorded
                         => F(s).attempt <= F(r).attempt
    BY <1>1 DEF Tidy
  <2>1. SameRow(F(r), F(s)) => F(r) = F(s)
    <3>1. SameRow(F(r), F(s)) => SameRow(r, s)
      BY <1>2 DEF SameRow
    <3>2. SameRow(r, s) => r = s
      BY DEF Tidy
    <3> QED
      BY <3>1, <3>2
  <2>2. /\ F(r).window = F(s).window /\ F(r).key = F(s).key
        /\ F(r).key \in Sources /\ ~F(r).recorded
        => F(s).attempt <= F(r).attempt
    BY <1>2 DEF Tidy
  <2> QED
    BY <2>1, <2>2
<1>4. ASSUME NEW r \in sources PROVE Kept(r, F(r))
  BY <1>2, <1>4 DEF Kept
<1>5. ASSUME NEW i \in Windows PROVE Softened(i)
  <2>1. \A s \in sources : s.window = i => F(s) \in sources' /\ F(s).window = i /\ Kept(s, F(s))
    BY <1>1, <1>2, <1>4
  <2>2. \A t \in sources' : \E s \in sources : t = F(s) /\ Kept(s, t) /\ s.window = t.window
    BY <1>1, <1>2, <1>4
  <2>3. Weakened({r \in sources : r.window = i}, {r \in sources' : r.window = i})
    BY <2>1, <2>2 DEF Weakened
  <2>4. \A t \in sources' : t.recorded => t \in sources
    BY <1>1, <1>2
  <2> QED
    BY <2>3, <2>4 DEF Softened
<1> QED
  BY <1>3, <1>5

\* The row of a new attempt is the latest of its source.
LEMMA InsertRows ==
  ASSUME TypeInv, RowInv, NEW o \in Instances, Insert(o), ~UNCHANGED sources
  PROVE  Tidy(sources') /\ Writes(o, {row[o]})
<1>1. /\ pc[o] = "opening" /\ pc'[o] = "observing"
      /\ sources' = sources \cup {row[o]} /\ \A r \in sources : ~SameRow(r, row[o])
  BY DEF Insert, Goto, TypeInv, LocalsOK
<1>2. AtOpening(o) /\ Bounded /\ Tidy(sources)
  BY <1>1 DEF RowInv, AtRow
<1>3. /\ row[o] \in SourceRows /\ row[o].window = mine[o] /\ row[o].key = at[o]
      /\ row[o].attempt = runs[mine[o]].attempt /\ ~row[o].recorded
      /\ sources \subseteq SourceRows
      /\ mine[o] \in Windows
  <2>1. row[o] = Opened(mine[o], at[o], runs[mine[o]].attempt)
    BY <1>2 DEF AtOpening, Fresh
  <2>2. row[o] \in SourceRows /\ sources \subseteq SourceRows /\ mine[o] \in Windows
    BY DEF TypeInv, LocalsOK, TablesOK
  <2> QED
    BY <2>1, <2>2 DEF Opened
<1>4. sources' = Saved(sources, {row[o]})
  BY <1>1 DEF Saved
<1>5. Tidy(sources')
  <2> SUFFICES ASSUME NEW r \in sources', NEW s \in sources'
               PROVE  /\ SameRow(r, s) => r = s
                      /\ /\ r.window = s.window /\ r.key = s.key
                         /\ r.key \in Sources /\ ~r.recorded
                         => s.attempt <= r.attempt
    BY DEF Tidy
  <2>1. SameRow(r, s) => r = s
    BY <1>1, <1>2 DEF Tidy, SameRow
  <2>2. ASSUME r.window = s.window, r.key = s.key, r.key \in Sources, ~r.recorded
        PROVE  s.attempt <= r.attempt
    <3>1. CASE r \in sources /\ s \in sources
      BY <1>2, <2>2, <3>1 DEF Tidy
    <3>2. CASE r = row[o]
      <4>1. s.attempt <= row[o].attempt
        BY <1>1, <1>2, <1>3, <2>2, <3>2 DEF Bounded, SourceRows
      <4> QED
        BY <3>2, <4>1
    <3>3. CASE r \in sources /\ s = row[o]
      <4>1. r \in Here(o) /\ at[o] \in Sources
        BY <1>3, <2>2, <3>3 DEF Here, Of
      <4>2. ~(r.attempt < row[o].attempt)
        BY <1>2, <2>2, <4>1 DEF AtOpening
      <4> QED
        BY <1>3, <3>3, <4>2 DEF SourceRows
    <3> QED
      BY <1>1, <3>1, <3>2, <3>3
  <2> QED
    BY <2>1, <2>2
<1>6. row[o].attempt <= runs[mine[o]].attempt
  BY <1>3 DEF SourceRows
<1>7. row[o].key \in Sources => ~SettledAt(sources, mine[o], row[o].key)
  BY <1>2, <1>3 DEF AtOpening, Unsettled
<1> QED
  BY <1>1, <1>3, <1>4, <1>5, <1>6, <1>7 DEF Writes, MidTransaction

\* What was observed is saved over its own row.
LEMMA SaveRows ==
  ASSUME TypeInv, RowInv, NEW o \in Instances, Recover(o) \/ Record(o)
  PROVE  Tidy(sources') /\ Writes(o, {row[o]})
<1>1. /\ pc[o] \in {"recovering", "recording"} /\ pc'[o] # pc[o]
      /\ sources' = Saved(sources, {row[o]})
  BY DEF Recover, Record, Advance, Carry, Leave, Goto, TypeInv, LocalsOK
<1>2. Placed(o) /\ row[o].recorded /\ Unsettled(o) /\ Bounded /\ Tidy(sources)
  BY <1>1 DEF RowInv, AtRow, AtRecovering, AtRecording
<1>3. row[o] \in SourceRows /\ sources \subseteq SourceRows
  BY DEF TypeInv, LocalsOK, TablesOK
<1>4. Tidy(sources')
  BY <1>1, <1>2, <1>3, SavedTidy DEF Placed
<1>5. row[o].attempt <= runs[mine[o]].attempt
  BY <1>2 DEF Placed, SameRow, Bounded
<1>6. row[o].key \in Sources => ~SettledAt(sources, mine[o], row[o].key)
  BY <1>2 DEF Placed, Unsettled
<1> QED
  BY <1>1, <1>2, <1>3, <1>4, <1>5, <1>6 DEF Writes, MidTransaction, Placed

\* The rows an ending transaction saves: the open ones of its copy, closed, and rows for
\* sources of which the copy has none.
EndingRows(o, result, keys) ==
  CloseAll(snap[o], result)
    \cup {Recorded(Opened(mine[o], k, held[o].attempt), "FAULT") : k \in keys}

LEMMA EndingFacts ==
  ASSUME TypeInv, NEW o \in Instances, AtEnd(o), NEW result \in Results,
         NEW keys \in SUBSET (Sources \ {r.key : r \in snap[o]}),
         NEW n \in EndingRows(o, result, keys)
  PROVE  /\ n \in SourceRows /\ n.recorded /\ n.window = mine[o]
         /\ \/ \E s \in snap[o] : /\ ~s.recorded /\ n = Recorded(s, result)
                                  /\ SameRow(s, n) /\ s \in SourceRows
            \/ /\ n.key \in keys /\ n.attempt = held[o].attempt
               /\ n = Recorded(Opened(mine[o], n.key, held[o].attempt), "FAULT")
<1>1. /\ mine[o] \in Windows /\ held[o].attempt \in Nat /\ snap[o] \in SUBSET SourceRows
      /\ "FAULT" \in Results
  BY DEF TypeInv, LocalsOK, Runs, Results
<1>2. CASE n \in CloseAll(snap[o], result)
  <2>1. PICK s \in snap[o] : ~s.recorded /\ n = Recorded(s, result)
    BY <1>2 DEF CloseAll
  <2>2. s \in SourceRows /\ n \in SourceRows /\ SameRow(s, n) /\ n.recorded
    BY <1>1, <2>1, RecordedFacts
  <2>3. s.window = mine[o]
    BY DEF AtEnd, Weakened, Kept, SameRow, RowsOf
  <2> QED
    BY <2>1, <2>2, <2>3 DEF SameRow
<1>3. CASE n \in {Recorded(Opened(mine[o], k, held[o].attempt), "FAULT") : k \in keys}
  <2>1. PICK k \in keys : n = Recorded(Opened(mine[o], k, held[o].attempt), "FAULT")
    BY <1>3
  <2>2. k \in Keys
    BY WindowFacts
  <2> DEFINE r == Opened(mine[o], k, held[o].attempt)
  <2>3. r \in SourceRows
    BY <1>1, <2>2, OpenedType
  <2>4. r.window = mine[o] /\ r.key = k /\ r.attempt = held[o].attempt
    BY DEF Opened
  <2> HIDE DEF r
  <2>5. n \in SourceRows /\ SameRow(r, n) /\ n.recorded
    BY <1>1, <2>1, <2>3, RecordedFacts DEF r
  <2>6. n.window = mine[o] /\ n.key = k /\ n.attempt = held[o].attempt
    BY <2>4, <2>5 DEF SameRow
  <2> QED
    BY <2>1, <2>5, <2>6
<1> QED
  BY <1>2, <1>3 DEF EndingRows

\* What is settled by now was settled in the copy, or the copy knows no row of it.
LEMMA EndRows ==
  ASSUME TypeInv, RowInv, NEW o \in Instances, pc[o] \in {"finishing", "cancelling"},
         pc'[o] # pc[o], NEW result \in Results,
         NEW keys \in SUBSET (Sources \ {r.key : r \in snap[o]}),
         sources' = Saved(sources, EndingRows(o, result, keys))
  PROVE  Tidy(sources') /\ Writes(o, EndingRows(o, result, keys))
<1> DEFINE new == EndingRows(o, result, keys)
           i == mine[o]
           there == {r \in sources : r.window = i}
<1>1. AtEnd(o) /\ Tidy(sources) /\ Bounded
  BY DEF RowInv, AtRow
<1>2. /\ Tidy(snap[o]) /\ held[o].attempt = runs[i].attempt
      /\ \A s \in snap[o] : \E t \in sources : t.window = i /\ Kept(s, t)
      /\ \A t \in sources : t.window = i => \E s \in snap[o] : Kept(s, t)
      /\ \A s \in snap[o] : s.window = i
  <2>1. RowsOf(i) = there
    BY DEF RowsOf
  <2> QED
    BY <1>1, <2>1 DEF AtEnd, Weakened, Kept, SameRow
<1>3. /\ sources \in SUBSET SourceRows /\ snap[o] \in SUBSET SourceRows
      /\ i \in Windows /\ held[o].attempt \in Nat
  BY DEF TypeInv, LocalsOK, TablesOK, Runs
<1>4. \A n \in new :
         /\ n \in SourceRows /\ n.recorded /\ n.window = i
         /\ \/ \E s \in snap[o] : ~s.recorded /\ n = Recorded(s, result) /\ SameRow(s, n)
            \/ /\ n.key \in keys /\ n.attempt = held[o].attempt
               /\ n = Recorded(Opened(i, n.key, held[o].attempt), "FAULT")
  BY <1>1, EndingFacts
<1> HIDE DEF new, there
<1>5. \A k \in keys : k \in Sources /\ \A s \in snap[o] : s.key # k
  OBVIOUS
<1>6. \A m, n \in new : SameRow(m, n) => m = n
  <2> SUFFICES ASSUME NEW m \in new, NEW n \in new, SameRow(m, n) PROVE m = n
    OBVIOUS
  <2>1. CASE m.key \in keys
    BY <1>4, <1>5, <2>1 DEF SameRow
  <2>2. CASE m.key \notin keys
    <3>1. PICK s \in snap[o] : m = Recorded(s, result) /\ SameRow(s, m)
      BY <1>4, <2>2
    <3>2. PICK t \in snap[o] : n = Recorded(t, result) /\ SameRow(t, n)
      BY <1>4, <2>2 DEF SameRow
    <3>3. s = t
      BY <1>2, <3>1, <3>2 DEF SameRow, Tidy
    <3> QED
      BY <3>1, <3>2, <3>3
  <2> QED
    BY <2>1, <2>2
<1>7. \A n \in new : \/ \E m \in sources : SameRow(m, n)
                     \/ \A r \in sources : ~(r.window = n.window /\ r.key = n.key)
  <2> SUFFICES ASSUME NEW n \in new
               PROVE  \/ \E m \in sources : SameRow(m, n)
                      \/ \A r \in sources : ~(r.window = n.window /\ r.key = n.key)
    OBVIOUS
  <2>1. CASE \E s \in snap[o] : SameRow(s, n)
    BY <1>2, <2>1 DEF Kept, SameRow
  <2>2. CASE n.key \in keys /\ n.window = i
    BY <1>2, <1>5, <2>2 DEF Kept, SameRow
  <2> QED
    BY <1>4, <2>1, <2>2
<1>8. Tidy(sources')
  <2>1. new \in SUBSET SourceRows /\ \A n \in new : n.recorded
    BY <1>4
  <2>2. Tidy(Saved(sources, new))
    BY <1>1, <1>3, <1>6, <1>7, <2>1, SavedTidy
  <2> QED
    BY <2>2 DEF new
<1>9. \A n \in new : n.attempt <= runs[i].attempt
  <2> SUFFICES ASSUME NEW n \in new PROVE n.attempt <= runs[i].attempt
    OBVIOUS
  <2>1. CASE \E s \in snap[o] : SameRow(s, n)
    <3>1. PICK t \in sources : t.window = i /\ SameRow(t, n)
      BY <1>2, <2>1 DEF Kept, SameRow
    <3> QED
      BY <1>1, <3>1 DEF Bounded, SameRow
  <2>2. CASE n.attempt = held[o].attempt
    BY <1>2, <1>3, <2>2
  <2> QED
    BY <1>4, <2>1, <2>2
<1>10. ASSUME NEW n \in new, n.key \in Sources PROVE ~SettledAt(sources, i, n.key)
  <2>1. CASE n.key \in keys
    BY <1>2, <1>5, <2>1 DEF Kept, SameRow, SettledAt, Latest, Of
  <2>2. CASE n.key \notin keys
    <3>1. PICK s \in snap[o] : ~s.recorded /\ SameRow(s, n) /\ n.window = i
      BY <1>4, <2>2
    <3>2. ~SettledAt(snap[o], i, n.key)
      <4>1. s \in Of(snap[o], i, n.key)
        BY <3>1 DEF SameRow, Of
      <4> QED
        BY <1>2, <1>3, <1>10, <3>1, <4>1, AllRecorded
    <3>3. Weakened({r \in snap[o] : r.window = i}, {r \in sources : r.window = i})
      BY <1>2 DEF Weakened
    <3> QED
      BY <3>2, <3>3, WeakenedUnsettled
  <2> QED
    BY <2>1, <2>2
<1>11. sources' = Saved(sources, new) /\ pc[o] \in MidTransaction
  BY DEF new, MidTransaction
<1>12. Writes(o, new)
  BY <1>4, <1>9, <1>10, <1>11 DEF Writes
<1> QED
  BY <1>8, <1>12 DEF new

LEMMA FinishRowsAre ==
  ASSUME NEW o \in Instances
  PROVE  FinishRows(o) = EndingRows(o, "FAULT", Sources \ {r.key : r \in snap[o]})
  BY DEF FinishRows, Unreached, EndingRows

LEMMA FinishRowsWritten ==
  ASSUME TypeInv, RowInv, NEW o \in Instances, NEW soon \in BOOLEAN, FinishWrite(o, soon),
         ~UNCHANGED sources
  PROVE  Tidy(sources') /\ \E new : Writes(o, new)
<1>1. pc[o] = "finishing" /\ sources' = Saved(sources, FinishRows(o)) /\ Leave(o)
  BY FinishedRun DEF FinishWrite
<1>2. pc'[o] # pc[o]
  BY <1>1 DEF Leave, Goto, TypeInv, LocalsOK
<1>3. "FAULT" \in Results
  BY DEF Results
<1> QED
  BY <1>1, <1>2, <1>3, FinishRowsAre, EndRows

LEMMA CancelRowsWritten ==
  ASSUME TypeInv, RowInv, NEW o \in Instances, CancelWrite(o)
  PROVE  Tidy(sources') /\ \E new : Writes(o, new)
<1>1. /\ pc[o] = "cancelling" /\ pc'[o] # pc[o] /\ "REFUSED" \in Results
      /\ sources' = Saved(sources, CloseAll(snap[o], "REFUSED"))
  BY DEF CancelWrite, Leave, Goto, TypeInv, LocalsOK, Results
<1>2. CloseAll(snap[o], "REFUSED") = EndingRows(o, "REFUSED", {})
  BY DEF EndingRows
<1> QED
  BY <1>1, <1>2, EndRows

\* Whoever changes the rows weakens them, or is an instance that saves rows of its own run.
RowKinds == (\A i \in Windows : Softened(i)) \/ \E o \in Instances : \E new : Writes(o, new)

LEMMA RowStep ==
  ASSUME TypeInv, RowInv, [Next]_vars
  PROVE  Tidy(sources') /\ RowKinds
<1>1. CASE UNCHANGED sources
  BY <1>1, SameSoftened DEF RowInv, RowKinds, Tidy
<1>2. CASE \E o \in Instances : \E seen \in SUBSET Claimable : Retire(o, seen)
  BY <1>2, RetireRows DEF RowInv, RowKinds
<1>3. CASE \E o \in Instances : \E result \in Observed : Observe(o, result)
  BY <1>3, ObserveRows DEF RowInv, RowKinds
<1>4. CASE \E o \in Instances : Insert(o) /\ ~UNCHANGED sources
  BY <1>4, InsertRows DEF RowKinds
<1>5. CASE \E o \in Instances : Recover(o) \/ Record(o)
  BY <1>5, SaveRows DEF RowKinds
<1>6. CASE \E o \in Instances, soon \in BOOLEAN : FinishWrite(o, soon) /\ ~UNCHANGED sources
  BY <1>6, FinishRowsWritten DEF RowKinds
<1>7. CASE \E o \in Instances : CancelWrite(o)
  BY <1>7, CancelRowsWritten DEF RowKinds
<1>8. CASE \E o \in Instances : Tick(o) /\ ~\E seen \in SUBSET Claimable : Retire(o, seen)
  BY <1>1, <1>8 DEF Tick, Materialize, Sweep, Claim
<1>9. CASE \E o \in Instances : Work(o)
  BY <1>1, <1>3, <1>4, <1>5, <1>6, <1>7, <1>9 DEF Work, LeaseLost, HandedBack, SkipSettled,
     BeginRecovery, BeginSource, BeginDevice, SkipDevice, FinishRead, tables
<1>10. CASE \/ WindowPasses \/ StartWorking \/ HandBackWrite \/ UNCHANGED vars
            \/ \E target \in {"PAUSED", "STOPPED"} : HandBackRead(target)
            \/ \E o \in Instances : Heartbeat(o) \/ Throw(o) \/ FinishFails(o) \/ Crash(o)
            \/ \E i \in Windows : LeaseLapses(i) \/ Stall(i)
  BY <1>1, <1>10 DEF WindowPasses, StartWorking, HandBackWrite, vars, tables, HandBackRead,
     Heartbeat, Throw, FinishFails, Crash, LeaseLapses, Stall, Lapse
<1> QED
  BY <1>2, <1>8, <1>9, <1>10 DEF Next

LEMMA SlotsStay ==
  ASSUME TypeInv, RowInv, [Next]_vars
  PROVE  \A r \in sources : \E s \in sources' : SameRow(r, s)
<1>1. CASE \A i \in Windows : Softened(i)
  BY <1>1 DEF Softened, Weakened, Kept, TypeInv, TablesOK, SourceRows
<1>2. CASE \E o \in Instances : \E new : Writes(o, new)
  BY <1>2, SavedSlots DEF Writes
<1> QED
  BY <1>1, <1>2, RowStep DEF RowKinds

LEMMA BoundedStep ==
  ASSUME ShortTransactions, TypeInv, RowInv, [Next]_vars
  PROVE  Bounded'
<1> SUFFICES ASSUME NEW t \in sources' PROVE t.attempt <= runs'[t.window].attempt
  BY DEF Bounded
<1>1. t \in SourceRows /\ t.window \in Windows /\ t.attempt \in Nat
  BY TypeStep DEF TypeInv, TablesOK, SourceRows
<1>2. /\ runs[t.window] \in Runs /\ runs[t.window].attempt \in Nat
  BY <1>1 DEF TypeInv, TablesOK, Runs
<1>3. t.attempt <= runs[t.window].attempt
  <2>1. CASE \E r \in sources : SameRow(r, t)
    BY <2>1 DEF SameRow, RowInv, Bounded
  <2>2. CASE \A i \in Windows : Softened(i)
    <3>1. \E r \in sources : SameRow(r, t)
      BY <1>1, <2>2 DEF Softened, Weakened, Kept
    <3> QED
      BY <2>1, <3>1
  <2>3. CASE \E o \in Instances : \E new : Writes(o, new)
    <3>1. PICK o \in Instances : \E new : Writes(o, new)
      BY <2>3
    <3>2. PICK new : Writes(o, new)
      BY <3>1
    <3>3. t \in sources \/ t \in new
      BY <3>2 DEF Writes, Saved
    <3> QED
      BY <2>1, <3>2, <3>3 DEF Writes, SameRow
  <2> QED
    BY <2>2, <2>3, RowStep DEF RowKinds
<1>4. /\ Claimed(runs[t.window], NoOne).attempt = runs[t.window].attempt + 1
      /\ \A o : Claimed(runs[t.window], o).attempt = runs[t.window].attempt + 1
  BY DEF Claimed
<1> QED
  BY <1>1, <1>2, <1>3, <1>4, AttemptStep DEF KeepsAttempt, Takes

LEMMA UnbornStep ==
  ASSUME ShortTransactions, TypeInv, RowInv, [Next]_vars
  PROVE  Unborn'
<1> SUFFICES ASSUME NEW i \in Windows, runs'[i].status = "NONE" PROVE runs'[i].attempt = 0
  BY DEF Unborn
<1>1. runs[i] \in Runs
  BY DEF TypeInv, TablesOK
<1>2. ~Takes(i)
  BY <1>1, ClaimedType DEF Takes
<1> QED
  BY <1>2, AttemptStep DEF KeepsAttempt, RowInv, Unborn

LEMMA BackAttemptStep ==
  ASSUME ShortTransactions, TypeInv, RowInv, [Next]_vars
  PROVE  BackAttempt'
<1>1. CASE handing' = "none"
  BY <1>1 DEF BackAttempt
<1>2. CASE \E target \in {"PAUSED", "STOPPED"} : HandBackRead(target)
  BY <1>2 DEF HandBackRead, tables, BackAttempt, TypeInv, TablesOK
<1>3. CASE handing' # "none" /\ UNCHANGED <<handing, copies>>
  <2>1. \A i \in Windows : ~Takes(i)
    BY <1>3 DEF Takes, Undisturbed
  <2> QED
    BY <1>3, <2>1, AttemptStep DEF KeepsAttempt, RowInv, BackAttempt
<1> QED
  BY <1>1, <1>2, <1>3, StepKinds DEF Queues, StartWorking, Materialize, seller, HandsBack,
     HandBackWrite, KeepsStatus

LEMMA MidOneStep ==
  ASSUME ShortTransactions, TypeInv, FenceInv, RowInv, [Next]_vars
  PROVE  MidOne'
<1> SUFFICES ASSUME NEW p \in Instances, NEW q \in Instances,
                    pc'[p] \in MidTransaction, pc'[q] \in MidTransaction,
                    mine'[p] = mine'[q], p # q
             PROVE  FALSE
  BY DEF MidOne
<1>1. /\ mine'[p] = mine[p] /\ (pc[p] \in MidTransaction \/ Held(p))
      /\ mine'[q] = mine[q] /\ (pc[q] \in MidTransaction \/ Held(q))
  BY StepChecked DEF Checked
<1>2. CASE pc[p] \in MidTransaction /\ pc[q] \in MidTransaction
  BY <1>1, <1>2 DEF RowInv, MidOne
<1>3. CASE Held(p)
  <2>1. Mine(q)
    BY <1>1, <1>3 DEF FenceInv, MidInv, Mine, Held
  <2> QED
    BY <1>1, <1>3, <2>1 DEF Mine, Held
<1>4. CASE Held(q)
  <2>1. Mine(p)
    BY <1>1, <1>4 DEF FenceInv, MidInv, Mine, Held
  <2> QED
    BY <1>1, <1>4, <2>1 DEF Mine, Held
<1> QED
  BY <1>1, <1>2, <1>3, <1>4

-----------------------------------------------------------------------------
(* An instance that stays where it is.                                      *)

Stays(p) == /\ pc'[p] = pc[p] /\ mine'[p] = mine[p] /\ at'[p] = at[p] /\ row'[p] = row[p]
            /\ snap'[p] = snap[p] /\ held'[p] = held[p]

\* Between a check and a write nobody else writes the rows of the run, or claims it.
LEMMA MidStays ==
  ASSUME ShortTransactions, TypeInv, RowInv, [Next]_vars, NEW p \in Instances, Stays(p),
         pc[p] \in MidTransaction
  PROVE  /\ Weakened({r \in sources : r.window = mine[p]}, {r \in sources' : r.window = mine[p]})
         /\ runs'[mine[p]].attempt = runs[mine[p]].attempt
<1>1. mine[p] \in Windows
  BY DEF TypeInv, LocalsOK
<1>2. runs'[mine[p]].attempt = runs[mine[p]].attempt
  <2>1. ~Takes(mine[p])
    BY DEF Takes, Undisturbed
  <2> QED
    BY <1>1, <2>1, AttemptStep DEF KeepsAttempt
<1>3. CASE \A i \in Windows : Softened(i)
  BY <1>1, <1>2, <1>3 DEF Softened
<1>4. CASE \E o \in Instances : \E new : Writes(o, new)
  <2>1. PICK o \in Instances : \E new : Writes(o, new)
    BY <1>4
  <2>2. PICK new : Writes(o, new)
    BY <2>1
  <2>3. mine[o] # mine[p]
    BY <2>2 DEF Writes, Stays, RowInv, MidOne
  <2>4. /\ sources' = Saved(sources, new) /\ \A n \in new : n.window = mine[o]
    BY <2>2 DEF Writes
  <2>5. {r \in sources' : r.window = mine[p]} = {r \in sources : r.window = mine[p]}
    BY <2>3, <2>4 DEF Saved, SameRow
  <2> QED
    BY <1>2, <2>5, WeakenedRefl
<1> QED
  BY <1>3, <1>4, RowStep DEF RowKinds

LEMMA PlacedStays ==
  ASSUME TypeInv, RowInv, [Next]_vars, NEW p \in Instances, Stays(p), Placed(p)
  PROVE  Placed(p)'
<1>1. PICK r \in sources : SameRow(r, row[p])
  BY DEF Placed
<1>2. PICK s \in sources' : SameRow(r, s)
  BY SlotsStay
<1>3. SameRow(s, row'[p])
  BY <1>1, <1>2 DEF SameRow, Stays
<1> QED
  BY <1>3 DEF Placed, Stays

LEMMA UnsettledStays ==
  ASSUME NEW p \in Instances, Stays(p), Unsettled(p),
         Weakened({r \in sources : r.window = mine[p]}, {r \in sources' : r.window = mine[p]})
  PROVE  Unsettled(p)'
<1>1. at[p] \in Sources => ~SettledAt(sources', mine[p], at[p])
  BY WeakenedUnsettled DEF Unsettled
<1> QED
  BY <1>1 DEF Unsettled, Stays

\* Who still holds its run after the step held it before, and in the same attempt.
LEMMA HeldStays ==
  ASSUME ShortTransactions, TypeInv, RowInv, [Next]_vars, NEW p \in Instances, Stays(p),
         pc[p] = "observing", Held(p)'
  PROVE  Held(p) /\ runs'[mine[p]].attempt = runs[mine[p]].attempt
<1>1. mine[p] \in Windows /\ runs'[mine[p]].status = "RUNNING" /\ runs'[mine[p]].owner = p
  BY DEF TypeInv, LocalsOK, Held, Stays
<1>2. ~Takes(mine[p])
  <2> SUFFICES ASSUME NEW o \in Instances, runs'[mine[p]] = Claimed(runs[mine[p]], o),
                      pc[o] = "idle"
               PROVE  FALSE
    BY DEF Takes
  <2>1. o = p
    BY <1>1 DEF Claimed
  <2> QED
    BY <2>1
<1>3. NoStart \/ Claims
  BY StepKinds, QueuesStartNothing, HandBackStartsNothing
<1>4. Held(p)
  <2>1. CASE NoStart
    BY <1>1, <2>1 DEF NoStart, Held
  <2>2. CASE Claims
    <3>1. PICK o \in Instances, seen \in SUBSET Claimable : Claim(o, seen)
      BY <2>2 DEF Claims
    <3>2. PICK i \in Startable(seen) :
            runs' = [j \in Windows |->
              IF j = i THEN Claimed(runs[i], o)
              ELSE IF j \in seen /\ j < i /\ Stale(j) THEN PutAway(runs[j]) ELSE runs[j]]
      BY <3>1 DEF Claim
    <3>3. p # o
      BY <3>1 DEF Claim
    <3>4. mine[p] # i
      BY <1>1, <3>2, <3>3 DEF Claimed
    <3>5. runs'[mine[p]] \in {PutAway(runs[mine[p]]), runs[mine[p]]}
      BY <1>1, <3>2, <3>4
    <3>6. runs'[mine[p]] = runs[mine[p]]
      BY <1>1, <3>5, PutAwayType DEF TypeInv, TablesOK
    <3> QED
      BY <1>1, <3>6 DEF Held
  <2> QED
    BY <1>3, <2>1, <2>2
<1> QED
  BY <1>1, <1>2, <1>4, AttemptStep DEF KeepsAttempt

LEMMA ObservingStays ==
  ASSUME ShortTransactions, TypeInv, FenceInv, RowInv, [Next]_vars, NEW p \in Instances,
         Stays(p), pc[p] = "observing"
  PROVE  AtObserving(p)'
<1>1. AtObserving(p) /\ Placed(p)
  BY DEF RowInv, AtRow, AtObserving
<1>2. Placed(p)'
  BY <1>1, PlacedStays
<1>3. ASSUME Held(p)' PROVE row'[p].attempt = runs'[mine'[p]].attempt
  BY <1>1, <1>3, HeldStays DEF AtObserving, Stays
<1>4. ASSUME Held(p)', NEW t \in sources', SameRow(t, row'[p]), t.recorded PROVE FALSE
  <2>1. Held(p) /\ row'[p] = row[p] /\ mine'[p] = mine[p]
    BY <1>4, HeldStays DEF Stays
  <2>2. t \notin sources
    BY <1>1, <1>4, <2>1 DEF AtObserving
  <2>3. t.window = mine[p] /\ mine[p] \in Windows
    BY <1>1, <1>4, <2>1 DEF Placed, SameRow, TypeInv, LocalsOK
  <2>4. CASE \A i \in Windows : Softened(i)
    <3>1. runs'[mine[p]].status = "RUNNING"
      BY <1>4, <2>1 DEF Held
    <3> QED
      BY <1>4, <2>2, <2>3, <2>4, <3>1 DEF Softened
  <2>5. CASE \E o \in Instances : \E new : Writes(o, new)
    <3>1. PICK o \in Instances : \E new : Writes(o, new)
      BY <2>5
    <3>2. PICK new : Writes(o, new)
      BY <3>1
    <3>3. t \in new
      BY <2>2, <3>2 DEF Writes, Saved
    <3>4. mine[o] = mine[p] /\ o # p /\ Mine(o)
      BY <2>3, <3>2, <3>3 DEF Writes, Stays, FenceInv, MidInv
    <3> QED
      BY <2>1, <3>4 DEF Mine, Held
  <2> QED
    BY <2>4, <2>5, RowStep DEF RowKinds
<1> QED
  BY <1>2, <1>3, <1>4 DEF AtObserving

LEMMA StaysAtRow ==
  ASSUME ShortTransactions, TypeInv, FenceInv, RowInv, [Next]_vars, NEW p \in Instances,
         Stays(p)
  PROVE  AtRow(p)'
<1> DEFINE old == {r \in sources : r.window = mine[p]}
           new == {r \in sources' : r.window = mine[p]}
<1>1. pc[p] \in MidTransaction => /\ Weakened(old, new)
                                  /\ runs'[mine[p]].attempt = runs[mine[p]].attempt
  BY MidStays
<1>2. AtRow(p)
  BY DEF RowInv
<1>3. \A t \in Here(p)' : t \in new /\ t.key = at[p]
  BY DEF Here, Of, Stays
<1>4. \A s \in old : s.key = at[p] => s \in Here(p)
  BY DEF Here, Of
<1>5. ASSUME pc[p] = "recovering" PROVE AtRecovering(p)'
  <2>1. AtRecovering(p) /\ Weakened(old, new)
    BY <1>1, <1>2, <1>5 DEF AtRow, MidTransaction
  <2>2. Placed(p)' /\ Unsettled(p)'
    BY <2>1, PlacedStays, UnsettledStays DEF AtRecovering
  <2>3. \A t \in Here(p)' : t.attempt <= row[p].attempt
    BY <1>3, <1>4, <2>1 DEF AtRecovering, Weakened, Kept, SameRow
  <2> QED
    BY <2>1, <2>2, <2>3 DEF AtRecovering, Stays
<1>6. ASSUME pc[p] = "opening" PROVE AtOpening(p)'
  <2>1. /\ AtOpening(p) /\ Weakened(old, new)
        /\ runs'[mine[p]].attempt = runs[mine[p]].attempt
    BY <1>1, <1>2, <1>6 DEF AtRow, MidTransaction
  <2>2. Unsettled(p)'
    BY <2>1, UnsettledStays DEF AtOpening
  <2>3. row'[p] = Fresh(p)'
    BY <2>1 DEF AtOpening, Fresh, Stays
  <2>4. at[p] \in Sources => \A t \in Here(p)' : t.attempt < row[p].attempt => t.recorded
    BY <1>3, <1>4, <2>1 DEF AtOpening, Weakened, Kept, SameRow
  <2> QED
    BY <2>2, <2>3, <2>4 DEF AtOpening, Stays
<1>7. ASSUME pc[p] = "recording" PROVE AtRecording(p)'
  <2>1. AtRecording(p) /\ Weakened(old, new)
    BY <1>1, <1>2, <1>7 DEF AtRow, MidTransaction
  <2>2. Placed(p)' /\ Unsettled(p)'
    BY <2>1, PlacedStays, UnsettledStays DEF AtRecording
  <2> QED
    BY <2>1, <2>2 DEF AtRecording, Stays
<1>8. ASSUME pc[p] \in {"finishing", "cancelling"} PROVE AtEnd(p)'
  <2>1. /\ AtEnd(p) /\ Weakened(old, new)
        /\ runs'[mine[p]].attempt = runs[mine[p]].attempt
    BY <1>1, <1>2, <1>8 DEF AtRow, MidTransaction
  <2>2. RowsOf(mine[p]) = old /\ RowsOf(mine[p])' = new
    BY DEF RowsOf, Stays
  <2>3. Weakened(snap[p], new)
    BY <2>1, <2>2, WeakenedTrans DEF AtEnd
  <2> QED
    BY <2>1, <2>2, <2>3 DEF AtEnd, Stays, Tidy
<1> QED
  BY <1>5, <1>6, <1>7, <1>8, ObservingStays DEF AtRow, Stays

-----------------------------------------------------------------------------
(* An instance that moves.                                                  *)

LEMMA Quiet ==
  ASSUME NEW o \in Instances, pc'[o] \in {"idle", "next", "finish"}
  PROVE  AtRow(o)'
  BY DEF AtRow

LEMMA LeaveQuiet ==
  ASSUME TypeInv, NEW o \in Instances, Leave(o) \/ Advance(o)
  PROVE  AtRow(o)'
<1>1. pc'[o] \in {"idle", "next"}
  BY DEF Leave, Advance, Goto, TypeInv, LocalsOK
<1> QED
  BY <1>1, Quiet

LEMMA FinishQuiet ==
  ASSUME TypeInv, NEW o \in Instances, Goto(o, "finish")
  PROVE  AtRow(o)'
<1>1. pc'[o] = "finish"
  BY DEF Goto, TypeInv, LocalsOK
<1> QED
  BY <1>1, Quiet

LEMMA HoldAtRow ==
  ASSUME TypeInv, RowInv, NEW o \in Instances, NEW step \in {"finishing", "cancelling"},
         Hold(o, step), UNCHANGED tables
  PROVE  AtRow(o)'
<1>1. /\ pc'[o] = step /\ mine'[o] = mine[o] /\ snap'[o] = RowsOf(mine[o])
      /\ held'[o] = runs[mine[o]] /\ sources' = sources /\ runs' = runs
  BY DEF Hold, Goto, TypeInv, LocalsOK, tables
<1>2. Tidy(RowsOf(mine[o]))
  BY DEF RowInv, Tidy, RowsOf
<1>3. RowsOf(mine[o])' = RowsOf(mine[o])
  BY <1>1 DEF RowsOf
<1>4. Tidy(snap[o])' /\ Weakened(snap[o], RowsOf(mine[o]))'
  BY <1>1, <1>2, <1>3, WeakenedRefl DEF Tidy, Weakened
<1> QED
  BY <1>1, <1>4 DEF AtRow, AtEnd

LEMMA CarryFacts ==
  ASSUME TypeInv, NEW o \in Instances, NEW step, NEW r, Carry(o, step, r)
  PROVE  pc'[o] = step /\ row'[o] = r /\ mine'[o] = mine[o] /\ at'[o] = at[o]
  BY DEF Carry, Goto, TypeInv, LocalsOK

LEMMA BeginRecoveryAtRow ==
  ASSUME TypeInv, RowInv, NEW o \in Instances, BeginRecovery(o)
  PROVE  AtRow(o)'
<1>1. CASE ~Held(o)
  BY <1>1, LeaveQuiet DEF BeginRecovery
<1>2. CASE Held(o)
  <2>1. PICK r \in Interrupted(o) : Carry(o, "recovering", Recovered(r))
    BY <1>2 DEF BeginRecovery
  <2>2. /\ r \in sources /\ r \in Here(o) /\ r \in SourceRows /\ ~r.recorded
        /\ r.window = mine[o] /\ r.key = at[o] /\ \A s \in Here(o) : s.attempt <= r.attempt
    BY DEF Interrupted, Latest, Of, Here, TypeInv, TablesOK
  <2>3. Recovered(r).recorded /\ SameRow(r, Recovered(r))
    <3>1. (IF r.result = "unknown" THEN "FAULT" ELSE r.result) \in Results
      BY <2>2 DEF SourceRows, Results
    <3> QED
      BY <2>2, <3>1, RecordedFacts DEF Recovered
  <2>4. /\ pc'[o] = "recovering" /\ row'[o] = Recovered(r) /\ mine'[o] = mine[o]
        /\ at'[o] = at[o] /\ sources' = sources
    BY <2>1, CarryFacts DEF BeginRecovery, tables
  <2>5. Unsettled(o)
    <3>1. Tidy(sources) /\ sources \in SUBSET SourceRows /\ mine[o] \in Windows
      BY DEF RowInv, TypeInv, TablesOK, LocalsOK
    <3> QED
      BY <2>2, <3>1, AllRecorded DEF Unsettled, Here
  <2>6. Unsettled(o)' /\ Here(o)' = Here(o)
    BY <2>4, <2>5 DEF Unsettled, Here
  <2>7. Placed(o)'
    BY <2>2, <2>3, <2>4 DEF Placed, SameRow
  <2> QED
    BY <2>2, <2>3, <2>4, <2>6, <2>7 DEF AtRow, AtRecovering, SameRow
<1> QED
  BY <1>1, <1>2

LEMMA BeginAtRow ==
  ASSUME TypeInv, RowInv, NEW o \in Instances, BeginSource(o) \/ BeginDevice(o)
  PROVE  AtRow(o)'
<1>1. CASE Leave(o)
  BY <1>1, LeaveQuiet
<1>2. CASE Carry(o, "opening", Fresh(o))
  <2>1. /\ pc'[o] = "opening" /\ row'[o] = Fresh(o) /\ mine'[o] = mine[o] /\ at'[o] = at[o]
        /\ sources' = sources /\ runs' = runs
    BY <1>2, CarryFacts DEF BeginSource, BeginDevice, tables
  <2>2. /\ Unsettled(o)
        /\ at[o] \in Sources => \A r \in Here(o) : r.attempt < Fresh(o).attempt => r.recorded
    <3>1. CASE BeginDevice(o)
      <4>1. at[o] \notin Sources
        BY <3>1, SourcesAssumption DEF BeginDevice, AtDevice, Sources, Device
      <4> QED
        BY <4>1 DEF Unsettled
    <3>2. CASE BeginSource(o)
      <4>1. Interrupted(o) = {} /\ Unsettled(o) /\ at[o] \in Sources
        BY <3>2 DEF BeginSource, Unsettled, InLine, AtSource
      <4>2. Fresh(o).attempt = runs[mine[o]].attempt
        BY DEF Fresh, Opened
      <4>3. ASSUME NEW r \in Here(o), r.attempt < Fresh(o).attempt, ~r.recorded PROVE FALSE
        <5>1. r \in Latest(sources, mine[o], at[o])
          BY <4>1, <4>3 DEF Here, Of, Latest, RowInv, Tidy
        <5> QED
          BY <4>1, <4>2, <4>3, <5>1 DEF Interrupted
      <4> QED
        BY <4>1, <4>3
    <3> QED
      BY <3>1, <3>2
  <2>3. Fresh(o)' = Fresh(o) /\ Here(o)' = Here(o) /\ Unsettled(o)'
    BY <2>1, <2>2 DEF Fresh, Here, Unsettled
  <2> QED
    BY <2>1, <2>2, <2>3 DEF AtRow, AtOpening
<1> QED
  BY <1>1, <1>2 DEF BeginSource, BeginDevice

LEMMA RecoverAtRow ==
  ASSUME TypeInv, RowInv, NEW o \in Instances, Recover(o)
  PROVE  AtRow(o)'
<1>1. CASE Settled(row[o].result)
  BY <1>1, LeaveQuiet DEF Recover
<1>2. CASE ~Settled(row[o].result) /\ ~Held(o)
  BY <1>2, LeaveQuiet DEF Recover
<1>3. CASE ~Settled(row[o].result) /\ Held(o)
  <2>1. /\ pc'[o] = "opening" /\ row'[o] = Fresh(o) /\ mine'[o] = mine[o] /\ at'[o] = at[o]
        /\ runs' = runs
    BY <1>3, CarryFacts DEF Recover
  <2>2. /\ Placed(o) /\ row[o].recorded /\ row[o] \in SourceRows /\ sources \subseteq SourceRows
        /\ \A r \in Here(o) : r.attempt <= row[o].attempt
    BY DEF Recover, RowInv, AtRow, AtRecovering, TypeInv, LocalsOK, TablesOK
  <2>3. /\ Tidy(sources') /\ sources' = Saved(sources, {row[o]})
        /\ row[o] \in sources'
    BY SaveRows DEF Recover, Saved
  \* What was recovered is the latest of its source, whatever its result.
  <2>4. ASSUME NEW t \in Of(sources', mine[o], at[o])
        PROVE  t = row[o] \/ (t \in Here(o) /\ ~SameRow(t, row[o]))
    BY <2>3 DEF Of, Here, Saved
  <2>5. at[o] \in Sources => ~SettledAt(sources', mine[o], at[o])
    <3> SUFFICES ASSUME NEW t \in Latest(sources', mine[o], at[o]), Settled(t.result)
                 PROVE  FALSE
      BY DEF SettledAt
    <3>1. t \in Of(sources', mine[o], at[o]) /\ row[o] \in Of(sources', mine[o], at[o])
      BY <2>2, <2>3 DEF Latest, Of, Placed
    <3>2. row[o].attempt <= t.attempt /\ t \in Here(o) /\ ~SameRow(t, row[o])
      BY <1>3, <2>4, <3>1 DEF Latest
    <3>3. t.attempt \in Nat /\ row[o].attempt \in Nat /\ t.attempt <= row[o].attempt
      BY <2>2, <3>2 DEF Here, Of, SourceRows
    <3> QED
      BY <2>2, <3>2, <3>3 DEF Here, Of, Placed, SameRow
  <2>6. \A t \in Of(sources', mine[o], at[o]) : at[o] \in Sources => t.recorded
    <3> SUFFICES ASSUME NEW t \in Of(sources', mine[o], at[o]), at[o] \in Sources, ~t.recorded
                 PROVE  FALSE
      OBVIOUS
    <3>1. t \in Here(o) /\ ~SameRow(t, row[o])
      BY <2>2, <2>4
    <3>2. row[o].attempt <= t.attempt
      BY <2>2, <2>3 DEF Of, Placed, Tidy
    <3>3. t.attempt \in Nat /\ row[o].attempt \in Nat /\ t.attempt <= row[o].attempt
      BY <2>2, <3>1 DEF Here, Of, SourceRows
    <3> QED
      BY <2>2, <3>1, <3>2, <3>3 DEF Here, Of, Placed, SameRow
  <2>7. Fresh(o)' = Fresh(o) /\ Here(o)' = Of(sources', mine[o], at[o]) /\ Unsettled(o)'
    BY <2>1, <2>5 DEF Fresh, Here, Unsettled
  <2> QED
    BY <2>1, <2>6, <2>7 DEF AtRow, AtOpening
<1> QED
  BY <1>1, <1>2, <1>3

LEMMA InsertAtRow ==
  ASSUME TypeInv, RowInv, NEW o \in Instances, Insert(o)
  PROVE  AtRow(o)'
<1>1. CASE \E r \in sources : SameRow(r, row[o])
  BY <1>1, FinishQuiet DEF Insert
<1>2. CASE ~\E r \in sources : SameRow(r, row[o])
  <2>1. /\ pc'[o] = "observing" /\ row'[o] = row[o] /\ mine'[o] = mine[o] /\ at'[o] = at[o]
        /\ runs' = runs /\ sources' = sources \cup {row[o]}
    BY <1>2 DEF Insert, KeepLocals, Goto, TypeInv, LocalsOK
  <2>2. row[o] = Opened(mine[o], at[o], runs[mine[o]].attempt)
    BY DEF Insert, RowInv, AtRow, AtOpening, Fresh
  <2>3. /\ row[o].window = mine[o] /\ row[o].key = at[o] /\ ~row[o].recorded
        /\ row[o].attempt = runs[mine[o]].attempt
    BY <2>2 DEF Opened
  <2>4. Placed(o)'
    BY <2>1, <2>3 DEF Placed, SameRow
  <2>5. \A r \in sources' : SameRow(r, row[o]) => ~r.recorded
    BY <1>2, <2>1, <2>3
  <2> QED
    BY <2>1, <2>3, <2>4, <2>5 DEF AtRow, AtObserving
<1> QED
  BY <1>1, <1>2

LEMMA ObserveAtRow ==
  ASSUME TypeInv, RowInv, [Next]_vars, NEW o \in Instances, NEW result \in Observed,
         Observe(o, result)
  PROVE  AtRow(o)'
<1>1. CASE ~Held(o)
  BY <1>1, LeaveQuiet, FinishQuiet DEF Observe
<1>2. CASE Held(o)
  <2>1. /\ pc'[o] = "recording" /\ row'[o] = Recorded(row[o], result)
        /\ mine'[o] = mine[o] /\ at'[o] = at[o]
    BY <1>2, CarryFacts DEF Observe
  <2>2. AtObserving(o) /\ Placed(o) /\ row[o] \in SourceRows /\ result \in Results
    BY ObservedAssumption DEF Observe, RowInv, AtRow, AtObserving, TypeInv, LocalsOK
  <2>3. SameRow(row[o], row'[o]) /\ row'[o].recorded
    BY <2>1, <2>2, RecordedFacts
  <2>4. Tidy(sources') /\ \A t \in sources' : t.recorded => t \in sources
    <3>1. Tidy(sources')
      BY RowStep
    <3>2. \A r \in sources : r \in SourceRows
      BY DEF TypeInv, TablesOK
    <3> QED
      BY <3>1, <3>2 DEF Observe, SourceRows
  <2>5. PICK t \in sources' : SameRow(t, row[o])
    <3>1. PICK r \in sources : SameRow(r, row[o])
      BY <2>2 DEF Placed
    <3>2. PICK s \in sources' : SameRow(r, s)
      BY SlotsStay
    <3> QED
      BY <3>1, <3>2 DEF SameRow
  <2>6. ~t.recorded
    BY <1>2, <2>2, <2>4, <2>5 DEF AtObserving
  <2>7. Placed(o)'
    BY <2>1, <2>2, <2>3, <2>5 DEF Placed, SameRow
  <2>8. Unsettled(o)'
    <3>1. sources' \in SUBSET SourceRows /\ mine[o] \in Windows
      BY TypeStep DEF TypeInv, TablesOK, LocalsOK
    <3>2. t \in Of(sources', mine[o], at[o])
      BY <2>2, <2>5 DEF Of, Placed, SameRow
    <3>3. at[o] \in Sources => ~SettledAt(sources', mine[o], at[o])
      BY <2>4, <2>6, <3>1, <3>2, AllRecorded
    <3> QED
      BY <2>1, <3>3 DEF Unsettled
  <2> QED
    BY <2>1, <2>3, <2>7, <2>8 DEF AtRow, AtRecording
<1> QED
  BY <1>1, <1>2

LEMMA WorkAtRow ==
  ASSUME TypeInv, RowInv, [Next]_vars, NEW o \in Instances, Work(o)
  PROVE  AtRow(o)'
<1>1. CASE LeaseLost(o) \/ SkipSettled(o)
  BY <1>1, LeaveQuiet DEF LeaseLost, SkipSettled
<1>2. CASE HandedBack(o)
  BY <1>2, LeaveQuiet, HoldAtRow DEF HandedBack
<1>3. CASE FinishRead(o)
  BY <1>3, LeaveQuiet, HoldAtRow DEF FinishRead
<1>4. CASE Record(o)
  BY <1>4, LeaveQuiet, FinishQuiet DEF Record
<1>5. CASE SkipDevice(o)
  BY <1>5, FinishQuiet DEF SkipDevice
<1>6. CASE (\E soon \in BOOLEAN : FinishWrite(o, soon)) \/ CancelWrite(o)
  BY <1>6, FinishedRun, LeaveQuiet, FinishQuiet DEF FinishAgain, CancelWrite
<1> QED
  BY <1>1, <1>2, <1>3, <1>4, <1>5, <1>6, BeginRecoveryAtRow, BeginAtRow, RecoverAtRow,
     InsertAtRow, ObserveAtRow DEF Work

\* Every instance stays where it is or has moved as the invariant wants it.
LEMMA AtRowStep ==
  ASSUME ShortTransactions, TypeInv, FenceInv, RowInv, [Next]_vars, NEW p \in Instances
  PROVE  AtRow(p)'
<1>1. CASE UNCHANGED <<pc, mine, at, row, snap, held>>
  BY <1>1, StaysAtRow DEF Stays
<1>2. ASSUME NEW o \in Instances, \E seen \in SUBSET Claimable : Claim(o, seen)
      PROVE  AtRow(p)'
  <2>1. CASE p = o
    <3>1. pc'[p] = "next"
      BY <1>2, <2>1 DEF Claim, TypeInv, LocalsOK
    <3> QED
      BY <3>1, Quiet
  <2>2. CASE p # o
    <3>1. Stays(p)
      BY <1>2, <2>2 DEF Claim, Stays, TypeInv, LocalsOK
    <3> QED
      BY <3>1, StaysAtRow
  <2> QED
    BY <2>1, <2>2
<1>3. ASSUME NEW o \in Instances, Work(o) PROVE AtRow(p)'
  <2>1. CASE p = o
    BY <1>3, <2>1, WorkAtRow
  <2>2. CASE p # o
    <3>1. Stays(p)
      BY <1>3, <2>2 DEF Work, LeaseLost, HandedBack, SkipSettled, BeginRecovery, BeginSource,
         Recover, Insert, Observe, Record, BeginDevice, SkipDevice, FinishRead, FinishWrite,
         CancelWrite, FinishAgain, Leave, Advance, Carry, Hold, Goto, KeepLocals, Stays,
         TypeInv, LocalsOK
    <3> QED
      BY <3>1, StaysAtRow
  <2> QED
    BY <2>1, <2>2
<1>4. ASSUME NEW o \in Instances, Throw(o) \/ FinishFails(o) \/ Crash(o) PROVE AtRow(p)'
  <2>1. Leave(o) \/ (Goto(o, "finish") /\ KeepLocals)
    BY <1>4 DEF Throw, FinishFails, FinishAgain, Crash
  <2>2. CASE p = o
    BY <2>1, <2>2, LeaveQuiet, FinishQuiet
  <2>3. CASE p # o
    <3>1. Stays(p)
      BY <2>1, <2>3 DEF Leave, Goto, KeepLocals, Stays, TypeInv, LocalsOK
    <3> QED
      BY <3>1, StaysAtRow
  <2> QED
    BY <2>2, <2>3
<1> QED
  BY <1>1, <1>2, <1>3, <1>4 DEF Next, Tick, WindowPasses, StartWorking, HandBackWrite, vars,
     locals, HandBackRead, Materialize, Retire, Sweep, Heartbeat, LeaseLapses, Stall, Lapse

LEMMA RowInvStep ==
  ASSUME ShortTransactions
  PROVE  TypeInv /\ FenceInv /\ RowInv /\ [Next]_vars => RowInv'
<1> SUFFICES ASSUME TypeInv, FenceInv, RowInv, [Next]_vars PROVE RowInv'
  OBVIOUS
<1>1. Tidy(sources)'
  BY RowStep DEF Tidy
<1> QED
  BY <1>1, BoundedStep, UnbornStep, BackAttemptStep, MidOneStep, AtRowStep DEF RowInv

-----------------------------------------------------------------------------
(* Settled is settled.                                                      *)

LEMMA SettledStep ==
  ASSUME TypeInv, RowInv, [Next]_vars, NEW i \in Windows, NEW k \in Sources,
         SettledAt(sources, i, k)
  PROVE  Of(sources', i, k) = Of(sources, i, k)
<1>1. CASE \A j \in Windows : Softened(j)
  <2>1. sources \in SUBSET SourceRows /\ Tidy(sources)
    BY DEF TypeInv, TablesOK, RowInv
  <2> QED
    BY <1>1, <2>1, WeakenedKeepsSettled DEF Softened
<1>2. CASE \E o \in Instances : \E new : Writes(o, new)
  <2>1. PICK o \in Instances : \E new : Writes(o, new)
    BY <1>2
  <2>2. PICK new : Writes(o, new)
    BY <2>1
  <2>3. \A n \in new : ~(n.window = i /\ n.key = k)
    BY <2>2 DEF Writes
  <2> QED
    BY <2>2, <2>3 DEF Writes, Saved, SameRow, Of
<1> QED
  BY <1>1, <1>2, RowStep DEF RowKinds

LEMMA RowInvariant == ASSUME ShortTransactions PROVE Spec => [](TypeInv /\ FenceInv /\ RowInv)
  BY InitType, TypeStep, InitFence, FenceStep, InitRows, RowInvStep, PTL DEF Spec

\* Of a required source only the row of the latest attempt may be open, and an attempt has
\* one row: a recovery, which looks at the latest row alone, leaves no earlier observation
\* open behind it (recoverInterrupted).
THEOREM NothingOpenIsLeftBehind == ASSUME ShortTransactions PROVE Spec => []Tidy(sources)
  BY RowInvariant, PTL DEF RowInv

\* R6 for any number of instances, windows, sources and faults, as long as no claim commits
\* between a check and its write: once a required source is settled in a window, no attempt
\* reads it again and nothing, a recovery or a finish of a stale copy included, unsettles it
\* (observeSource, recoverInterrupted, finish).
THEOREM SettledIsNotReadAgain ==
  ASSUME ShortTransactions
  PROVE  Spec => SettledStays
<1> DEFINE OldRows == \A i \in Windows, k \in Sources :
                      SettledAt(sources, i, k) => Of(sources, i, k)' = Of(sources, i, k)
<1>1. TypeInv /\ RowInv /\ [Next]_vars => OldRows
  <2> SUFFICES ASSUME TypeInv, RowInv, [Next]_vars, NEW i \in Windows, NEW k \in Sources,
                      SettledAt(sources, i, k)
               PROVE  Of(sources, i, k)' = Of(sources, i, k)
    OBVIOUS
  <2>1. Of(sources, i, k)' = Of(sources', i, k)
    BY DEF Of
  <2> QED
    BY <2>1, SettledStep
<1>2. SettledStays <=> [][OldRows]_vars
  BY DEF SettledStays
<1> HIDE DEF OldRows
<1>3. Spec => [][OldRows]_vars
  BY <1>1, RowInvariant, PTL DEF Spec
<1> QED
  BY <1>2, <1>3

\* The rows of a source that has any have a latest one.
LEMMA LatestExists ==
  ASSUME NEW rows \in SUBSET SourceRows, NEW i, NEW k, NEW bound \in Nat,
         \A r \in Of(rows, i, k) : r.attempt <= bound, Of(rows, i, k) # {}
  PROVE  Latest(rows, i, k) # {}
<1> DEFINE left == {bound - r.attempt : r \in Of(rows, i, k)}
<1>1. \A r \in Of(rows, i, k) : r.attempt \in Nat /\ bound - r.attempt \in Nat
  BY DEF Of, SourceRows
<1>2. left \subseteq Nat /\ left # {}
  BY <1>1
<1>3. PICK m \in left : \A n \in left : ~(<<n, m>> \in OpToRel(<, Nat))
  BY <1>2, NatLessThanWellFounded, WFMin
<1>4. PICK r \in Of(rows, i, k) : m = bound - r.attempt
  BY <1>3
<1>5. ASSUME NEW s \in Of(rows, i, k) PROVE s.attempt <= r.attempt
  <2>1. bound - s.attempt \in left /\ bound - s.attempt \in Nat /\ m \in Nat
    BY <1>1, <1>2
  <2>2. ~(bound - s.attempt < m)
    BY <1>3, <2>1 DEF OpToRel
  <2> QED
    BY <1>1, <1>4, <2>1, <2>2
<1>6. r \in Latest(rows, i, k)
  BY <1>4, <1>5 DEF Latest
<1> QED
  BY <1>6

\* A finish that finds SUCCESS in its copy found every source settled there: a source
\* without a row gets a FAULT, and so does every open row.
LEMMA SuccessInCopy ==
  ASSUME TypeInv, RowInv, NEW o \in Instances, AtEnd(o), NEW k \in Sources,
         Outcome(UNION {Latest(Saved(snap[o], FinishRows(o)), mine[o], j) : j \in Keys}) = "SUCCESS"
  PROVE  SettledAt(snap[o], mine[o], k)
<1> DEFINE i == mine[o]
           new == FinishRows(o)
           rows == Saved(snap[o], new)
           keys == Sources \ {r.key : r \in snap[o]}
<1>1. /\ snap[o] \in SUBSET SourceRows /\ i \in Windows /\ held[o].attempt \in Nat
      /\ "FAULT" \in Results /\ runs[i].attempt \in Nat /\ k \in Keys
  BY WindowFacts DEF TypeInv, LocalsOK, TablesOK, Runs, Results
<1>2. rows \in SUBSET SourceRows
  BY <1>1, FinishRowsType, SavedType
<1>3. /\ \A s \in snap[o] : s.window = i /\ s.attempt <= runs[i].attempt
      /\ held[o].attempt = runs[i].attempt
  BY DEF AtEnd, Weakened, Kept, SameRow, RowsOf, RowInv, Bounded
<1>4. \A n \in new :
        /\ n.window = i
        /\ \/ \E s \in snap[o] : ~s.recorded /\ n = Recorded(s, "FAULT") /\ SameRow(s, n)
           \/ n.key \in keys /\ n = Recorded(Opened(i, n.key, held[o].attempt), "FAULT")
                             /\ n.attempt = held[o].attempt
  <2>1. new = EndingRows(o, "FAULT", keys) /\ keys \in SUBSET (Sources \ {r.key : r \in snap[o]})
    BY FinishRowsAre
  <2> HIDE DEF new, keys
  <2> SUFFICES ASSUME NEW n \in EndingRows(o, "FAULT", keys)
               PROVE  /\ n.window = i
                      /\ \/ \E s \in snap[o] : /\ ~s.recorded /\ n = Recorded(s, "FAULT")
                                               /\ SameRow(s, n)
                         \/ /\ n.key \in keys
                            /\ n = Recorded(Opened(i, n.key, held[o].attempt), "FAULT")
                            /\ n.attempt = held[o].attempt
    BY <2>1
  <2> QED
    BY <1>1, <2>1, EndingFacts
<1>5. \A s \in snap[o] : ~s.recorded => Recorded(s, "FAULT") \in new
  BY DEF FinishRows, CloseAll
<1>6. \A j \in keys : Recorded(Opened(i, j, held[o].attempt), "FAULT") \in new
  BY DEF FinishRows, Unreached
<1>7. \A t \in Latest(rows, i, k) : Settled(t.result)
  BY <1>1 DEF Outcome
<1> HIDE DEF new, keys
\* Nothing a finish writes is settled.
<1>8. \A n \in new : ~Settled(n.result)
  <2> SUFFICES ASSUME NEW n \in new PROVE n.result = "FAULT"
    BY DEF Settled
  <2>1. CASE \E s \in snap[o] : n = Recorded(s, "FAULT")
    BY <1>1, <2>1, RecordedFacts
  <2>2. CASE n = Recorded(Opened(i, n.key, held[o].attempt), "FAULT")
    BY <2>2 DEF Recorded, Opened
  <2> QED
    BY <1>4, <2>1, <2>2
<1>9. \A t \in rows : t.attempt <= runs[i].attempt
  <2> SUFFICES ASSUME NEW t \in rows PROVE t.attempt <= runs[i].attempt
    OBVIOUS
  <2>1. CASE t \in snap[o]
    BY <1>3, <2>1
  <2>2. CASE t \in new
    BY <1>1, <1>3, <1>4, <2>2 DEF SameRow
  <2> QED
    BY <2>1, <2>2 DEF Saved
<1>10. Of(rows, i, k) # {}
  <2>1. CASE k \in keys
    <3> DEFINE n == Recorded(Opened(i, k, held[o].attempt), "FAULT")
    <3>1. n \in rows /\ n.window = i /\ n.key = k
      BY <1>6, <2>1 DEF Saved, Recorded, Opened
    <3> QED
      BY <3>1 DEF Of
  <2>2. CASE k \notin keys
    <3>1. PICK s \in snap[o] : s.key = k
      BY <2>2 DEF keys
    <3>2. \E t \in rows : SameRow(s, t)
      BY SavedSlots
    <3> QED
      BY <1>3, <3>1, <3>2 DEF SameRow, Of
  <2> QED
    BY <2>1, <2>2
<1>11. PICK t \in Latest(rows, i, k) : TRUE
  BY <1>1, <1>2, <1>9, <1>10, LatestExists DEF Of
<1>12. /\ t \in snap[o] /\ t.window = i /\ t.key = k /\ t.recorded /\ Settled(t.result)
  <2>1. t \in rows /\ t.window = i /\ t.key = k /\ Settled(t.result)
    BY <1>7 DEF Latest, Of
  <2>2. t \in snap[o] /\ \A n \in new : ~SameRow(t, n)
    BY <1>8, <2>1 DEF Saved
  <2>3. t.recorded
    BY <1>1, <1>5, <2>2, RecordedFacts
  <2> QED
    BY <2>1, <2>2, <2>3
<1>13. ASSUME NEW s \in Of(snap[o], i, k) PROVE s.attempt <= t.attempt
  <2>1. PICK u \in rows : SameRow(s, u)
    BY SavedSlots DEF Of
  <2>2. u \in Of(rows, i, k) /\ u.attempt = s.attempt
    BY <2>1 DEF Of, SameRow
  <2> QED
    BY <2>2 DEF Latest
<1>14. t \in Latest(snap[o], i, k)
  BY <1>12, <1>13 DEF Latest, Of
<1> QED
  BY <1>12, <1>14 DEF SettledAt

LEMMA SuccessStep ==
  ASSUME ShortTransactions, TypeInv, RowInv, SuccessMeansSettled, [Next]_vars
  PROVE  SuccessMeansSettled'
<1> SUFFICES ASSUME NEW i \in Windows, runs'[i].status = "SUCCESS", NEW k \in Sources
             PROVE  SettledAt(sources', i, k)
  BY DEF SuccessMeansSettled
<1>1. SettledAt(sources, i, k)
  <2>1. CASE runs[i].status = "SUCCESS"
    BY <2>1 DEF SuccessMeansSettled
  <2>2. CASE runs[i].status # "SUCCESS"
    <3>1. runs[i] \in Runs
      BY DEF TypeInv, TablesOK
    <3>2. ~Takes(i)
      BY <3>1, ClaimedType DEF Takes
    <3>3. PICK o \in Instances, soon \in BOOLEAN : FinishWrite(o, soon) /\ mine[o] = i
      BY <2>2, <3>2, AttemptStep DEF KeepsAttempt, FinishesRun
    <3> DEFINE outcome ==
                 Outcome(UNION {Latest(Saved(snap[o], FinishRows(o)), mine[o], j) : j \in Keys})
               retry == /\ soon /\ mine[o] = now
                        /\ outcome \in {"PARTIAL", "FAILED"}
                        /\ held[o].attempt < MaxAttempts
                        /\ \E r \in UNION {Latest(Saved(snap[o], FinishRows(o)), mine[o], j) :
                                             j \in Keys} : Retryable(r.result)
    <3>4. \/ UNCHANGED runs
          \/ runs' = [runs EXCEPT ![i] = [Ended(held[o], outcome) EXCEPT !.retry = retry]]
      BY <3>3 DEF FinishWrite
    <3> HIDE DEF outcome, retry
    <3>5. [Ended(held[o], outcome) EXCEPT !.retry = retry].status = outcome
      BY DEF Ended
    <3>6. outcome = "SUCCESS"
      BY <2>2, <3>4, <3>5 DEF TypeInv, TablesOK
    <3>7. AtEnd(o)
      BY <3>3 DEF FinishWrite, RowInv, AtRow
    <3>8. SettledAt(snap[o], i, k)
      BY <3>3, <3>6, <3>7, SuccessInCopy DEF outcome
    <3>9. /\ snap[o] \in SUBSET SourceRows /\ Tidy(snap[o])
          /\ Weakened({r \in snap[o] : r.window = i}, {r \in sources : r.window = i})
      BY <3>3, <3>7 DEF TypeInv, LocalsOK, AtEnd, RowsOf, Weakened, Kept, SameRow
    <3>10. Of(sources, i, k) = Of(snap[o], i, k)
      BY <3>8, <3>9, WeakenedKeepsSettled
    <3> QED
      BY <3>8, <3>10 DEF SettledAt, Latest
  <2> QED
    BY <2>1, <2>2
<1>2. Of(sources', i, k) = Of(sources, i, k)
  BY <1>1, SettledStep
<1> QED
  BY <1>1, <1>2 DEF SettledAt, Latest

\* R3 for any number of instances, windows, sources and faults, as long as no claim commits
\* between a check and its write: a window that is SUCCESS has every required source observed
\* to its end, though the finish decides from a copy of the rows (RunOutcomeRule, finish).
THEOREM SuccessIsSettled ==
  ASSUME ShortTransactions
  PROVE  Spec => []SuccessMeansSettled
<1>1. Init => SuccessMeansSettled
  BY DEF Init, SuccessMeansSettled, Queued, NoRun
<1>2. TypeInv /\ RowInv /\ SuccessMeansSettled /\ [Next]_vars => SuccessMeansSettled'
  BY SuccessStep
<1> QED
  BY <1>1, <1>2, RowInvariant, PTL DEF Spec

-----------------------------------------------------------------------------
(* The contract.  A run that is RUNNING has had an attempt, and one that    *)
(* somebody is about to write is not SUCCESS yet.                           *)

BusyInv == /\ \A i \in Windows : runs[i].status = "RUNNING" => runs[i].attempt > 0
           /\ \A o \in Instances : pc[o] \in MidTransaction =>
                runs[mine[o]].status # "SUCCESS" /\ runs[mine[o]].attempt > 0

LEMMA InitBusy == Init => BusyInv
  BY DEF Init, BusyInv, MidTransaction, Queued, NoRun

LEMMA StartsByClaim == ASSUME TypeInv, [Next]_vars, ~Claims PROVE NoStart
  BY StepKinds, QueuesStartNothing, HandBackStartsNothing

LEMMA ClaimedAttempt ==
  ASSUME NEW run \in Runs, NEW o \in Instances
  PROVE  /\ Claimed(run, o).attempt = run.attempt + 1 /\ Claimed(run, o).attempt > 0
         /\ Claimed(run, o).status = "RUNNING" /\ Claimed(run, o).owner = o
  BY DEF Claimed, Runs

LEMMA BusyStep ==
  ASSUME ShortTransactions, TypeInv, RowInv, BusyInv, [Next]_vars
  PROVE  BusyInv'
<1>1. \A i \in Windows : runs[i] \in Runs
  BY DEF TypeInv, TablesOK
<1>2. ASSUME NEW i \in Windows, runs'[i].status = "RUNNING"
      PROVE  runs'[i].attempt > 0
  <2>1. CASE Takes(i)
    BY <1>1, <2>1, ClaimedAttempt DEF Takes
  <2>2. CASE ~Takes(i)
    <3>1. KeepsAttempt(i)
      BY <2>2, AttemptStep
    <3>2. CASE NoStart
      BY <1>2, <3>1, <3>2 DEF NoStart, BusyInv, KeepsAttempt
    <3>3. CASE Claims
      <4>1. PICK o \in Instances, seen \in SUBSET Claimable : Claim(o, seen)
        BY <3>3 DEF Claims
      <4>2. PICK j \in Startable(seen) :
              /\ Undisturbed(j)
              /\ runs' = [w \in Windows |->
                   IF w = j THEN Claimed(runs[j], o)
                   ELSE IF w \in seen /\ w < j /\ Stale(w) THEN PutAway(runs[w]) ELSE runs[w]]
              /\ mine' = [mine EXCEPT ![o] = j]
        BY <4>1 DEF Claim
      <4>3. i = j => Takes(i)
        BY <4>1, <4>2 DEF Claim, Takes, TypeInv, LocalsOK
      <4>4. runs'[i] \in {PutAway(runs[i]), runs[i]}
        BY <2>2, <4>2, <4>3
      <4>5. runs'[i] = runs[i]
        BY <1>1, <1>2, <4>4, PutAwayType
      <4> QED
        BY <1>2, <4>5 DEF BusyInv
    <3> QED
      BY <3>2, <3>3, StartsByClaim
  <2> QED
    BY <2>1, <2>2
<1>3. ASSUME NEW p \in Instances, pc'[p] \in MidTransaction
      PROVE  runs'[mine'[p]].status # "SUCCESS" /\ runs'[mine'[p]].attempt > 0
  <2>1. /\ mine'[p] = mine[p] /\ mine[p] \in Windows
        /\ pc[p] \in MidTransaction \/ Held(p)
    BY <1>3, StepChecked DEF Checked, TypeInv, LocalsOK
  <2>2. runs[mine[p]].status # "SUCCESS" /\ runs[mine[p]].attempt > 0
    BY <2>1 DEF BusyInv, Held
  <2>3. CASE Takes(mine[p])
    BY <1>1, <2>1, <2>3, ClaimedAttempt DEF Takes
  <2>4. CASE KeepsAttempt(mine[p])
    <3>1. ~FinishesRun(mine[p])
      <4> SUFFICES ASSUME NEW o \in Instances, NEW soon \in BOOLEAN,
                          FinishWrite(o, soon), mine[o] = mine[p]
                   PROVE  FALSE
        BY DEF FinishesRun
      <4>1. pc[o] = "finishing"
        BY DEF FinishWrite
      <4>2. pc'[o] \in {"idle", "finish"}
        BY DEF FinishWrite, FinishAgain, Leave, Goto, TypeInv, LocalsOK
      <4>3. o # p
        BY <1>3, <4>2 DEF MidTransaction
      <4>4. pc'[p] = pc[p]
        BY <4>3 DEF FinishWrite, FinishAgain, Leave, Goto, TypeInv, LocalsOK
      <4> QED
        BY <1>3, <4>1, <4>3, <4>4 DEF RowInv, MidOne, MidTransaction
    <3> QED
      BY <2>1, <2>2, <2>4, <3>1 DEF KeepsAttempt
  <2> QED
    BY <2>1, <2>3, <2>4, AttemptStep
<1> QED
  BY <1>2, <1>3 DEF BusyInv

-----------------------------------------------------------------------------
(* A source is settled by the one save of its observation.                  *)

\* A table with the same slots, and no new settled row of a source, settles nothing more.
LEMMA NothingSettled ==
  ASSUME NEW old, NEW new, NEW i, NEW k,
         \A r \in old : \E s \in new : SameRow(r, s),
         \A t \in new : t.window = i /\ t.key = k /\ t.recorded /\ Settled(t.result) => t \in old,
         SettledAt(new, i, k)
  PROVE  SettledAt(old, i, k)
<1>1. PICK r \in Latest(new, i, k) : r.recorded /\ Settled(r.result)
  BY DEF SettledAt
<1>2. r \in Of(old, i, k)
  BY <1>1 DEF Latest, Of
<1>3. ASSUME NEW s \in Of(old, i, k) PROVE s.attempt <= r.attempt
  <2>1. PICK t \in new : SameRow(s, t)
    BY DEF Of
  <2>2. t \in Of(new, i, k) /\ t.attempt = s.attempt
    BY <2>1 DEF Of, SameRow
  <2> QED
    BY <1>1, <2>2 DEF Latest
<1> QED
  BY <1>1, <1>2, <1>3 DEF SettledAt, Latest

Saves(o, i, k) == (Recover(o) \/ Record(o)) /\ mine[o] = i /\ at[o] = k

\* What a step other than the save of an observation adds or changes is not settled.
LEMMA NewRowsUnsettled ==
  ASSUME TypeInv, RowInv, [Next]_vars, NEW i \in Windows, NEW k \in Sources,
         ~\E o \in Instances : Saves(o, i, k),
         NEW t \in sources', t.window = i, t.key = k, t.recorded, Settled(t.result)
  PROVE  t \in sources
<1>1. CASE UNCHANGED sources
  BY <1>1
<1>2. ASSUME NEW u \in SUBSET SourceRows, NEW result \in {"REFUSED", "FAULT"},
             NEW n \in CloseAll(u, result)
      PROVE  ~Settled(n.result)
  <2>1. PICK s \in u : n = Recorded(s, result)
    BY DEF CloseAll
  <2> QED
    BY <2>1, RecordedFacts DEF Results, Settled
<1>3. ASSUME NEW o \in Instances, NEW seen \in SUBSET Claimable, Retire(o, seen)
      PROVE  t \in sources
  <2> DEFINE u == UNION {RowsOf(j) : j \in {w \in seen : runs[w].status \in {"PENDING", "RUNNING"}}}
  <2>1. sources' = Saved(sources, CloseAll(u, "REFUSED"))
    BY <1>3 DEF Retire
  <2>2. u \in SUBSET SourceRows
    BY DEF TypeInv, TablesOK, RowsOf
  <2> HIDE DEF u
  <2> QED
    BY <1>2, <2>1, <2>2 DEF Saved
<1>4. ASSUME NEW o \in Instances, NEW result \in Observed, Observe(o, result)
      PROVE  t \in sources
  <2>1. PICK r \in sources : t = IF SameRow(r, row[o]) /\ ~r.recorded
                                 THEN [r EXCEPT !.result = result] ELSE r
    BY <1>4 DEF Observe
  <2>2. [r EXCEPT !.result = result].recorded = r.recorded
    BY DEF TypeInv, TablesOK, SourceRows
  <2> QED
    BY <2>1, <2>2
<1>5. ASSUME NEW o \in Instances, Insert(o)
      PROVE  t \in sources
  <2>1. row[o] = Opened(mine[o], at[o], runs[mine[o]].attempt)
    BY <1>5 DEF Insert, RowInv, AtRow, AtOpening, Fresh
  <2>2. ~row[o].recorded
    BY <2>1 DEF Opened
  <2> QED
    BY <1>5, <2>2 DEF Insert
<1>6. ASSUME NEW o \in Instances, Recover(o) \/ Record(o)
      PROVE  t \in sources
  <2>1. Placed(o) /\ sources' = Saved(sources, {row[o]})
    BY <1>6 DEF Recover, Record, RowInv, AtRow, AtRecovering, AtRecording
  <2> QED
    BY <1>6, <2>1 DEF Placed, Saves, Saved
<1>7. ASSUME NEW o \in Instances, NEW soon \in BOOLEAN, FinishWrite(o, soon), ~UNCHANGED sources
      PROVE  t \in sources
  <2>1. sources' = Saved(sources, FinishRows(o)) /\ snap[o] \in SUBSET SourceRows
    BY <1>7, FinishedRun DEF TypeInv, LocalsOK
  <2>2. \A n \in Unreached(o) : n.result = "FAULT"
    BY DEF Unreached, Recorded, Opened
  <2>3. \A n \in FinishRows(o) : ~Settled(n.result)
    BY <1>2, <2>1, <2>2 DEF FinishRows, Settled
  <2> QED
    BY <2>1, <2>3 DEF Saved
<1>8. ASSUME NEW o \in Instances, CancelWrite(o)
      PROVE  t \in sources
  <2>1. /\ sources' = Saved(sources, CloseAll(snap[o], "REFUSED"))
        /\ snap[o] \in SUBSET SourceRows
    BY <1>8 DEF CancelWrite, TypeInv, LocalsOK
  <2> QED
    BY <1>2, <2>1 DEF Saved
<1>9. CASE \E o \in Instances : Tick(o)
  BY <1>1, <1>3, <1>9 DEF Tick, Materialize, Sweep, Claim
<1>10. CASE \E o \in Instances : Work(o)
  BY <1>1, <1>4, <1>5, <1>6, <1>7, <1>8, <1>10 DEF Work, LeaseLost, HandedBack, SkipSettled,
     BeginRecovery, BeginSource, BeginDevice, SkipDevice, FinishRead, tables
<1>11. CASE \/ WindowPasses \/ StartWorking \/ HandBackWrite \/ UNCHANGED vars
            \/ \E target \in {"PAUSED", "STOPPED"} : HandBackRead(target)
            \/ \E o \in Instances : Heartbeat(o) \/ Throw(o) \/ FinishFails(o) \/ Crash(o)
            \/ \E j \in Windows : LeaseLapses(j) \/ Stall(j)
  BY <1>1, <1>11 DEF WindowPasses, StartWorking, HandBackWrite, vars, tables, HandBackRead,
     Heartbeat, Throw, FinishFails, Crash, LeaseLapses, Stall, Lapse
<1> QED
  BY <1>9, <1>10, <1>11 DEF Next

LEMMA SettlesBySave ==
  ASSUME TypeInv, RowInv, [Next]_vars, NEW i \in Windows, NEW k \in Sources,
         ~\E o \in Instances : Saves(o, i, k)
  PROVE  SettledAt(sources', i, k) = SettledAt(sources, i, k)
<1>1. SettledAt(sources', i, k) => SettledAt(sources, i, k)
  BY SlotsStay, NewRowsUnsettled, NothingSettled
<1>2. SettledAt(sources, i, k) => SettledAt(sources', i, k)
  <2> SUFFICES ASSUME SettledAt(sources, i, k) PROVE SettledAt(sources', i, k)
    OBVIOUS
  <2>1. Of(sources', i, k) = Of(sources, i, k)
    BY SettledStep
  <2> QED
    BY <2>1 DEF SettledAt, Latest
<1> QED
  BY <1>1, <1>2 DEF SettledAt

-----------------------------------------------------------------------------
(* What the rows say of the contract's variables.                           *)

holderNow == [i \in Windows |-> IF runs[i].status = "RUNNING" THEN runs[i].owner ELSE NoOne]
attemptNow == [i \in Windows |-> runs[i].attempt]
settledNow == {p \in Windows \X Sources : SettledAt(sources, p[1], p[2])}
reportedNow == {i \in Windows : runs[i].status = "SUCCESS"}
contractVars == <<holderNow, attemptNow, settledNow, reportedNow>>

\* What is reported is lost by a hand-back only.
SameReports == \A i \in Windows : runs'[i].status = "SUCCESS" <=> runs[i].status = "SUCCESS"
SameAttempts == \A i \in Windows : runs'[i].attempt = runs[i].attempt

LEMMA SettledUnlessSaved ==
  ASSUME TypeInv, RowInv, [Next]_vars, ~\E o \in Instances : Recover(o) \/ Record(o)
  PROVE  settledNow' = settledNow
<1>1. \A i \in Windows, k \in Sources : SettledAt(sources', i, k) = SettledAt(sources, i, k)
  BY SettlesBySave DEF Saves
<1> QED
  BY <1>1 DEF settledNow

\* An instance's save settles one source of its window, or none.
LEMMA SaveSettles ==
  ASSUME TypeInv, RowInv, BusyInv, [Next]_vars, NEW o \in Instances, Recover(o) \/ Record(o)
  PROVE  [Contract!Next]_contractVars
<1>1. /\ mine[o] \in Windows /\ pc[o] \in MidTransaction
      /\ UNCHANGED runs
  BY DEF TypeInv, LocalsOK, Recover, Record, MidTransaction
<1>2. ASSUME NEW p \in Instances, Recover(p) \/ Record(p) PROVE p = o
  <2>1. /\ pc[o] \in {"recovering", "recording"} /\ pc'[o] # pc[o]
        /\ pc' = [pc EXCEPT ![o] = pc'[o]]
    BY DEF Recover, Record, Advance, Carry, Leave, Goto, TypeInv, LocalsOK
  <2>2. pc[p] \in {"recovering", "recording"} /\ pc'[p] # pc[p]
    BY <1>2 DEF Recover, Record, Advance, Carry, Leave, Goto, TypeInv, LocalsOK
  <2> QED
    BY <2>1, <2>2 DEF TypeInv, LocalsOK
<1>3. \A i \in Windows, k \in Sources :
        ~(i = mine[o] /\ k = at[o]) => SettledAt(sources', i, k) = SettledAt(sources, i, k)
  BY <1>2, SettlesBySave DEF Saves
<1>4. CASE settledNow' = settledNow
  BY <1>1, <1>4 DEF contractVars, holderNow, attemptNow, reportedNow
<1>5. CASE settledNow' # settledNow
  <2>1. PICK i \in Windows, k \in Sources : SettledAt(sources', i, k) # SettledAt(sources, i, k)
    BY <1>5 DEF settledNow
  <2>2. i = mine[o] /\ k = at[o]
    BY <1>3, <2>1
  <2>3. SettledAt(sources, i, k) => SettledAt(sources', i, k)
    <3> SUFFICES ASSUME SettledAt(sources, i, k) PROVE SettledAt(sources', i, k)
      OBVIOUS
    <3>1. Of(sources', i, k) = Of(sources, i, k)
      BY SettledStep
    <3> QED
      BY <3>1 DEF SettledAt, Latest
  <2>4. SettledAt(sources', i, k)
    BY <2>1, <2>3 DEF SettledAt
  <2>5. settledNow' = settledNow \cup {<<i, k>>}
    BY <1>3, <2>2, <2>4 DEF settledNow
  <2>6. attemptNow[i] > 0
    BY <1>1, <2>2 DEF BusyInv, attemptNow
  <2>7. Contract!Settle(i, k)
    BY <1>1, <2>5, <2>6 DEF Contract!Settle, holderNow, attemptNow, settledNow, reportedNow
  <2> QED
    BY <2>7 DEF Contract!Next
<1> QED
  BY <1>4, <1>5

\* A step that starts nothing, counts nothing and reports nothing relieves those whose runs
\* it ends.
LEMMA RelievesOnly ==
  ASSUME NoStart, SameAttempts, SameReports, settledNow' = settledNow
  PROVE  Contract!Next
<1> PICK ended \in SUBSET Windows : ended = {i \in Windows : runs'[i].status # "RUNNING"}
  OBVIOUS
<1>1. holderNow' = [i \in Windows |-> IF i \in ended THEN NoOne ELSE holderNow[i]]
  BY DEF holderNow, NoStart
<1>2. attemptNow' = attemptNow /\ reportedNow' = reportedNow
  BY DEF SameAttempts, SameReports, attemptNow, reportedNow
<1>3. Contract!Relieve(ended)
  BY <1>1, <1>2 DEF Contract!Relieve, holderNow, attemptNow, settledNow, reportedNow
<1> QED
  BY <1>3 DEF Contract!Next

-----------------------------------------------------------------------------
(* Every step is a step of the contract, or none.                           *)

LEMMA ClaimTakes ==
  ASSUME TypeInv, NEW o \in Instances, NEW seen \in SUBSET Claimable, Claim(o, seen)
  PROVE  Contract!Next
<1>1. /\ \A w \in Windows : runs[w] \in Runs
      /\ \A w \in Windows : runs[w].retry => runs[w].status \in {"PARTIAL", "FAILED"}
  BY DEF TypeInv, TablesOK
<1>2. PICK i \in Startable(seen) :
        /\ OnlyRunning(i)
        /\ runs' = [w \in Windows |->
             IF w = i THEN Claimed(runs[i], o)
             ELSE IF w \in seen /\ w < i /\ Stale(w) THEN PutAway(runs[w]) ELSE runs[w]]
  BY DEF Claim
<1>3. i \in Windows /\ runs[i].status # "SUCCESS"
  BY <1>1, <1>2 DEF Startable, Claimable
<1>4. \A w \in Windows \ {i} : runs[w].status # "RUNNING"
  BY <1>2 DEF OnlyRunning
<1>5. /\ runs'[i].attempt = runs[i].attempt + 1
      /\ runs'[i].status = "RUNNING" /\ runs'[i].owner = o
  BY <1>1, <1>2, <1>3, ClaimedAttempt
<1>6. ASSUME NEW w \in Windows \ {i}
      PROVE  /\ runs'[w].status # "RUNNING" /\ runs'[w].attempt = runs[w].attempt
             /\ runs'[w].status = "SUCCESS" <=> runs[w].status = "SUCCESS"
  <2>1. CASE w \in seen /\ w < i /\ Stale(w)
    <3>1. runs[w].status # "SUCCESS" /\ runs'[w] = PutAway(runs[w])
      BY <1>1, <1>2, <2>1 DEF Claimable
    <3> QED
      BY <1>1, <3>1, PutAwayType, PutAwayAttempt
  <2>2. CASE ~(w \in seen /\ w < i /\ Stale(w))
    BY <1>2, <1>4, <2>2
  <2> QED
    BY <2>1, <2>2
<1>7. UNCHANGED sources
  BY DEF Claim
<1>8. /\ i \notin reportedNow
      /\ \A j \in Windows \ {i} : holderNow[j] = NoOne
  BY <1>3, <1>4 DEF reportedNow, holderNow
<1>9. holderNow' = [holderNow EXCEPT ![i] = o]
  BY <1>3, <1>4, <1>5, <1>6 DEF holderNow
<1>10. attemptNow' = [attemptNow EXCEPT ![i] = @ + 1]
  BY <1>3, <1>5, <1>6 DEF attemptNow
<1>11. settledNow' = settledNow /\ reportedNow' = reportedNow
  BY <1>3, <1>5, <1>6, <1>7 DEF settledNow, reportedNow
<1>12. Contract!Take(i, o)
  BY <1>8, <1>9, <1>10, <1>11
     DEF Contract!Take, holderNow, attemptNow, settledNow, reportedNow
<1> QED
  BY <1>3, <1>12 DEF Contract!Next

\* The other changes of runs in a tick: queued and lapsed ones are put away, missing ones made.
LEMMA TickReportsNothing ==
  ASSUME TypeInv, Unborn, NEW o \in Instances,
         \/ Materialize(o)
         \/ \E seen \in SUBSET Claimable : Retire(o, seen) \/ Sweep(o, seen)
  PROVE  SameAttempts /\ SameReports
<1>1. /\ \A w \in Windows : runs[w] \in Runs
      /\ \A w \in Windows : runs[w].retry => runs[w].status \in {"PARTIAL", "FAILED"}
      /\ \A w \in Windows : runs[w].status = "NONE" => runs[w].attempt = 0
  BY DEF TypeInv, TablesOK, Unborn
<1>2. CASE Materialize(o)
  BY <1>1, <1>2 DEF Materialize, Materialized, Queued, NoRun, Ended, SameAttempts, SameReports
<1>3. ASSUME NEW seen \in SUBSET Claimable, Retire(o, seen) \/ Sweep(o, seen)
      PROVE  SameAttempts /\ SameReports
  <2> SUFFICES ASSUME NEW i \in Windows
               PROVE  /\ runs'[i].attempt = runs[i].attempt
                      /\ runs'[i].status = "SUCCESS" <=> runs[i].status = "SUCCESS"
    BY DEF SameAttempts, SameReports
  <2>1. \/ runs'[i] = runs[i]
        \/ i \in seen /\ runs'[i] = PutAway(runs[i])
    BY <1>3 DEF Retire, Sweep
  <2>2. i \in seen => runs[i].status # "SUCCESS"
    BY <1>1 DEF Claimable
  <2> QED
    BY <1>1, <2>1, <2>2, PutAwayType, PutAwayAttempt
<1> QED
  BY <1>2, <1>3

LEMMA LeaseReportsNothing ==
  ASSUME TypeInv,
         (\E o \in Instances : Heartbeat(o)) \/ (\E j \in Windows : Lapse(j))
  PROVE  SameAttempts /\ SameReports
<1> SUFFICES ASSUME NEW i \in Windows
             PROVE  runs'[i].status = runs[i].status /\ runs'[i].attempt = runs[i].attempt
  BY DEF SameAttempts, SameReports
<1>1. \A j \in Windows : runs[j] \in Runs
  BY DEF TypeInv, TablesOK
<1>2. CASE \E o \in Instances : Heartbeat(o)
  BY <1>1, <1>2 DEF TypeInv, TablesOK, LocalsOK, Heartbeat, Runs
<1>3. CASE \E j \in Windows : Lapse(j)
  BY <1>1, <1>3 DEF TypeInv, TablesOK, Lapse, Runs
<1> QED
  BY <1>2, <1>3

LEMMA StartReportsNothing ==
  ASSUME TypeInv, Unborn, StartWorking PROVE SameAttempts /\ SameReports
<1>1. /\ runs \in [Windows -> Runs] /\ now \in Windows
      /\ \A w \in Windows : runs[w].status = "NONE" => runs[w].attempt = 0
  BY DEF TypeInv, TablesOK, Unborn
<1> QED
  BY <1>1 DEF StartWorking, Queued, NoRun, Ended, SameAttempts, SameReports

\* A hand-back takes back reports made since it read the runs, and relieves nobody.
LEMMA HandBackWithdraws ==
  ASSUME TypeInv, FenceInv, RowInv, HandBackWrite
  PROVE  Contract!Next
<1> DEFINE unretried(i) == [copies[i] EXCEPT !.retry = FALSE]
<1>1. ASSUME NEW i \in Windows
      PROVE  /\ runs'[i].attempt = runs[i].attempt
             /\ \/ runs'[i] = runs[i]
                \/ /\ runs'[i].status \notin {"RUNNING", "SUCCESS"}
                   /\ runs[i].status # "RUNNING"
  <2>1. /\ copies[i] \in Runs
        /\ copies[i].retry => copies[i].status \in {"PARTIAL", "FAILED"}
    BY DEF TypeInv, SellerOK
  <2>2. copies[i].status = "PENDING" \/ copies[i].retry =>
          runs[i].status # "RUNNING" /\ copies[i].attempt = runs[i].attempt
    BY DEF HandBackWrite, FenceInv, BackInv, RowInv, BackAttempt
  <2>3. /\ unretried(i).status = copies[i].status
        /\ unretried(i).attempt = copies[i].attempt
    BY <2>1 DEF Runs
  <2>4. /\ Ended(copies[i], "CANCELLED").status = "CANCELLED"
        /\ Ended(copies[i], "CANCELLED").attempt = copies[i].attempt
    BY DEF Ended
  <2>5. runs'[i] = IF copies[i].status = "PENDING" THEN Ended(copies[i], "CANCELLED")
                   ELSE IF copies[i].retry THEN unretried(i) ELSE runs[i]
    BY DEF HandBackWrite
  <2> HIDE DEF unretried
  <2> QED
    BY <2>1, <2>2, <2>3, <2>4, <2>5
<1>2. holderNow' = holderNow /\ attemptNow' = attemptNow
  BY <1>1 DEF holderNow, attemptNow
<1> PICK given \in SUBSET Windows : given = reportedNow \ reportedNow'
  BY DEF reportedNow
<1>3. reportedNow' = reportedNow \ given
  BY <1>1 DEF reportedNow
<1>4. settledNow' = settledNow
  BY DEF HandBackWrite, settledNow
<1>5. Contract!Withdraw(given)
  BY <1>2, <1>3, <1>4 DEF Contract!Withdraw, holderNow, attemptNow, settledNow, reportedNow
<1> QED
  BY <1>5 DEF Contract!Next

\* Who ends a run reports it or is relieved of it.
LEMMA EndReports ==
  ASSUME TypeInv, RowInv, BusyInv, SuccessMeansSettled', NoStart, settledNow' = settledNow,
         NEW o \in Instances,
         (\E soon \in BOOLEAN : FinishWrite(o, soon)) \/ CancelWrite(o)
  PROVE  [Contract!Next]_contractVars
<1> PICK i \in Windows : i = mine[o]
  BY DEF TypeInv, LocalsOK
<1>1. /\ runs \in [Windows -> Runs]
      /\ pc[o] \in {"finishing", "cancelling"}
      /\ held[o].attempt = runs[i].attempt
      /\ runs[i].status # "SUCCESS" /\ runs[i].attempt > 0
  BY DEF TypeInv, TablesOK, LocalsOK, FinishWrite, CancelWrite, BusyInv, MidTransaction,
         RowInv, AtRow, AtEnd
<1>2. CASE UNCHANGED runs
  BY <1>2 DEF contractVars, holderNow, attemptNow, reportedNow
<1>3. CASE ~UNCHANGED runs
  <2>1. /\ \A w \in Windows \ {i} : runs'[w] = runs[w]
        /\ runs'[i].attempt = runs[i].attempt
        /\ runs'[i].status # "RUNNING"
    <3>1. CASE CancelWrite(o)
      BY <1>1, <3>1 DEF CancelWrite, Ended
    <3>2. CASE \E soon \in BOOLEAN : FinishWrite(o, soon)
      <4>1. PICK outcome \in {"SUCCESS", "FAILED", "PARTIAL"}, retry \in BOOLEAN :
              runs' = [runs EXCEPT ![i] = [Ended(held[o], outcome) EXCEPT !.retry = retry]]
        BY <1>3, <3>2, FinishedRun
      <4> DEFINE run == [Ended(held[o], outcome) EXCEPT !.retry = retry]
      <4>2. run.attempt = held[o].attempt /\ run.status = outcome
        BY DEF Ended
      <4>3. \A w \in Windows : runs'[w] = IF w = i THEN run ELSE runs[w]
        BY <1>1, <4>1
      <4> HIDE DEF run
      <4> QED
        BY <1>1, <4>2, <4>3
    <3> QED
      BY <3>1, <3>2
  <2>2. CASE runs'[i].status # "SUCCESS"
    <3>1. SameAttempts /\ SameReports
      BY <1>1, <2>1, <2>2 DEF SameAttempts, SameReports
    <3> QED
      BY <3>1, RelievesOnly
  <2>3. CASE runs'[i].status = "SUCCESS"
    <3>1. holderNow' = [holderNow EXCEPT ![i] = NoOne]
      BY <1>1, <2>1 DEF holderNow
    <3>2. attemptNow' = attemptNow /\ attemptNow[i] > 0
      BY <1>1, <2>1 DEF attemptNow
    <3>3. reportedNow' = reportedNow \cup {i}
      BY <1>1, <2>1, <2>3 DEF reportedNow
    <3>4. \A k \in Sources : <<i, k>> \in settledNow
      <4>1. \A k \in Sources : SettledAt(sources', i, k)
        BY <1>1, <2>3 DEF SuccessMeansSettled
      <4>2. \A k \in Sources : <<i, k>> \in settledNow'
        BY <1>1, <4>1 DEF settledNow
      <4> QED
        BY <4>2
    <3>5. Contract!Report(i)
      BY <3>1, <3>2, <3>3, <3>4
         DEF Contract!Report, holderNow, attemptNow, settledNow, reportedNow
    <3> QED
      BY <1>1, <3>5 DEF Contract!Next
  <2> QED
    BY <2>2, <2>3
<1> QED
  BY <1>2, <1>3

\* As long as no claim commits between a check and its write, every step of any number of
\* instances, with leases that lapse under a live holder, crashes, retries, hand-backs and
\* saves of whole stale rows, is a step of the contract or none: an attempt has one holder,
\* what is settled stays, and SUCCESS is said of a window whose sources are settled.
THEOREM RuntimeKeepsTheContract ==
  ASSUME ShortTransactions
  PROVE  Spec => ImplementsWindowContract
<1>1. Init => Contract!Init
  BY DEF Init, Queued, NoRun, SettledAt, Latest, Of, Contract!Init
<1>2. TypeInv /\ FenceInv /\ RowInv /\ BusyInv /\ SuccessMeansSettled /\ [Next]_vars
        => [Contract!Next]_contractVars
  <2> SUFFICES ASSUME TypeInv, FenceInv, RowInv, BusyInv, SuccessMeansSettled, [Next]_vars
               PROVE  [Contract!Next]_contractVars
    OBVIOUS
  <2>1. SuccessMeansSettled' /\ Unborn
    BY SuccessStep DEF RowInv
  <2>2. CASE \E o \in Instances : Recover(o) \/ Record(o)
    BY <2>2, SaveSettles
  <2>3. CASE Claims
    BY <2>3, ClaimTakes DEF Claims
  <2>4. CASE HandBackWrite
    BY <2>4, HandBackWithdraws
  <2>5. CASE ~(\E o \in Instances : Recover(o) \/ Record(o)) /\ ~Claims /\ ~HandBackWrite
    <3>1. NoStart /\ settledNow' = settledNow
      BY <2>5, StartsByClaim, SettledUnlessSaved
    <3>2. CASE SameAttempts /\ SameReports
      BY <3>1, <3>2, RelievesOnly
    <3>3. CASE UNCHANGED runs
      BY <3>2, <3>3 DEF SameAttempts, SameReports
    <3>4. CASE StartWorking
      BY <2>1, <3>2, <3>4, StartReportsNothing
    <3>5. CASE \E o \in Instances : Tick(o)
      BY <2>1, <2>5, <3>2, <3>5, TickReportsNothing DEF Tick, Claims
    <3>6. CASE \E o \in Instances : Work(o)
      <4>1. PICK o \in Instances : Work(o)
        BY <3>6
      <4>2. CASE (\E soon \in BOOLEAN : FinishWrite(o, soon)) \/ CancelWrite(o)
        BY <2>1, <3>1, <4>2, EndReports
      <4>3. CASE ~((\E soon \in BOOLEAN : FinishWrite(o, soon)) \/ CancelWrite(o))
        BY <3>3, <4>1, <4>3 DEF Work, LeaseLost, HandedBack, SkipSettled, BeginRecovery,
           BeginSource, Recover, Insert, Observe, Record, BeginDevice, SkipDevice, FinishRead,
           tables
      <4> QED
        BY <4>2, <4>3
    <3>7. CASE (\E o \in Instances : Heartbeat(o)) \/ (\E j \in Windows : Lapse(j))
      BY <3>2, <3>7, LeaseReportsNothing
    <3>8. CASE \/ WindowPasses \/ UNCHANGED vars
               \/ \E target \in {"PAUSED", "STOPPED"} : HandBackRead(target)
               \/ \E o \in Instances : Throw(o) \/ FinishFails(o) \/ Crash(o)
      BY <3>3, <3>8 DEF WindowPasses, vars, tables, HandBackRead, Throw, FinishFails, Crash
    <3> QED
      BY <2>5, <3>4, <3>5, <3>6, <3>7, <3>8 DEF Next, LeaseLapses, Stall
  <2> QED
    BY <2>2, <2>3, <2>4, <2>5
<1>3. Contract!Spec <=> Contract!Init /\ [][Contract!Next]_contractVars
  BY DEF Contract!Spec, contractVars, holderNow, attemptNow, settledNow, reportedNow
<1>4. Spec => []BusyInv
  BY InitBusy, BusyStep, RowInvariant, PTL DEF Spec
<1> QED
  BY <1>1, <1>2, <1>3, <1>4, RowInvariant, SuccessIsSettled, PTL DEF Spec, ImplementsWindowContract

=============================================================================
