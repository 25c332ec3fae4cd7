--------------------------- MODULE WindowContract ---------------------------
(***************************************************************************)
(* What working the windows of a responsibility promises, said without     *)
(* rows, leases, copies or crashes.  One worker at a time holds one        *)
(* window, under an attempt number of its own; a source of a window is     *)
(* settled once and for all, in some attempt; and a window is reported     *)
(* done only when all its sources are settled.  A worker may be relieved   *)
(* of its window at any time.  A report may be withdrawn, by a hand-back   *)
(* that began before it; what is settled is not.                           *)
(***************************************************************************)
EXTENDS Naturals

CONSTANTS Windows, Sources, Workers, Nobody

VARIABLES
  holder,    \* who works a window
  attempt,   \* how often a window has been taken up
  settled,   \* <<window, source>>: read to its end
  reported   \* the windows that are called done

Init ==
  /\ holder = [i \in Windows |-> Nobody]
  /\ attempt = [i \in Windows |-> 0]
  /\ settled = {}
  /\ reported = {}

\* The worker may take over from one that is gone.
Take(i, w) ==
  /\ i \notin reported
  /\ \A j \in Windows \ {i} : holder[j] = Nobody
  /\ holder' = [holder EXCEPT ![i] = w]
  /\ attempt' = [attempt EXCEPT ![i] = @ + 1]
  /\ UNCHANGED <<settled, reported>>

Settle(i, k) ==
  /\ attempt[i] > 0
  /\ settled' = settled \cup {<<i, k>>}
  /\ UNCHANGED <<holder, attempt, reported>>

Relieve(given) ==
  /\ holder' = [i \in Windows |-> IF i \in given THEN Nobody ELSE holder[i]]
  /\ UNCHANGED <<attempt, settled, reported>>

Report(i) ==
  /\ attempt[i] > 0
  /\ \A k \in Sources : <<i, k>> \in settled
  /\ reported' = reported \cup {i}
  /\ holder' = [holder EXCEPT ![i] = Nobody]
  /\ UNCHANGED <<attempt, settled>>

Withdraw(given) ==
  /\ reported' = reported \ given
  /\ UNCHANGED <<holder, attempt, settled>>

Next ==
  \/ \E i \in Windows : \/ \E w \in Workers : Take(i, w)
                        \/ \E k \in Sources : Settle(i, k)
                        \/ Report(i)
  \/ \E given \in SUBSET Windows : Relieve(given) \/ Withdraw(given)

Spec == Init /\ [][Next]_<<holder, attempt, settled, reported>>
=============================================================================
