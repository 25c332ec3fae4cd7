----------------------------- MODULE LocalAgent -----------------------------
(***************************************************************************)
(* The local agent's process (cli/local-agent.ts): "an agent hosts one       *)
(* carrier".  What is checked of one process at a time is its resident slot  *)
(* (CarrierHost), or the carrier it hosts: an export run (ActionWindow) or a *)
(* segment of the review import (ImportRun).  A carrier is handed nothing by *)
(* the slot but its disposal, and the parts share no state, so a process is  *)
(* one of the three.                                                         *)
(***************************************************************************)
EXTENDS ActionWindow, CarrierHost, ImportRun

VARIABLE laPart  \* which part is looked at

laVars == <<laPart, awVars, chVars, imVars>>

LAInit == laPart \in {"slot", "export", "import"} /\ AWInit /\ CHInit /\ IMInit

LANext ==
  /\ \/ laPart = "slot" /\ CHNext /\ UNCHANGED <<awVars, imVars>>
     \/ laPart = "export" /\ AWNext /\ UNCHANGED <<chVars, imVars>>
     \/ laPart = "import" /\ IMNext /\ UNCHANGED <<awVars, chVars>>
  /\ UNCHANGED laPart

\* The fairness of the part looked at.
LAFairness ==
  /\ WF_chVars(laPart = "slot" /\ CHPoll)
  /\ \A i \in CHCarriers : WF_chVars(laPart = "slot" /\ CHDisposed(i))
  /\ \A c \in AWSlots : WF_awVars(laPart = "export" /\ AWCallEnds(c))
  /\ WF_awVars(laPart = "export" /\ AWBoot)
  /\ \A c \in IMSlots : WF_imVars(laPart = "import" /\ IMCallEnds(c))
  /\ WF_imVars(laPart = "import" /\ IMParkLeaves)
  /\ WF_imVars(laPart = "import" /\ IMParkProbes)

LASpec == LAInit /\ [][LANext]_laVars /\ LAFairness

-----------------------------------------------------------------------------
(* Properties *)

LATypeOK == AWTypeOK /\ CHTypeOK /\ IMTypeOK

\* A window that lost the slot goes down, whatever its release raced with, and a slot
\* held for nobody is freed.  The exception is what the code does when the tab that
\* asked for a handover or a recycle leaves before the old carrier is disposed of: the
\* continuation attaches the socket that is gone, no poll releases the carrier and no
\* other request can have the slot, for good.
LASlotIsFreed ==
  /\ CHStrayWindow ~> ~CHStrayWindow
  /\ CHHeldForNobody ~> ~CHHeldForNobody \/ CHDeadTab

\* A hosted run is not left behind: an export in a stage the agent drives goes on
\* to a stage it does not, and a parked import is looked at again without the
\* seller.
LARunOwed == AWOwesStep \/ IMAwaitsProbe
LARunMoves == LARunOwed ~> ~LARunOwed

=============================================================================
