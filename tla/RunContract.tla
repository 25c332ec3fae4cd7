---------------------------- MODULE RunContract ----------------------------
(***************************************************************************)
(* What a checkpointed run promises, said without requests, leases, rows,   *)
(* drafts or crashes.  A text is shown before anyone answers; answers may    *)
(* bring texts of their own; one text is bound, once, and it was shown or    *)
(* brought; and one outcome is recorded, once, APPROVED only of a run that   *)
(* is bound.  Nothing is undone.  It is not promised that a run recorded as  *)
(* REJECTED binds nothing: a resume that outlives its lease may bind after.  *)
(***************************************************************************)
CONSTANTS Texts, None

VARIABLES
  shown,    \* the text the approver is shown, or None
  written,  \* the texts answers brought
  bound,    \* the text the run's command stands for, or None
  outcome   \* what the run is recorded as, or None

Init == shown = None /\ written = {} /\ bound = None /\ outcome = None

Show(t) ==
  /\ shown = None /\ written = {} /\ bound = None /\ outcome = None
  /\ shown' = t
  /\ UNCHANGED <<written, bound, outcome>>

Write(t) ==
  /\ written' = written \cup {t}
  /\ UNCHANGED <<shown, bound, outcome>>

Bind(t) ==
  /\ bound = None
  /\ t \in {shown} \cup written
  /\ bound' = t
  /\ UNCHANGED <<shown, written, outcome>>

Finish(o) ==
  /\ outcome = None
  /\ o = "APPROVED" => bound # None
  /\ outcome' = o
  /\ UNCHANGED <<shown, written, bound>>

Next ==
  \/ \E t \in Texts : Show(t) \/ Write(t) \/ Bind(t)
  \/ \E o \in {"APPROVED", "REJECTED"} : Finish(o)

Spec == Init /\ [][Next]_<<shown, written, bound, outcome>>
=============================================================================
