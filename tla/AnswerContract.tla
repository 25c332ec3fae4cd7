--------------------------- MODULE AnswerContract ---------------------------
(***************************************************************************)
(* What answering an inquiry promises, said without rows, copies, threads, *)
(* crashes or attempts: one text is approved, nothing but that text goes   *)
(* out and only after the approval, and the product says the question is   *)
(* answered only when it is.  On a channel where the product can tell, the *)
(* text goes out at most once (Once) and the claim is made only of its own *)
(* answer (Own).  It may take the claim back - it then knows less, never   *)
(* more - and never takes back an answer.                                  *)
(***************************************************************************)
EXTENDS Sequences

CONSTANTS
  Contents,
  Once,      \* TRUE when the text goes out at most once
  Own        \* TRUE when only an answer of the product's own is claimed

VARIABLES
  approved,  \* the approved text: {} or a singleton
  sent,      \* what went out, in order
  others,    \* somebody else answered the question
  claimed    \* the product calls the question answered

Init == approved = {} /\ sent = <<>> /\ others = FALSE /\ claimed = FALSE

Approve ==
  /\ approved = {}
  /\ \E t \in Contents : approved' = {t}
  /\ UNCHANGED <<sent, others, claimed>>

Send ==
  /\ Once => sent = <<>>
  /\ \E t \in approved : sent' = Append(sent, t)
  /\ UNCHANGED <<approved, others, claimed>>

AnswerOfOthers ==
  /\ others' = TRUE
  /\ UNCHANGED <<approved, sent, claimed>>

Claim ==
  /\ sent # <<>> \/ (~Own /\ others)
  /\ claimed' = TRUE
  /\ UNCHANGED <<approved, sent, others>>

Retract ==
  /\ claimed' = FALSE
  /\ UNCHANGED <<approved, sent, others>>

Next == Approve \/ Send \/ AnswerOfOthers \/ Claim \/ Retract

Spec == Init /\ [][Next]_<<approved, sent, others, claimed>>
=============================================================================
