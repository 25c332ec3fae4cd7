-------------------------- MODULE MCInquiryPublish --------------------------
(***************************************************************************)
(* Instances of InquiryPublish for TLC.  Seller threads are interchangeable *)
(* with one another, and so are jobs; a text and a command are CHOOSEn for  *)
(* the empty candidate, so those are not permuted.                         *)
(***************************************************************************)
EXTENDS InquiryPublish, TLC

RequestSymmetry == Permutations(Sellers) \cup Permutations(Jobs)
=============================================================================
