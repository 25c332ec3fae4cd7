--------------------------- MODULE AgentRunProofs ---------------------------
(***************************************************************************)
(* Proofs about AgentRun, for any number of resume requests, texts, people  *)
(* and faults: types; a finished run is never rewritten; a run recorded as  *)
(* approved is bound; only a text that was read is bound; one guided         *)
(* session is minted while no lease runs out; and a run keeps RunContract.  *)
(***************************************************************************)
EXTENDS AgentRun, TLAPS

ARActive(c) == arCall[c].pc \notin {"new", "ended"}
ARWriting == {"head", "save_draft", "confirm"}

-----------------------------------------------------------------------------
(* Types *)

\* A request that writes carries a text, a review that is resumed has shown one,
\* and no request gets anywhere before the run has its row.
ARTypeInv ==
  /\ ARTypeOK
  /\ arHead.version > 0 => arHead.text \in ARTexts
  /\ arSnap.version > 0 \/ arSnap = ARNoDraft
  /\ (arDomain = "REVIEW" /\ arRow.status # "none") => arSnap.version > 0
  /\ \A c \in ARCalls :
       /\ arCall[c].pc \in ARWriting => arCall[c].text \in ARTexts
       /\ arCall[c].pc = "approve" => arDomain = "REVIEW"
       /\ arCall[c].pc # "new" => arRow.status # "none"

LEMMA ARTypeInit == ARInit => ARTypeInv
<1> SUFFICES ASSUME ARInit PROVE ARTypeInv
  OBVIOUS
<1> USE ARAssumption DEF ARInit
<1>1. arHead \in ARDraft /\ arSnap \in ARDraft
  BY DEF ARDraft, ARNoDraft
<1>2. arRow \in ARRows
  BY DEF ARRows, AROutcomes
<1>3. ARRequest \in ARRequests
  BY DEF ARRequest, ARRequests, AROutcomes
<1>4. arCall \in [ARCalls -> ARRequests]
  BY <1>3
<1>5. arPerson \in 0..ARMaxPerson /\ arFaults \in 0..ARMaxFaults /\ arMints \in Nat
  OBVIOUS
<1>6. ARTypeOK
  BY <1>1, <1>2, <1>4, <1>5 DEF ARTypeOK
<1>7. QED
  BY <1>6 DEF ARTypeInv, ARNoDraft, ARRequest, ARWriting

\* A finished row is a row.
LEMMA ARDoneRow ==
  ASSUME NEW row \in ARRows, NEW o \in AROutcomes
  PROVE  [row EXCEPT !.status = "DONE", !.version = @ + 1, !.outcome = o] \in ARRows
<1>1. row.version + 1 \in Nat
  BY DEF ARRows
<1>2. QED
  BY <1>1 DEF ARRows

LEMMA ARTypeStep == ARTypeInv /\ [ARNext]_arVars => ARTypeInv'
<1> SUFFICES ASSUME ARTypeInv, [ARNext]_arVars PROVE ARTypeInv'
  OBVIOUS
<1> USE ARAssumption
        DEF ARTypeInv, ARTypeOK, ARDraft, ARNoDraft, ARWriting, ARRequests, ARGoto, AREnd, ARAt,
            arBackend, arWorld
<1>1. CASE ARPrepare
  BY <1>1 DEF ARPrepare, ARNewHead, ARCanSave
<1>2. CASE ARPark
  BY <1>2 DEF ARPark, ARRows, AROutcomes
<1>3. ASSUME NEW c \in ARCalls, NEW approved \in BOOLEAN, NEW edit \in ARTexts \cup {ARNone},
             ARClaim(c, approved, edit)
      PROVE  ARTypeInv'
  BY <1>3 DEF ARClaim, ARClaimable, ARRows, AROutcomes
<1>4. ASSUME NEW c \in ARCalls, ARLoad(c) PROVE ARTypeInv'
  BY <1>4 DEF ARLoad, ARRows, AROutcomes
<1>5. ASSUME NEW c \in ARCalls, ARDetail(c) PROVE ARTypeInv'
  BY <1>5 DEF ARDetail, ARSawHead
<1>6. ASSUME NEW c \in ARCalls, ARReadHead(c) PROVE ARTypeInv'
  BY <1>6 DEF ARReadHead
<1>7. ASSUME NEW c \in ARCalls, ARSaveDraft(c) PROVE ARTypeInv'
  BY <1>7 DEF ARSaveDraft, ARNewHead
<1>8. ASSUME NEW c \in ARCalls, ARConfirm(c) PROVE ARTypeInv'
  <2>1. CASE ARReplays(c)
    BY <1>8, <2>1 DEF ARConfirm
  <2>2. CASE ~ARReplays(c) /\ ARCanConfirm(c)
    <3>1. arCall[c].text \in ARTexts /\ arHead.text = arCall[c].text
      BY <1>8, <2>2 DEF ARConfirm, ARCanConfirm
    <3>2. [text |-> arHead.text, by |-> c] \in [text : ARTexts, by : ARCalls]
      BY <3>1
    <3>3. QED
      BY <1>8, <2>2, <3>2 DEF ARConfirm, ARApply
  <2>3. CASE ~ARReplays(c) /\ ~ARCanConfirm(c)
    BY <1>8, <2>3 DEF ARConfirm
  <2>4. QED
    BY <2>1, <2>2, <2>3
<1>9. ASSUME NEW c \in ARCalls, ARApprove(c) PROVE ARTypeInv'
  <2>1. CASE ~arCommanded /\ ARCanApprove
    <3>1. arHead.text \in ARTexts
      BY <1>9, <2>1 DEF ARApprove, ARCanApprove
    <3>2. [text |-> arHead.text, by |-> c] \in [text : ARTexts, by : ARCalls]
      BY <3>1
    <3>3. QED
      BY <1>9, <2>1, <3>2 DEF ARApprove, ARApply
  <2>2. CASE arCommanded \/ ~ARCanApprove
    BY <1>9, <2>2 DEF ARApprove
  <2>3. QED
    BY <2>1, <2>2
<1>10. ASSUME NEW c \in ARCalls, ARMint(c) PROVE ARTypeInv'
  BY <1>10 DEF ARMint
<1>11. ASSUME NEW c \in ARCalls, ARSave(c) PROVE ARTypeInv'
  <2>1. CASE arRow' = arRow
    BY <1>11, <2>1 DEF ARSave
  <2>2. CASE arRow' = [arRow EXCEPT !.status = "DONE", !.version = @ + 1,
                                    !.outcome = arCall[c].outcome]
    <3>1. arCall[c].outcome \in AROutcomes
      OBVIOUS
    <3>2. arRow' \in ARRows
      BY <2>2, <3>1, ARDoneRow
    <3>3. arRow.status # "none" /\ arRow'.status # "none"
      BY <1>11, <2>2 DEF ARSave, ARRows
    <3>4. QED
      BY <1>11, <3>2, <3>3 DEF ARSave
  <2>3. QED
    BY <1>11, <2>1, <2>2 DEF ARSave
<1>12. ASSUME NEW c \in ARCalls, ARDies(c) PROVE ARTypeInv'
  BY <1>12 DEF ARDies
<1>13. CASE ARLeaseLapses
  BY <1>13 DEF ARLeaseLapses, ARRows, AROutcomes
<1>14. CASE ARPeople
  <2> UNCHANGED <<arDomain, arCommanded, arMints, arSnap, arRow, arCall, arFaults, arBound,
                  arLapse>> /\ arPerson' \in 0..ARMaxPerson
    BY <1>14 DEF ARPeople
  <2>1. CASE ARPersonSaves
    BY <2>1 DEF ARPersonSaves, ARNewHead
  <2>2. CASE ARPersonApproves
    BY <2>2 DEF ARPersonApproves
  <2>3. CASE ARPersonWithdraws
    BY <2>3 DEF ARPersonWithdraws
  <2>4. CASE ARRedeploys
    BY <2>4 DEF ARRedeploys
  <2>5. QED
    BY <1>14, <2>1, <2>2, <2>3, <2>4 DEF ARPeople
<1>15. CASE UNCHANGED arVars
  BY <1>15 DEF arVars
<1>16. QED
  BY <1>1, <1>2, <1>3, <1>4, <1>5, <1>6, <1>7, <1>8, <1>9, <1>10, <1>11, <1>12, <1>13,
     <1>14, <1>15 DEF ARNext

\* Every row, copy and program counter keeps its type, and whatever a request
\* binds is a text.
THEOREM ARTypeCorrect == ARSpec => []ARTypeOK
<1>1. ARTypeInv => ARTypeOK
  BY DEF ARTypeInv
<1>2. QED
  BY <1>1, ARTypeInit, ARTypeStep, PTL DEF ARSpec

-----------------------------------------------------------------------------
(* The text the command binds *)

\* The head does not change under its version, and a request writes its own text
\* or the one that was shown.
ARTextInv ==
  /\ arSnap.version > 0 =>
       /\ arHead.version >= arSnap.version
       /\ arHead.version = arSnap.version => arHead.text = arSnap.text
  /\ \A c \in ARCalls :
       arCall[c].pc \in ARWriting => arCall[c].text \in {arSnap.text, arCall[c].edit}
  /\ arBound # ARNone =>
       /\ arBound.text \in {arSnap.text, arCall[arBound.by].edit}
       /\ arCall[arBound.by].pc # "new"

LEMMA ARTextInit == ARInit => ARTextInv
  BY DEF ARInit, ARTextInv, ARNoDraft, ARRequest, ARWriting

LEMMA ARTextStep == ARTypeInv /\ ARTextInv /\ [ARNext]_arVars => ARTextInv'
<1> SUFFICES ASSUME ARTypeInv, ARTextInv, [ARNext]_arVars PROVE ARTextInv'
  OBVIOUS
<1> USE ARAssumption
        DEF ARTextInv, ARTypeInv, ARTypeOK, ARDraft, ARNoDraft, ARWriting, ARRequests, ARGoto, AREnd,
            ARAt, arBackend, arWorld
<1>1. CASE ARPrepare
  BY <1>1 DEF ARPrepare, ARNewHead, ARCanSave
<1>2. CASE ARPark
  BY <1>2 DEF ARPark
<1>3. ASSUME NEW c \in ARCalls, NEW approved \in BOOLEAN, NEW edit \in ARTexts \cup {ARNone},
             ARClaim(c, approved, edit)
      PROVE  ARTextInv'
  BY <1>3 DEF ARClaim, ARClaimable
<1>4. ASSUME NEW c \in ARCalls, ARLoad(c) PROVE ARTextInv'
  BY <1>4 DEF ARLoad
<1>5. ASSUME NEW c \in ARCalls, ARDetail(c) PROVE ARTextInv'
  BY <1>5 DEF ARDetail, ARSawHead
<1>6. ASSUME NEW c \in ARCalls, ARReadHead(c) PROVE ARTextInv'
  BY <1>6 DEF ARReadHead
<1>7. ASSUME NEW c \in ARCalls, ARSaveDraft(c) PROVE ARTextInv'
  BY <1>7 DEF ARSaveDraft, ARNewHead
<1>8. ASSUME NEW c \in ARCalls, ARConfirm(c) PROVE ARTextInv'
  BY <1>8 DEF ARConfirm, ARApply, ARCanConfirm
<1>9. ASSUME NEW c \in ARCalls, ARApprove(c) PROVE ARTextInv'
  BY <1>9 DEF ARApprove, ARApply, ARCanApprove
<1>10. ASSUME NEW c \in ARCalls, ARMint(c) PROVE ARTextInv'
  BY <1>10 DEF ARMint
<1>11. ASSUME NEW c \in ARCalls, ARSave(c) PROVE ARTextInv'
  BY <1>11 DEF ARSave
<1>12. ASSUME NEW c \in ARCalls, ARDies(c) PROVE ARTextInv'
  BY <1>12 DEF ARDies
<1>13. CASE ARLeaseLapses
  BY <1>13 DEF ARLeaseLapses
<1>14. CASE ARPeople
  BY <1>14 DEF ARPeople, ARPersonSaves, ARPersonApproves, ARPersonWithdraws, ARRedeploys, ARNewHead
<1>15. CASE UNCHANGED arVars
  BY <1>15 DEF arVars
<1>16. QED
  BY <1>1, <1>2, <1>3, <1>4, <1>5, <1>6, <1>7, <1>8,
     <1>9, <1>10, <1>11, <1>12, <1>13, <1>14, <1>15 DEF ARNext

\* However the draft was edited while the run was parked, and whoever's resume died,
\* performRecord and performReviewRecord bind a text the operator has read or written.
THEOREM ARApprovedWasRead == ARSpec => []ARApprovedTextWasRead
<1>1. ARTextInv => ARApprovedTextWasRead
  BY DEF ARTextInv, ARApprovedTextWasRead
<1>2. QED
  BY <1>1, ARTypeInit, ARTypeStep, ARTextInit, ARTextStep, PTL DEF ARSpec

-----------------------------------------------------------------------------
(* A finished run *)

ARLoaded == {"detail", "head", "save_draft", "confirm", "approve", "mint", "save"}

\* A request past its load names a version the row has left when the run is done,
\* and one that will record an approval has had the command applied.
ARDoneInv ==
  /\ ARDoneIsBound
  /\ \A c \in ARCalls :
       /\ arCall[c].pc \in ARLoaded =>
            /\ arCall[c].outcome = "APPROVED" <=> arCall[c].approved
            /\ arCall[c].version <= arRow.version
            /\ arRow.status = "DONE" => arCall[c].version < arRow.version
       /\ arCall[c].pc = "mint" => arCommanded
       /\ (arCall[c].pc = "save" /\ arCall[c].approved) => arCommanded

LEMMA ARDoneInit == ARInit => ARDoneInv
  BY DEF ARInit, ARDoneInv, ARDoneIsBound, ARRequest, ARLoaded

LEMMA ARDoneStep == ARTypeInv /\ ARDoneInv /\ [ARNext]_arVars => ARDoneInv'
<1> SUFFICES ASSUME ARTypeInv, ARDoneInv, [ARNext]_arVars PROVE ARDoneInv'
  OBVIOUS
<1> USE ARAssumption
        DEF ARDoneInv, ARDoneIsBound, ARLoaded, ARRows, ARTypeInv, ARTypeOK, ARDraft, ARNoDraft, ARWriting, ARRequests, ARGoto, AREnd,
            ARAt, arBackend, arWorld
<1>1. CASE ARPrepare
  BY <1>1 DEF ARPrepare, ARNewHead, ARCanSave
<1>2. CASE ARPark
  BY <1>2 DEF ARPark
<1>3. ASSUME NEW c \in ARCalls, NEW approved \in BOOLEAN, NEW edit \in ARTexts \cup {ARNone},
             ARClaim(c, approved, edit)
      PROVE  ARDoneInv'
  BY <1>3 DEF ARClaim, ARClaimable
<1>4. ASSUME NEW c \in ARCalls, ARLoad(c) PROVE ARDoneInv'
  BY <1>4 DEF ARLoad
<1>5. ASSUME NEW c \in ARCalls, ARDetail(c) PROVE ARDoneInv'
  BY <1>5 DEF ARDetail, ARSawHead
<1>6. ASSUME NEW c \in ARCalls, ARReadHead(c) PROVE ARDoneInv'
  BY <1>6 DEF ARReadHead
<1>7. ASSUME NEW c \in ARCalls, ARSaveDraft(c) PROVE ARDoneInv'
  BY <1>7 DEF ARSaveDraft, ARNewHead
<1>8. ASSUME NEW c \in ARCalls, ARConfirm(c) PROVE ARDoneInv'
  <2>1. UNCHANGED arRow /\ arCall[c].pc = "confirm" /\ (arCommanded => arCommanded')
    BY <1>8 DEF ARConfirm, ARApply
  <2>2. \/ arCall' = [arCall EXCEPT ![c].pc = "save"] /\ arCommanded'
        \/ arCall' = [arCall EXCEPT ![c].pc = "ended"]
    BY <1>8 DEF ARConfirm, ARApply, ARReplays
  <2>3. QED
    BY <2>1, <2>2
<1>9. ASSUME NEW c \in ARCalls, ARApprove(c) PROVE ARDoneInv'
  BY <1>9 DEF ARApprove, ARApply, ARCanApprove
<1>10. ASSUME NEW c \in ARCalls, ARMint(c) PROVE ARDoneInv'
  <2>1. UNCHANGED <<arRow, arCommanded>> /\ arCall[c].pc = "mint"
    BY <1>10 DEF ARMint
  <2>2. arCommanded
    BY <2>1
  <2>3. CASE arCall' = [arCall EXCEPT ![c].pc = "ended"]
    BY <2>1, <2>3
  <2>4. CASE arCall' = [arCall EXCEPT ![c].pc = "save"]
    BY <2>1, <2>2, <2>4
  <2>5. QED
    BY <1>10, <2>3, <2>4 DEF ARMint
<1>11. ASSUME NEW c \in ARCalls, ARSave(c) PROVE ARDoneInv'
  BY <1>11 DEF ARSave
<1>12. ASSUME NEW c \in ARCalls, ARDies(c) PROVE ARDoneInv'
  BY <1>12 DEF ARDies
<1>13. CASE ARLeaseLapses
  BY <1>13 DEF ARLeaseLapses
<1>14. CASE ARPeople
  BY <1>14 DEF ARPeople, ARPersonSaves, ARPersonApproves, ARPersonWithdraws, ARRedeploys, ARNewHead
<1>15. CASE UNCHANGED arVars
  BY <1>15 DEF arVars
<1>16. QED
  BY <1>1, <1>2, <1>3, <1>4, <1>5, <1>6, <1>7, <1>8,
     <1>9, <1>10, <1>11, <1>12, <1>13, <1>14, <1>15 DEF ARNext

\* A run the store calls approved was really approved at the backend, whichever
\* resume wrote it.
THEOREM ARApprovedIsBound == ARSpec => []ARDoneIsBound
<1>1. ARDoneInv => ARDoneIsBound
  BY DEF ARDoneInv
<1>2. QED
  BY <1>1, ARTypeInit, ARTypeStep, ARDoneInit, ARDoneStep, PTL DEF ARSpec

\* The version a save names keeps every late resume off a finished run's row.
THEOREM ARFinishedStays == ARSpec => ARDoneStays
<1>1. ARTypeInv /\ ARDoneInv /\ [ARNext]_arVars => [(arRow.status = "DONE") => (arRow' = arRow)]_arVars
  <2> SUFFICES ASSUME ARTypeInv, ARDoneInv, ARNext, arRow.status = "DONE" PROVE arRow' = arRow
    OBVIOUS
  <2>1. ASSUME NEW c \in ARCalls, ARSave(c) PROVE arRow' = arRow
    BY <2>1 DEF ARSave, ARAt, ARDoneInv, ARLoaded, ARTypeInv, ARTypeOK, ARRows, ARRequests
  <2>2. CASE ARPrepare \/ ARPark \/ ARLeaseLapses \/ ARPeople
    BY <2>2 DEF ARPrepare, ARPark, ARLeaseLapses, ARPeople
  <2>3. ASSUME NEW c \in ARCalls, NEW approved \in BOOLEAN, NEW edit \in ARTexts \cup {ARNone},
               ARClaim(c, approved, edit)
        PROVE  arRow' = arRow
    BY <2>3 DEF ARClaim, ARClaimable
  <2>4. ASSUME NEW c \in ARCalls,
               ARLoad(c) \/ ARDetail(c) \/ ARReadHead(c) \/ ARSaveDraft(c) \/ ARConfirm(c)
                 \/ ARApprove(c) \/ ARMint(c) \/ ARDies(c)
        PROVE  arRow' = arRow
    BY <2>4 DEF ARLoad, ARDetail, ARReadHead, ARSaveDraft, ARConfirm, ARApprove, ARMint, ARDies
  <2>5. QED
    BY <2>1, <2>2, <2>3, <2>4 DEF ARNext
<1>2. QED
  BY <1>1, ARTypeInit, ARTypeStep, ARDoneInit, ARDoneStep, PTL DEF ARSpec, ARDoneStays

-----------------------------------------------------------------------------
(* Minting once *)

\* Until a lease runs out one request at most is under way with the run claimed,
\* and once it has minted it only has its row to save.
ARMintInv ==
  ~arLapse =>
    /\ ~arRow.lapsed
    /\ arRow.status \in {"none", "AWAITING_APPROVAL"} =>
         arMints = 0 /\ \A c \in ARCalls : ~ARActive(c)
    /\ arRow.status = "RESUMING" =>
         /\ \A c, d \in ARCalls : ARActive(c) /\ ARActive(d) => c = d
         /\ \/ arMints = 0
            \/ arMints = 1 /\ \A c \in ARCalls : ARActive(c) => arCall[c].pc = "save"
    /\ arRow.status = "DONE" =>
         arMints <= 1 /\ \A c \in ARCalls : ARActive(c) => arCall[c].pc = "load"

LEMMA ARMintInit == ARInit => ARMintInv
  BY DEF ARInit, ARMintInv, ARRequest, ARActive

LEMMA ARMintStep == ARTypeInv /\ ARMintInv /\ [ARNext]_arVars => ARMintInv'
<1> SUFFICES ASSUME ARTypeInv, ARMintInv, [ARNext]_arVars PROVE ARMintInv'
  OBVIOUS
<1> USE ARAssumption
        DEF ARMintInv, ARActive, ARRows, ARTypeInv, ARTypeOK, ARDraft, ARNoDraft, ARWriting, ARRequests, ARGoto, AREnd,
            ARAt, arBackend, arWorld
<1>1. CASE ARPrepare
  BY <1>1 DEF ARPrepare, ARNewHead, ARCanSave
<1>2. CASE ARPark
  BY <1>2 DEF ARPark
<1>3. ASSUME NEW c \in ARCalls, NEW approved \in BOOLEAN, NEW edit \in ARTexts \cup {ARNone},
             ARClaim(c, approved, edit)
      PROVE  ARMintInv'
  BY <1>3 DEF ARClaim, ARClaimable
<1>4. ASSUME NEW c \in ARCalls, ARLoad(c) PROVE ARMintInv'
  BY <1>4 DEF ARLoad
<1>5. ASSUME NEW c \in ARCalls, ARDetail(c) PROVE ARMintInv'
  BY <1>5 DEF ARDetail, ARSawHead
<1>6. ASSUME NEW c \in ARCalls, ARReadHead(c) PROVE ARMintInv'
  BY <1>6 DEF ARReadHead
<1>7. ASSUME NEW c \in ARCalls, ARSaveDraft(c) PROVE ARMintInv'
  BY <1>7 DEF ARSaveDraft, ARNewHead
<1>8. ASSUME NEW c \in ARCalls, ARConfirm(c) PROVE ARMintInv'
  BY <1>8 DEF ARConfirm, ARApply, ARCanConfirm
<1>9. ASSUME NEW c \in ARCalls, ARApprove(c) PROVE ARMintInv'
  BY <1>9 DEF ARApprove, ARApply, ARCanApprove
<1>10. ASSUME NEW c \in ARCalls, ARMint(c) PROVE ARMintInv'
  BY <1>10 DEF ARMint
<1>11. ASSUME NEW c \in ARCalls, ARSave(c) PROVE ARMintInv'
  BY <1>11 DEF ARSave
<1>12. ASSUME NEW c \in ARCalls, ARDies(c) PROVE ARMintInv'
  BY <1>12 DEF ARDies
<1>13. CASE ARLeaseLapses
  BY <1>13 DEF ARLeaseLapses
<1>14. CASE ARPeople
  BY <1>14 DEF ARPeople, ARPersonSaves, ARPersonApproves, ARPersonWithdraws, ARRedeploys, ARNewHead
<1>15. CASE UNCHANGED arVars
  BY <1>15 DEF arVars
<1>16. QED
  BY <1>1, <1>2, <1>3, <1>4, <1>5, <1>6, <1>7, <1>8,
     <1>9, <1>10, <1>11, <1>12, <1>13, <1>14, <1>15 DEF ARNext

\* claimForResume lets one resume through until its lease is over, so however many
\* race, the guided session is minted once.
THEOREM ARMintsOnce == ARSpec => []ARMintOnceWhileLeased
<1>1. ARTypeInv /\ ARMintInv => ARMintOnceWhileLeased
  BY DEF ARTypeInv, ARTypeOK, ARRows, ARMintInv, ARMintOnceWhileLeased
<1>2. QED
  BY <1>1, ARTypeInit, ARTypeStep, ARMintInit, ARMintStep, PTL DEF ARSpec

-----------------------------------------------------------------------------
(* The contract of a run *)

ARInquiryOnly == {"detail", "head", "save_draft", "confirm"}

\* What the backend and the row hold of a run: a command binds a text, and the approval
\* it gave an inquiry stands; nothing is bound before the row is there, and only a
\* finished run has an outcome.  A request brings its text when it claims.
ARRunInv ==
  /\ arCommanded <=> arBound # ARNone
  /\ (arDomain = "INQUIRY" /\ arCommanded) => arApproval # ARNone
  /\ arRow.status = "none" => ~arCommanded
  /\ arRow.status = "DONE" <=> arRow.outcome # ARNone
  /\ \A c \in ARCalls :
       /\ arCall[c].pc = "new" => arCall[c].edit = ARNone
       /\ arCall[c].pc \in ARInquiryOnly => arDomain = "INQUIRY"
       /\ arCall[c].pc \in ARLoaded => arCall[c].outcome # ARNone

LEMMA ARRunInit == ARInit => ARRunInv
  BY ARAssumption DEF ARInit, ARRunInv, ARRequest, ARInquiryOnly, ARLoaded

LEMMA ARRunStep == ARTypeInv /\ ARDoneInv /\ ARRunInv /\ [ARNext]_arVars => ARRunInv'
<1> SUFFICES ASSUME ARTypeInv, ARDoneInv, ARRunInv, [ARNext]_arVars PROVE ARRunInv'
  OBVIOUS
<1> USE ARAssumption
        DEF ARRunInv, ARInquiryOnly, ARLoaded, ARDoneInv, ARRows, AROutcomes, ARTypeInv, ARTypeOK, ARDraft,
            ARNoDraft, ARWriting, ARRequests, ARGoto, AREnd, ARAt, arBackend, arWorld
<1>1. CASE ARPrepare
  BY <1>1 DEF ARPrepare, ARNewHead, ARCanSave
<1>2. CASE ARPark
  BY <1>2 DEF ARPark
<1>3. ASSUME NEW c \in ARCalls, NEW approved \in BOOLEAN, NEW edit \in ARTexts \cup {ARNone},
             ARClaim(c, approved, edit)
      PROVE  ARRunInv'
  BY <1>3 DEF ARClaim, ARClaimable
<1>4. ASSUME NEW c \in ARCalls, ARLoad(c) PROVE ARRunInv'
  BY <1>4 DEF ARLoad
<1>5. ASSUME NEW c \in ARCalls, ARDetail(c) PROVE ARRunInv'
  BY <1>5 DEF ARDetail, ARSawHead
<1>6. ASSUME NEW c \in ARCalls, ARReadHead(c) PROVE ARRunInv'
  BY <1>6 DEF ARReadHead
<1>7. ASSUME NEW c \in ARCalls, ARSaveDraft(c) PROVE ARRunInv'
  BY <1>7 DEF ARSaveDraft, ARNewHead
<1>8. ASSUME NEW c \in ARCalls, ARConfirm(c) PROVE ARRunInv'
  BY <1>8 DEF ARConfirm, ARApply, ARCanConfirm
<1>9. ASSUME NEW c \in ARCalls, ARApprove(c) PROVE ARRunInv'
  BY <1>9 DEF ARApprove, ARApply, ARCanApprove
<1>10. ASSUME NEW c \in ARCalls, ARMint(c) PROVE ARRunInv'
  BY <1>10 DEF ARMint
<1>11. ASSUME NEW c \in ARCalls, ARSave(c) PROVE ARRunInv'
  BY <1>11 DEF ARSave
<1>12. ASSUME NEW c \in ARCalls, ARDies(c) PROVE ARRunInv'
  BY <1>12 DEF ARDies
<1>13. CASE ARLeaseLapses
  BY <1>13 DEF ARLeaseLapses
<1>14. CASE ARPeople
  BY <1>14 DEF ARPeople, ARPersonSaves, ARPersonApproves, ARPersonWithdraws, ARRedeploys, ARNewHead
<1>15. CASE UNCHANGED arVars
  BY <1>15 DEF arVars
<1>16. QED
  BY <1>1, <1>2, <1>3, <1>4, <1>5, <1>6, <1>7, <1>8,
     <1>9, <1>10, <1>11, <1>12, <1>13, <1>14, <1>15 DEF ARNext

\* The contract's variables, as AgentRun maps them.
writtenNow == {arCall[c].edit : c \in ARCalls} \ {ARNone}
boundNow == IF arCommanded THEN arBound.text ELSE ARNone
runContractVars == <<arSnap.text, writtenNow, boundNow, arRow.outcome>>

\* What the requests brought stays as it is unless some request claims.
LEMMA ARWrittenSame ==
  ASSUME \A c \in ARCalls : arCall'[c].edit = arCall[c].edit
  PROVE  writtenNow' = writtenNow
  BY DEF writtenNow

\* A claim brings one text, or none.
LEMMA ARWrittenGrows ==
  ASSUME ARTypeInv, ARRunInv, NEW c \in ARCalls, NEW edit, ARAt(c, "new"),
         arCall'[c].edit = edit,
         \A d \in ARCalls \ {c} : arCall'[d].edit = arCall[d].edit
  PROVE  /\ edit = ARNone => writtenNow' = writtenNow
         /\ edit # ARNone => writtenNow' = writtenNow \cup {edit}
<1>1. arCall[c].edit = ARNone
  BY DEF ARRunInv, ARAt
<1>2. QED
  BY <1>1 DEF writtenNow

LEMMA ARPrepareKeeps ==
  ASSUME ARTypeInv, ARRunInv, ARPrepare
  PROVE  Contract!Next
<1> USE ARAssumption
<1>1. PICK t \in ARTexts : arSnap'.text = t
  BY DEF ARPrepare, ARTypeInv, ARTypeOK, ARDraft, ARNewHead
<1>2. UNCHANGED <<writtenNow, boundNow, arRow>>
  BY DEF ARPrepare, writtenNow, boundNow
<1>3. arSnap.text = ARNone /\ boundNow = ARNone /\ arRow.outcome = ARNone
  BY DEF ARPrepare, ARNoDraft, ARRunInv, boundNow
<1>4. \A c \in ARCalls : arCall[c].edit = ARNone
  BY DEF ARPrepare, ARTypeInv, ARRunInv
<1>5. writtenNow = {}
  BY <1>4 DEF writtenNow
<1>6. Contract!Show(t)
  BY <1>1, <1>2, <1>3, <1>5 DEF Contract!Show, writtenNow, boundNow
<1>7. QED
  BY <1>6 DEF Contract!Next

LEMMA ARClaimKeeps ==
  ASSUME ARTypeInv, ARRunInv, NEW c \in ARCalls, NEW approved \in BOOLEAN,
         NEW edit \in ARTexts \cup {ARNone}, ARClaim(c, approved, edit)
  PROVE  [Contract!Next]_runContractVars
<1> USE ARAssumption
<1>1. UNCHANGED <<arSnap, boundNow>> /\ arRow'.outcome = arRow.outcome
  BY DEF ARClaim, arWorld, arBackend, boundNow, ARTypeInv, ARTypeOK, ARRows
<1>2. arCall'[c].edit = edit /\ \A d \in ARCalls \ {c} : arCall'[d].edit = arCall[d].edit
  BY DEF ARClaim, ARTypeInv, ARTypeOK, ARRequests
<1>3. CASE edit = ARNone
  <2>1. writtenNow' = writtenNow
    BY <1>2, <1>3, ARWrittenGrows DEF ARClaim
  <2>2. QED
    BY <1>1, <2>1 DEF runContractVars
<1>4. CASE edit # ARNone
  <2>1. writtenNow' = writtenNow \cup {edit} /\ edit \in ARTexts
    BY <1>2, <1>4, ARWrittenGrows DEF ARClaim
  <2>2. Contract!Write(edit)
    BY <1>1, <2>1 DEF Contract!Write, writtenNow, boundNow
  <2>3. QED
    BY <2>1, <2>2 DEF Contract!Next
<1>5. QED
  BY <1>3, <1>4

\* A request that applies the run's command binds what was shown or what it brought.
LEMMA ARApplyKeeps ==
  ASSUME ARTypeInv, ARRunInv, NEW c \in ARCalls, ARApply(c), ~arCommanded,
         arHead.text \in ARTexts, arHead.text \in {arSnap.text, arCall[c].edit},
         UNCHANGED <<arSnap, arRow>>,
         \A d \in ARCalls : arCall'[d].edit = arCall[d].edit
  PROVE  Contract!Next
<1> USE ARAssumption
<1>1. PICK t \in ARTexts : arHead.text = t
  OBVIOUS
<1>2. boundNow = ARNone /\ boundNow' = t
  BY <1>1 DEF boundNow, ARApply
<1>3. writtenNow' = writtenNow
  BY ARWrittenSame
<1>4. t \in {arSnap.text} \cup writtenNow
  BY <1>1 DEF writtenNow
<1>5. Contract!Bind(t)
  BY <1>2, <1>3, <1>4 DEF Contract!Bind, writtenNow, boundNow
<1>6. QED
  BY <1>5 DEF Contract!Next

LEMMA ARConfirmKeeps ==
  ASSUME ARTypeInv, ARTextInv, ARRunInv, NEW c \in ARCalls, ARConfirm(c)
  PROVE  [Contract!Next]_runContractVars
<1> USE ARAssumption
<1>1. \A d \in ARCalls : arCall'[d].edit = arCall[d].edit
  BY DEF ARConfirm, ARGoto, AREnd, ARTypeInv, ARTypeOK, ARRequests
<1>2. UNCHANGED <<arSnap, arRow>>
  BY DEF ARConfirm, arWorld
<1>3. CASE ~ARReplays(c) /\ ARCanConfirm(c)
  <2>1. ~arCommanded
    BY <1>3 DEF ARConfirm, ARAt, ARCanConfirm, ARRunInv, ARInquiryOnly
  <2>2. arHead.text \in ARTexts /\ arHead.text \in {arSnap.text, arCall[c].edit}
    BY <1>3 DEF ARConfirm, ARAt, ARCanConfirm, ARTypeInv, ARTextInv, ARWriting
  <2>3. ARApply(c)
    BY <1>3 DEF ARConfirm
  <2>4. QED
    BY <1>1, <1>2, <2>1, <2>2, <2>3, ARApplyKeeps
<1>4. CASE ARReplays(c) \/ ~ARCanConfirm(c)
  <2>1. UNCHANGED <<arCommanded, arBound>>
    BY <1>4 DEF ARConfirm
  <2>2. writtenNow' = writtenNow /\ boundNow' = boundNow
    BY <1>1, <2>1, ARWrittenSame DEF boundNow
  <2>3. QED
    BY <1>2, <2>2 DEF runContractVars
<1>5. QED
  BY <1>3, <1>4

LEMMA ARApproveKeeps ==
  ASSUME ARTypeInv, ARTextInv, ARRunInv, NEW c \in ARCalls, ARApprove(c)
  PROVE  [Contract!Next]_runContractVars
<1> USE ARAssumption
<1>1. \A d \in ARCalls : arCall'[d].edit = arCall[d].edit
  BY DEF ARApprove, ARGoto, AREnd, ARTypeInv, ARTypeOK, ARRequests
<1>2. UNCHANGED <<arSnap, arRow>>
  BY DEF ARApprove, arWorld
<1>3. CASE ~arCommanded /\ ARCanApprove
  <2>1. arSnap.version > 0
    BY DEF ARApprove, ARAt, ARTypeInv
  <2>2. arHead.text \in ARTexts /\ arHead.text \in {arSnap.text, arCall[c].edit}
    BY <1>3, <2>1 DEF ARCanApprove, ARTypeInv, ARTypeOK, ARTextInv
  <2>3. ARApply(c)
    BY <1>3 DEF ARApprove
  <2>4. QED
    BY <1>1, <1>2, <1>3, <2>2, <2>3, ARApplyKeeps
<1>4. CASE arCommanded \/ ~ARCanApprove
  <2>1. UNCHANGED <<arCommanded, arBound>>
    BY <1>4 DEF ARApprove
  <2>2. writtenNow' = writtenNow /\ boundNow' = boundNow
    BY <1>1, <2>1, ARWrittenSame DEF boundNow
  <2>3. QED
    BY <1>2, <2>2 DEF runContractVars
<1>5. QED
  BY <1>3, <1>4

LEMMA ARSaveKeeps ==
  ASSUME ARTypeInv, ARDoneInv, ARRunInv, NEW c \in ARCalls, ARSave(c)
  PROVE  [Contract!Next]_runContractVars
<1> USE ARAssumption
<1>1. \A d \in ARCalls : arCall'[d].edit = arCall[d].edit
  BY DEF ARSave, ARGoto, AREnd, ARTypeInv, ARTypeOK, ARRequests
<1>2. writtenNow' = writtenNow /\ boundNow' = boundNow /\ arSnap' = arSnap
  BY <1>1, ARWrittenSame DEF ARSave, arWorld, arBackend, boundNow
<1>3. CASE arRow.version = arCall[c].version
  <2>1. arRow.status # "DONE"
    BY <1>3 DEF ARSave, ARAt, ARDoneInv, ARLoaded, ARTypeInv, ARTypeOK, ARRows, ARRequests
  <2>2. PICK o \in {"APPROVED", "REJECTED"} : arCall[c].outcome = o
    BY DEF ARSave, ARAt, ARRunInv, ARLoaded, ARTypeInv, ARTypeOK, ARRequests, AROutcomes
  <2>3. arRow.outcome = ARNone /\ arRow'.outcome = o
    BY <1>3, <2>1, <2>2 DEF ARSave, ARRunInv, ARTypeInv, ARTypeOK, ARRows
  <2>4. ASSUME o = "APPROVED" PROVE arCommanded
    BY <2>2, <2>4 DEF ARSave, ARAt, ARDoneInv, ARLoaded
  <2>5. arCommanded => arBound.text \in ARTexts
    BY DEF ARRunInv, ARTypeInv, ARTypeOK
  <2>6. o = "APPROVED" => boundNow # ARNone
    BY <2>4, <2>5 DEF boundNow
  <2>7. Contract!Finish(o)
    BY <1>2, <2>3, <2>6 DEF Contract!Finish, writtenNow, boundNow
  <2>8. QED
    BY <2>7 DEF Contract!Next
<1>4. CASE arRow.version # arCall[c].version
  BY <1>2, <1>4 DEF ARSave, runContractVars
<1>5. QED
  BY <1>3, <1>4

LEMMA ARLoadBringsNothing ==
  ASSUME ARTypeInv, NEW c \in ARCalls, ARLoad(c)
  PROVE  \A d \in ARCalls : arCall'[d].edit = arCall[d].edit
<1>1. PICK v, o, p : arCall' = [arCall EXCEPT ![c].version = v, ![c].outcome = o, ![c].pc = p]
  <2>1. CASE arLive \/ arRow.status = "DONE"
    <3>1. arCall' = [arCall EXCEPT ![c].pc = "ended"]
      BY <2>1 DEF ARLoad, AREnd, ARGoto
    <3>2. arCall' = [arCall EXCEPT ![c].version = arCall[c].version,
                                   ![c].outcome = arCall[c].outcome, ![c].pc = "ended"]
      BY <3>1 DEF ARTypeInv, ARTypeOK, ARRequests
    <3>3. QED
      BY <3>2
  <2>2. CASE ~(arLive \/ arRow.status = "DONE")
    BY <2>2 DEF ARLoad
  <2>3. QED
    BY <2>1, <2>2
<1>2. QED
  BY <1>1 DEF ARTypeInv, ARTypeOK, ARRequests

\* The steps the contract does not see.
LEMMA ARRestKeeps ==
  ASSUME ARTypeInv,
         \/ ARPark \/ ARLeaseLapses \/ ARPeople \/ UNCHANGED arVars
         \/ \E c \in ARCalls : \/ ARLoad(c) \/ ARDetail(c) \/ ARReadHead(c) \/ ARSaveDraft(c)
                               \/ ARMint(c) \/ ARDies(c)
  PROVE  UNCHANGED runContractVars
<1>1. UNCHANGED <<arSnap, arCommanded, arBound>>
  BY DEF ARPark, ARLeaseLapses, ARPeople, ARLoad, ARDetail, ARReadHead, ARSaveDraft, ARMint,
         ARDies, arVars, arWorld, arBackend
<1>2. arRow'.outcome = arRow.outcome
  BY DEF ARPark, ARLeaseLapses, ARPeople, ARLoad, ARDetail, ARReadHead, ARSaveDraft, ARMint,
         ARDies, arVars, ARTypeInv, ARTypeOK, ARRows
<1>3. \A d \in ARCalls : arCall'[d].edit = arCall[d].edit
  <2>1. CASE ARPark \/ ARLeaseLapses \/ ARPeople \/ UNCHANGED arVars
    BY <2>1 DEF ARPark, ARLeaseLapses, ARPeople, arVars
  <2>2. ASSUME NEW c \in ARCalls,
               \/ ARLoad(c) \/ ARDetail(c) \/ ARReadHead(c) \/ ARSaveDraft(c)
               \/ ARMint(c) \/ ARDies(c)
        PROVE  \A d \in ARCalls : arCall'[d].edit = arCall[d].edit
    <3>1. CASE ARLoad(c)
      BY <3>1, ARLoadBringsNothing
    <3>2. CASE ~ARLoad(c)
      BY <2>2, <3>2 DEF ARDetail, ARReadHead, ARSaveDraft, ARMint, ARDies, ARGoto, AREnd,
                        ARTypeInv, ARTypeOK, ARRequests
    <3>3. QED
      BY <3>1, <3>2
  <2>3. QED
    BY <2>1, <2>2
<1>4. writtenNow' = writtenNow
  BY <1>3, ARWrittenSame
<1>5. QED
  BY <1>1, <1>2, <1>4 DEF runContractVars, boundNow

\* However many resumes race, die or outlive their lease, and whoever edits, approves
\* or withdraws between their calls, every step of the service is a step of the
\* contract or none.
THEOREM ARKeepsTheContract == ARSpec => ImplementsRunContract
<1>1. ARInit => Contract!Init
  BY DEF ARInit, ARNoDraft, ARRequest, Contract!Init
<1>2. ARTypeInv /\ ARTextInv /\ ARDoneInv /\ ARRunInv /\ [ARNext]_arVars
        => [Contract!Next]_runContractVars
  <2> SUFFICES ASSUME ARTypeInv, ARTextInv, ARDoneInv, ARRunInv, [ARNext]_arVars
               PROVE  [Contract!Next]_runContractVars
    OBVIOUS
  <2>1. CASE ARPrepare
    BY <2>1, ARPrepareKeeps
  <2>2. ASSUME NEW c \in ARCalls, NEW approved \in BOOLEAN, NEW edit \in ARTexts \cup {ARNone},
               ARClaim(c, approved, edit)
        PROVE  [Contract!Next]_runContractVars
    BY <2>2, ARClaimKeeps
  <2>3. ASSUME NEW c \in ARCalls, ARConfirm(c) PROVE [Contract!Next]_runContractVars
    BY <2>3, ARConfirmKeeps
  <2>4. ASSUME NEW c \in ARCalls, ARApprove(c) PROVE [Contract!Next]_runContractVars
    BY <2>4, ARApproveKeeps
  <2>5. ASSUME NEW c \in ARCalls, ARSave(c) PROVE [Contract!Next]_runContractVars
    BY <2>5, ARSaveKeeps
  <2>6. CASE \/ ARPark \/ ARLeaseLapses \/ ARPeople \/ UNCHANGED arVars
             \/ \E c \in ARCalls : \/ ARLoad(c) \/ ARDetail(c) \/ ARReadHead(c) \/ ARSaveDraft(c)
                                   \/ ARMint(c) \/ ARDies(c)
    BY <2>6, ARRestKeeps
  <2>7. QED
    BY <2>1, <2>2, <2>3, <2>4, <2>5, <2>6 DEF ARNext
<1>3. Contract!Spec <=> Contract!Init /\ [][Contract!Next]_runContractVars
  BY DEF Contract!Spec, runContractVars, writtenNow, boundNow
<1>4. QED
  BY <1>1, <1>2, <1>3, ARTypeInit, ARTypeStep, ARTextInit, ARTextStep, ARDoneInit, ARDoneStep,
     ARRunInit, ARRunStep, PTL DEF ARSpec, ImplementsRunContract

=============================================================================
