-------------------------- MODULE CarrierHostProofs --------------------------
(***************************************************************************)
(* Proofs about CarrierHost, for any tabs, requests and number of carriers: *)
(* types; a carrier with a live tab on it stays; a tab on the carrier was    *)
(* told of it; releases do not pile up.                                      *)
(***************************************************************************)
EXTENDS CarrierHost, FiniteSetTheorems, TLAPS

\* The step lemmas have one step per action of CHNext; building and releasing a
\* carrier are parts of several.

-----------------------------------------------------------------------------
(* Types *)

\* A fresh socket has asked for nothing and is on nothing; an empty slot has no
\* tab on it and a release is of a built carrier.
CHTypeInv ==
  /\ CHTypeOK
  /\ chFresh \cap chSockets = {} /\ chFresh \cap chAttached = {}
  /\ chThen # CHNone => chThen \in CHAsk /\ chThen.tab \notin chFresh
  /\ chActive = 0 => chAttached = {}

LEMMA CHTypeInit == CHInit => CHTypeInv
<1> SUFFICES ASSUME CHInit PROVE CHTypeInv
  OBVIOUS
<1> USE CHAssumption DEF CHInit, CHCarriers
<1>1. 0 \in 0..CHMaxCarriers
  OBVIOUS
<1>2. /\ chKind \in [CHCarriers -> CHRequests \cup {CHNone}]
      /\ chRun \in [CHCarriers -> {"new", "running", "over"}]
      /\ chShown \in [CHTabs -> 0..CHMaxCarriers]
  BY <1>1
<1>3. QED
  BY <1>1, <1>2 DEF CHTypeInv, CHTypeOK

LEMMA CHBuildTyped ==
  ASSUME CHTypeInv, NEW w \in CHTabs, NEW r \in CHRequests, CHActivateFor(w, r),
         w \notin chFresh
  PROVE  /\ chActive' \in 0..CHMaxCarriers
         /\ chKind' \in [CHCarriers -> CHRequests \cup {CHNone}]
         /\ chAttached' \subseteq CHTabs /\ chFresh \cap chAttached' = {}
         /\ chElapsed' \in BOOLEAN
         /\ chShown' \in [CHTabs -> 0..CHMaxCarriers]
         /\ chActive' = 0 => chActive = 0 /\ chAttached' = chAttached
<1> USE CHAssumption DEF CHTypeInv, CHTypeOK, CHCarriers
<1>1. CASE r \in CHServable /\ CHBuilt # CHCarriers
  <2>1. PICK i \in CHCarriers \ CHBuilt :
          /\ chActive' = i
          /\ chKind' = [chKind EXCEPT ![i] = r]
          /\ chAttached' = chAttached \cup {w}
          /\ chElapsed' = FALSE
          /\ chShown' = [v \in CHTabs |-> IF v \in chSockets THEN i ELSE chShown[v]]
    BY <1>1 DEF CHActivateFor
  <2>2. i \in 1..CHMaxCarriers /\ i \in 0..CHMaxCarriers /\ i # 0
    OBVIOUS
  <2>3. chShown' \in [CHTabs -> 0..CHMaxCarriers]
    BY <2>1, <2>2
  <2>4. chKind' \in [CHCarriers -> CHRequests \cup {CHNone}]
    BY <2>1
  <2>5. chAttached' \subseteq CHTabs /\ chFresh \cap chAttached' = {}
    <3>1. chAttached' = chAttached \cup {w}
      BY <2>1
    <3>2. chAttached \subseteq CHTabs /\ chFresh \cap chAttached = {} /\ w \notin chFresh
      OBVIOUS
    <3>3. QED
      BY <3>1, <3>2
  <2>6. chActive' \in 0..CHMaxCarriers /\ chActive' # 0 /\ chElapsed' \in BOOLEAN
    BY <2>1, <2>2
  <2>7. QED
    BY <2>3, <2>4, <2>5, <2>6
<1>2. CASE ~(r \in CHServable /\ CHBuilt # CHCarriers)
  BY <1>2 DEF CHActivateFor
<1>3. QED
  BY <1>1, <1>2

LEMMA CHReleaseTyped ==
  ASSUME CHTypeInv, chActive # 0, NEW next, CHRelease(next)
  PROVE  /\ chActive' = 0 /\ chAttached' = {} /\ chElapsed' \in BOOLEAN /\ chThen' = next
         /\ chRetiring' \in 0..CHMaxCarriers
         /\ chDisposing' \subseteq CHCarriers
<1>1. chActive \in CHCarriers
  BY CHAssumption DEF CHTypeInv, CHTypeOK, CHCarriers
<1>2. QED
  BY <1>1 DEF CHRelease, CHTypeInv, CHTypeOK

LEMMA CHTypeStep == CHTypeInv /\ [CHNext]_chVars => CHTypeInv'
<1> SUFFICES ASSUME CHTypeInv, [CHNext]_chVars PROVE CHTypeInv'
  OBVIOUS
<1> USE CHAssumption DEF CHTypeInv, CHTypeOK, CHCarriers
<1>1. ASSUME NEW w \in CHTabs, CHConnect(w) PROVE CHTypeInv'
  BY <1>1 DEF CHConnect
<1>2. ASSUME NEW w \in CHTabs, CHDisconnect(w) PROVE CHTypeInv'
  BY <1>2 DEF CHDisconnect
<1>3. ASSUME NEW w \in CHTabs, NEW r \in CHRequests, CHAttachRequest(w, r) PROVE CHTypeInv'
  <2>1. CASE CHReplace(w, r)
    <3>1. [tab |-> w, request |-> r] \in CHAsk
      BY DEF CHAsk
    <3>2. chActive # 0 /\ CHRelease([tab |-> w, request |-> r])
      BY <2>1 DEF CHReplace
    <3>3. w \notin chFresh
      BY <1>3 DEF CHAttachRequest
    <3>4. UNCHANGED <<chFresh, chSockets, chClosed, chStopping, chAwaited, chRun, chWindow,
                    chKind, chShown>>
      BY <1>3, <2>1 DEF CHAttachRequest, CHReplace
    <3>5. /\ chActive' = 0 /\ chAttached' = {} /\ chElapsed' \in BOOLEAN
          /\ chThen' = [tab |-> w, request |-> r]
          /\ chRetiring' \in 0..CHMaxCarriers /\ chDisposing' \subseteq CHCarriers
      BY <3>2, CHReleaseTyped
    <3>6. chThen'.tab \notin chFresh' /\ chThen' \in CHAsk
      BY <3>1, <3>3, <3>4, <3>5
    <3>7. CHTypeOK'
      BY <3>4, <3>5, <3>6
    <3>8. QED
      BY <3>4, <3>5, <3>6, <3>7
  <2>2. CASE CHReannounce(w, r)
    BY <1>3, <2>2 DEF CHAttachRequest, CHReannounce
  <2>3. CASE CHServe(w, r)
    BY <1>3, <2>3, CHBuildTyped DEF CHAttachRequest, CHServe
  <2>4. QED
    BY <1>3, <2>1, <2>2, <2>3 DEF CHAttachRequest
<1>4. ASSUME NEW i \in CHCarriers, CHDisposed(i) PROVE CHTypeInv'
  <2>1. CASE chRetiring = i /\ chThen # CHNone /\ ~chClosed /\ chActive = 0
    <3>1. chThen.tab \in CHTabs /\ chThen.request \in CHRequests
      BY <2>1 DEF CHAsk
    <3>2. CHActivateFor(chThen.tab, chThen.request)
      BY <1>4, <2>1 DEF CHDisposed
    <3>3. QED
      BY <1>4, <2>1, <3>1, <3>2, CHBuildTyped DEF CHDisposed
  <2>2. CASE ~(chRetiring = i /\ chThen # CHNone /\ ~chClosed /\ chActive = 0)
    BY <1>4, <2>2 DEF CHDisposed
  <2>3. QED
    BY <2>1, <2>2
<1>5. CASE CHPoll
  <2>1. chActive # 0 /\ CHRelease(CHNone)
    BY <1>5 DEF CHPoll, CHReleaseDue
  <2>2. /\ chActive' = 0 /\ chAttached' = {} /\ chElapsed' \in BOOLEAN /\ chThen' = CHNone
        /\ chRetiring' \in 0..CHMaxCarriers /\ chDisposing' \subseteq CHCarriers
    BY <2>1, CHReleaseTyped
  <2>3. UNCHANGED <<chFresh, chSockets, chClosed, chStopping, chAwaited, chRun, chWindow,
                    chKind, chShown>>
    BY <1>5 DEF CHPoll
  <2>4. CHTypeOK'
    BY <2>2, <2>3
  <2>5. QED
    BY <2>2, <2>3, <2>4
<1>6. CASE CHGraceElapses
  BY <1>6 DEF CHGraceElapses
<1>7. CASE CHRunStarts
  BY <1>7 DEF CHRunStarts, CHHost
<1>8. CASE CHRunOpensWindow
  BY <1>8 DEF CHRunOpensWindow, CHHost
<1>9. CASE CHRunSettles
  BY <1>9 DEF CHRunSettles, CHHost
<1>10. CASE CHSellerShutsWindow
  BY <1>10 DEF CHSellerShutsWindow, CHHost
<1>11. CASE CHStop
  <2>1. CASE chActive # 0 /\ chRetiring = 0
    BY <1>11, <2>1, CHReleaseTyped DEF CHStop
  <2>2. CASE ~(chActive # 0 /\ chRetiring = 0)
    BY <1>11, <2>2 DEF CHStop
  <2>3. QED
    BY <2>1, <2>2
<1>12. CASE CHClose
  BY <1>12 DEF CHClose
<1>13. CASE UNCHANGED chVars
  BY <1>13 DEF chVars
<1>14. QED
  BY <1>1, <1>2, <1>3, <1>4, <1>5, <1>6, <1>7, <1>8, <1>9, <1>10, <1>11, <1>12, <1>13
     DEF CHNext

\* The host's fields keep their types, whatever order requests, disposals and the
\* shutdown come in.
THEOREM CHTypeCorrect == CHSpec => []CHTypeOK
<1>1. CHTypeInv => CHTypeOK
  BY DEF CHTypeInv
<1>2. QED
  BY <1>1, CHTypeInit, CHTypeStep, PTL DEF CHSpec

-----------------------------------------------------------------------------
(* What a tab was told *)

LEMMA CHKnownInit == CHInit => CHAttachedKnowsItsCarrier
  BY DEF CHInit, CHAttachedKnowsItsCarrier

\* A carrier built for an empty slot is announced to every socket.
LEMMA CHBuildTells ==
  ASSUME CHTypeInv, NEW w \in CHTabs, NEW r \in CHRequests, CHActivateFor(w, r), chActive = 0,
         chSockets' = chSockets
  PROVE  CHAttachedKnowsItsCarrier'
<1> USE DEF CHAttachedKnowsItsCarrier, CHTypeInv, CHTypeOK
<1>1. CASE r \in CHServable /\ CHBuilt # CHCarriers
  <2>1. PICK i \in CHCarriers \ CHBuilt :
          /\ chActive' = i
          /\ chShown' = [v \in CHTabs |-> IF v \in chSockets THEN i ELSE chShown[v]]
    BY <1>1 DEF CHActivateFor
  <2>2. i # 0
    BY CHAssumption DEF CHCarriers
  <2>3. QED
    BY <2>1, <2>2
<1>2. CASE ~(r \in CHServable /\ CHBuilt # CHCarriers)
  BY <1>2 DEF CHActivateFor
<1>3. QED
  BY <1>1, <1>2

LEMMA CHKnownStep ==
  CHTypeInv /\ CHAttachedKnowsItsCarrier /\ [CHNext]_chVars => CHAttachedKnowsItsCarrier'
<1> SUFFICES ASSUME CHTypeInv, CHAttachedKnowsItsCarrier, [CHNext]_chVars
             PROVE  CHAttachedKnowsItsCarrier'
  OBVIOUS
<1> USE DEF CHAttachedKnowsItsCarrier, CHTypeInv, CHTypeOK
<1>1. ASSUME NEW w \in CHTabs, CHConnect(w) PROVE CHAttachedKnowsItsCarrier'
  BY <1>1 DEF CHConnect
<1>2. ASSUME NEW w \in CHTabs, CHDisconnect(w) PROVE CHAttachedKnowsItsCarrier'
  BY <1>2 DEF CHDisconnect
<1>3. ASSUME NEW w \in CHTabs, NEW r \in CHRequests, CHAttachRequest(w, r) PROVE CHAttachedKnowsItsCarrier'
  <2>1. CASE CHReplace(w, r)
    BY <1>3, <2>1 DEF CHAttachRequest, CHReplace, CHRelease
  <2>2. CASE CHReannounce(w, r)
    BY <1>3, <2>2 DEF CHAttachRequest, CHReannounce
  <2>3. CASE CHServe(w, r)
    BY <1>3, <2>3, CHBuildTells DEF CHAttachRequest, CHServe
  <2>4. QED
    BY <1>3, <2>1, <2>2, <2>3 DEF CHAttachRequest
<1>4. ASSUME NEW i \in CHCarriers, CHDisposed(i) PROVE CHAttachedKnowsItsCarrier'
  <2>1. CASE chRetiring = i /\ chThen # CHNone /\ ~chClosed /\ chActive = 0
    <3>1. chThen.tab \in CHTabs /\ chThen.request \in CHRequests
      BY <2>1 DEF CHAsk
    <3>2. CHActivateFor(chThen.tab, chThen.request) /\ chSockets' = chSockets
      BY <1>4, <2>1 DEF CHDisposed
    <3>3. QED
      BY <2>1, <3>1, <3>2, CHBuildTells
  <2>2. CASE ~(chRetiring = i /\ chThen # CHNone /\ ~chClosed /\ chActive = 0)
    BY <1>4, <2>2 DEF CHDisposed
  <2>3. QED
    BY <2>1, <2>2
<1>5. CASE CHPoll
  BY <1>5 DEF CHPoll, CHRelease, CHReleaseDue
<1>6. CASE CHGraceElapses
  BY <1>6 DEF CHGraceElapses
<1>7. CASE CHRunStarts
  BY <1>7 DEF CHRunStarts, CHHost
<1>8. CASE CHRunOpensWindow
  BY <1>8 DEF CHRunOpensWindow, CHHost
<1>9. CASE CHRunSettles
  BY <1>9 DEF CHRunSettles, CHHost
<1>10. CASE CHSellerShutsWindow
  BY <1>10 DEF CHSellerShutsWindow, CHHost
<1>11. CASE CHStop
  BY <1>11 DEF CHStop, CHRelease
<1>12. CASE CHClose
  BY <1>12 DEF CHClose
<1>13. CASE UNCHANGED chVars
  BY <1>13 DEF chVars
<1>14. QED
  BY <1>1, <1>2, <1>3, <1>4, <1>5, <1>6, <1>7, <1>8, <1>9, <1>10, <1>11, <1>12,
     <1>13 DEF CHNext

\* A connected tab on the carrier was announced exactly that carrier, also when the
\* slot changed hands while the tab's request waited for a release.
THEOREM CHAttachedKnows == CHSpec => []CHAttachedKnowsItsCarrier
  BY CHTypeInit, CHTypeStep, CHKnownInit, CHKnownStep, PTL DEF CHSpec

-----------------------------------------------------------------------------
(* The carrier a seller is on *)

LEMMA CHWatchedStep ==
  ASSUME CHTypeInv, CHNext, chAttached \cap chSockets \cap chSockets' # {}, ~chStopping'
  PROVE  chActive' = chActive
<1> USE DEF CHTypeInv
<1>0. chAttached # {} /\ chActive # 0
  OBVIOUS
<1>1. ASSUME NEW w \in CHTabs, CHConnect(w) PROVE chActive' = chActive
  BY <1>1 DEF CHConnect
<1>2. ASSUME NEW w \in CHTabs, CHDisconnect(w) PROVE chActive' = chActive
  BY <1>2 DEF CHDisconnect
<1>3. ASSUME NEW w \in CHTabs, NEW r \in CHRequests, CHAttachRequest(w, r) PROVE chActive' = chActive
  BY <1>0, <1>3 DEF CHAttachRequest, CHReplace, CHCanRecycle, CHRecyclable, CHCanHandOver,
                  CHReannounce, CHServe
<1>4. ASSUME NEW i \in CHCarriers, CHDisposed(i) PROVE chActive' = chActive
  BY <1>0, <1>4 DEF CHDisposed
<1>5. CASE CHPoll
  BY <1>0, <1>5 DEF CHPoll, CHReleaseDue
<1>6. CASE CHGraceElapses
  BY <1>6 DEF CHGraceElapses
<1>7. CASE CHRunStarts
  BY <1>7 DEF CHRunStarts, CHHost
<1>8. CASE CHRunOpensWindow
  BY <1>8 DEF CHRunOpensWindow, CHHost
<1>9. CASE CHRunSettles
  BY <1>9 DEF CHRunSettles, CHHost
<1>10. CASE CHSellerShutsWindow
  BY <1>10 DEF CHSellerShutsWindow, CHHost
<1>11. CASE CHStop
  BY <1>11 DEF CHStop
<1>12. CASE CHClose
  BY <1>12 DEF CHClose
<1>13. QED
  BY <1>1, <1>2, <1>3, <1>4, <1>5, <1>6, <1>7, <1>8, <1>9, <1>10, <1>11, <1>12 DEF CHNext

\* No request, continuation or poll takes a carrier with a live tab on it.
THEOREM CHWatchedIsKept == CHSpec => CHWatchedStays
<1>1. CHTypeInv /\ [CHNext]_chVars =>
        [(chAttached \cap chSockets \cap chSockets' # {} /\ ~chStopping')
           => chActive' = chActive]_chVars
  BY CHWatchedStep
<1>2. QED
  BY <1>1, CHTypeInit, CHTypeStep, PTL DEF CHSpec, CHWatchedStays

-----------------------------------------------------------------------------
(* Releases *)

\* While the host serves, every window is the active carrier's or that of the one
\* release in flight, and only that one is being disposed of.
CHWindowInv ==
  ~chClosed => chWindow \subseteq {chActive, chRetiring} /\ chDisposing \subseteq {chRetiring}

LEMMA CHWindowInit == CHInit => CHWindowInv
  BY DEF CHInit, CHWindowInv

LEMMA CHWindowStep == CHTypeInv /\ CHWindowInv /\ [CHNext]_chVars => CHWindowInv'
<1> SUFFICES ASSUME CHTypeInv, CHWindowInv, [CHNext]_chVars PROVE CHWindowInv'
  OBVIOUS
<1> USE DEF CHWindowInv, CHTypeInv, CHTypeOK
<1>0. 0 \notin CHCarriers
  BY CHAssumption DEF CHCarriers
<1>1. ASSUME NEW w \in CHTabs, CHConnect(w) PROVE CHWindowInv'
  BY <1>1 DEF CHConnect
<1>2. ASSUME NEW w \in CHTabs, CHDisconnect(w) PROVE CHWindowInv'
  BY <1>2 DEF CHDisconnect
<1>3. ASSUME NEW w \in CHTabs, NEW r \in CHRequests, CHAttachRequest(w, r) PROVE CHWindowInv'
  <2>1. CASE CHReplace(w, r)
    BY <1>0, <1>3, <2>1 DEF CHAttachRequest, CHReplace, CHRelease, CHCanRecycle, CHCanHandOver
  <2>2. CASE CHReannounce(w, r)
    BY <1>3, <2>2 DEF CHAttachRequest, CHReannounce
  <2>3. CASE CHServe(w, r)
    BY <1>0, <1>3, <2>3 DEF CHAttachRequest, CHServe, CHActivateFor
  <2>4. QED
    BY <1>3, <2>1, <2>2, <2>3 DEF CHAttachRequest
<1>4. ASSUME NEW i \in CHCarriers, CHDisposed(i) PROVE CHWindowInv'
  BY <1>0, <1>4 DEF CHDisposed, CHActivateFor
<1>5. CASE CHPoll
  BY <1>0, <1>5 DEF CHPoll, CHRelease, CHReleaseDue
<1>6. CASE CHGraceElapses
  BY <1>6 DEF CHGraceElapses
<1>7. CASE CHRunStarts
  BY <1>7 DEF CHRunStarts, CHHost
<1>8. CASE CHRunOpensWindow
  BY <1>8 DEF CHRunOpensWindow, CHHost
<1>9. CASE CHRunSettles
  BY <1>9 DEF CHRunSettles, CHHost
<1>10. CASE CHSellerShutsWindow
  BY <1>10 DEF CHSellerShutsWindow, CHHost
<1>11. CASE CHStop
  BY <1>0, <1>11 DEF CHStop, CHRelease
<1>12. CASE CHClose
  BY <1>12 DEF CHClose
<1>13. CASE UNCHANGED chVars
  BY <1>13 DEF chVars
<1>14. QED
  BY <1>1, <1>2, <1>3, <1>4, <1>5, <1>6, <1>7, <1>8, <1>9, <1>10, <1>11, <1>12,
     <1>13 DEF CHNext

\* Of the windows that are up one at most is not the active carrier's: the retiring one's.
LEMMA CHWindowsBound == ASSUME CHWindowInv PROVE CHOneRetiring
<1> SUFFICES ASSUME ~chClosed PROVE Cardinality(chWindow \ {chActive}) <= 1
  BY DEF CHOneRetiring
<1>1. chWindow \ {chActive} \subseteq {chRetiring}
  BY DEF CHWindowInv
<1>2. IsFiniteSet({chRetiring}) /\ Cardinality({chRetiring}) = 1
  BY FS_Singleton
<1>3. Cardinality(chWindow \ {chActive}) <= Cardinality({chRetiring})
  BY <1>1, <1>2, FS_Subset
<1>4. QED
  BY <1>2, <1>3

\* One window at most is up beside the active carrier's.
THEOREM CHReleasesDoNotPile == CHSpec => []CHOneRetiring
  BY CHWindowsBound, CHTypeInit, CHTypeStep, CHWindowInit, CHWindowStep, PTL DEF CHSpec

=============================================================================
