---------------------------- MODULE CarrierHost ----------------------------
(***************************************************************************)
(* The resident helper's one carrier slot (bridge/on-demand-carrier-host.ts, *)
(* class OnDemandCarrierHost): a tab of the product asks for a carrier, the *)
(* host builds it, and releases it when nobody needs its browser window.    *)
(*                                                                          *)
(* Every handler is one step of the event loop; release() is two: it takes  *)
(* the carrier out of the slot at once and disposes of it later, and a       *)
(* handover or a recycle builds the next carrier in a continuation of it.   *)
(*                                                                          *)
(* Abstracted: the carrier itself, of which the host reads isSettled() and  *)
(* isSurfaceOpen(); clocks, of which only "the window grace has elapsed     *)
(* since the last tab left" is kept.                                        *)
(***************************************************************************)
EXTENDS Naturals, FiniteSets

CONSTANTS
  CHTabs,        \* authenticated sockets, one per connection of a tab
  CHRequests,    \* carrier and channel pairs a tab can ask for
  CHOneRun,      \* those whose carrier servesOneRun
  CHServable,    \* those deps.activate() can build
  CHNone,        \* null
  CHMaxCarriers  \* bound: carriers built

ASSUME CHAssumption ==
  /\ CHOneRun \subseteq CHRequests
  /\ CHServable \subseteq CHRequests
  /\ CHNone \notin CHTabs \cup CHRequests
  /\ CHMaxCarriers \in Nat

CHCarriers == 1..CHMaxCarriers

VARIABLES
  chFresh,     \* sockets that have not connected yet
  chSockets,   \* sockets
  chAttached,  \* attached: the sockets that asked for the active carrier
  chActive,    \* the active carrier, 0 for null
  chKind,      \* what each carrier was built for; CHNone while it is not built
  chRetiring,  \* the carrier the promise `releasing' is about, 0 for null
  chThen,      \* the request a handover or recycle serves after the release
  chElapsed,   \* the window grace has elapsed with no tab attached
  chClosed,    \* closed
  chStopping,  \* the process has begun its shutdown
  chAwaited,   \* the carrier whose disposal the shutdown awaits, 0 for none
  chRun,       \* EXTERNAL: the run of each carrier
  chWindow,    \* EXTERNAL: carriers whose browser window is up
  chDisposing, \* carriers whose dispose() was called
  chShown      \* history: the carrier last announced to each socket, 0 for none

chVars == <<chFresh, chSockets, chAttached, chActive, chKind, chRetiring, chThen,
            chElapsed, chClosed, chStopping, chAwaited, chRun, chWindow, chDisposing, chShown>>

CHAsk == [tab : CHTabs, request : CHRequests]

CHInit ==
  /\ chFresh = CHTabs
  /\ chSockets = {}
  /\ chAttached = {}
  /\ chActive = 0
  /\ chKind = [i \in CHCarriers |-> CHNone]
  /\ chRetiring = 0
  /\ chThen = CHNone
  /\ chElapsed = FALSE
  /\ chClosed = FALSE
  /\ chStopping = FALSE
  /\ chAwaited = 0
  /\ chRun = [i \in CHCarriers |-> "new"]
  /\ chWindow = {}
  /\ chDisposing = {}
  /\ chShown = [w \in CHTabs |-> 0]

CHBuilt == {i \in CHCarriers : chKind[i] # CHNone}

\* isSettled(): over, or never started.
CHSettled(i) == chRun[i] # "running"

-----------------------------------------------------------------------------
(* Building a carrier *)

\* activateFor(): build, attach the asker, announce to every socket.  A request
\* that cannot be served changes nothing; at the bound none can.
CHActivateFor(w, r) ==
  IF r \in CHServable /\ CHBuilt # CHCarriers
  THEN \E i \in CHCarriers \ CHBuilt :
         /\ i = Cardinality(CHBuilt) + 1
         /\ chActive' = i
         /\ chKind' = [chKind EXCEPT ![i] = r]
         /\ chAttached' = chAttached \cup {w}
         /\ chElapsed' = FALSE
         /\ chShown' = [v \in CHTabs |-> IF v \in chSockets THEN i ELSE chShown[v]]
  ELSE UNCHANGED <<chActive, chKind, chAttached, chElapsed, chShown>>

-----------------------------------------------------------------------------
(* Releasing it *)

\* (Broken variant: the tabs stay attached to the empty slot.)
CHReleaseKeepsTabs(next) ==
  /\ chActive' = 0
  /\ chElapsed' = FALSE
  /\ chRetiring' = chActive
  /\ chThen' = next
  /\ chDisposing' = chDisposing \cup {chActive}
  /\ UNCHANGED chAttached

\* The part of release() before its await; `next' is what its caller's then()
\* will serve, or CHNone.
CHRelease(next) ==
  /\ chActive' = 0
  /\ chAttached' = {}
  /\ chElapsed' = FALSE
  /\ chRetiring' = chActive
  /\ chThen' = next
  /\ chDisposing' = chDisposing \cup {chActive}

\* (Broken variant: the continuation does not look at the slot again.)
CHDisposedBlind(i) ==
  /\ i \in chDisposing
  /\ chDisposing' = chDisposing \ {i}
  /\ chWindow' = chWindow \ {i}
  /\ IF chRetiring = i
     THEN /\ chRetiring' = 0
          /\ chThen' = CHNone
          /\ IF chThen # CHNone /\ ~chClosed
             THEN CHActivateFor(chThen.tab, chThen.request)
             ELSE UNCHANGED <<chActive, chKind, chAttached, chElapsed, chShown>>
     ELSE UNCHANGED <<chRetiring, chThen, chActive, chKind, chAttached, chElapsed, chShown>>
  /\ UNCHANGED <<chFresh, chSockets, chClosed, chStopping, chAwaited, chRun>>

\* dispose() resolves: the window is gone.  If this was the release in flight,
\* releasing is null again and the continuation runs, unless the host closed or
\* another carrier took the slot meanwhile.
CHDisposed(i) ==
  /\ i \in chDisposing
  /\ chDisposing' = chDisposing \ {i}
  /\ chWindow' = chWindow \ {i}
  /\ IF chRetiring = i
     THEN /\ chRetiring' = 0
          /\ chThen' = CHNone
          /\ IF chThen # CHNone /\ ~chClosed /\ chActive = 0
             THEN CHActivateFor(chThen.tab, chThen.request)
             ELSE UNCHANGED <<chActive, chKind, chAttached, chElapsed, chShown>>
     ELSE UNCHANGED <<chRetiring, chThen, chActive, chKind, chAttached, chElapsed, chShown>>
  /\ UNCHANGED <<chFresh, chSockets, chClosed, chStopping, chAwaited, chRun>>

-----------------------------------------------------------------------------
(* Sockets *)

\* recyclable(): the active carrier serves one run and nobody is on it.
CHRecyclable == chActive # 0 /\ chKind[chActive] \in CHOneRun /\ chAttached = {}

CHConnect(w) ==
  /\ w \in chFresh
  /\ chFresh' = chFresh \ {w}
  /\ chSockets' = chSockets \cup {w}
  /\ chShown' = IF chActive = 0 \/ CHRecyclable THEN chShown
                ELSE [chShown EXCEPT ![w] = chActive]
  /\ UNCHANGED <<chAttached, chActive, chKind, chRetiring, chThen, chElapsed, chClosed,
                 chStopping, chAwaited, chRun, chWindow, chDisposing>>

\* canRecycle() and canHandOver(): nobody is on the carrier and no release is
\* in flight.
CHCanRecycle(r) == chRetiring = 0 /\ r = chKind[chActive] /\ CHRecyclable
CHCanHandOver(r) == chRetiring = 0 /\ r # chKind[chActive] /\ chAttached = {}

\* The slot is held by a carrier nobody is on: release it, serve the asker after.
CHReplace(w, r) ==
  /\ chActive # 0
  /\ CHCanRecycle(r) \/ CHCanHandOver(r)
  /\ CHRelease([tab |-> w, request |-> r])
  /\ UNCHANGED <<chKind, chShown>>

\* The tab comes back to the carrier it asked for.
CHReannounce(w, r) ==
  /\ chActive # 0
  /\ r = chKind[chActive]
  /\ ~CHCanRecycle(r)
  /\ chAttached' = chAttached \cup {w}
  /\ chElapsed' = FALSE
  /\ chShown' = [chShown EXCEPT ![w] = chActive]
  /\ UNCHANGED <<chActive, chKind, chRetiring, chThen, chDisposing>>

\* An empty slot is filled at once, also while a release is in flight.
CHServe(w, r) ==
  /\ chActive = 0
  /\ CHActivateFor(w, r)
  /\ UNCHANGED <<chRetiring, chThen, chDisposing>>

\* onClientAttachRequest(); a request refused because another carrier is in
\* use, or because the host is closed, changes nothing.
CHAttachRequest(w, r) ==
  /\ w \in chSockets
  /\ ~chClosed
  /\ CHReplace(w, r) \/ CHReannounce(w, r) \/ CHServe(w, r)
  /\ UNCHANGED <<chFresh, chSockets, chClosed, chStopping, chAwaited, chRun, chWindow>>

CHDisconnect(w) ==
  /\ w \in chSockets
  /\ chSockets' = chSockets \ {w}
  /\ chAttached' = chAttached \ {w}
  /\ chElapsed' = IF chAttached = {w} THEN FALSE ELSE chElapsed
  /\ UNCHANGED <<chFresh, chActive, chKind, chRetiring, chThen, chClosed, chStopping,
                 chAwaited, chRun, chWindow, chDisposing, chShown>>

-----------------------------------------------------------------------------
(* The poll *)

\* (Broken variant: a release is started while another is in flight.)
CHReleaseDueTwice ==
  /\ chActive # 0
  /\ ~chClosed
  /\ chAttached = {}
  /\ (CHSettled(chActive) /\ chActive \notin chWindow) \/ chElapsed

\* (Broken variant: only the grace lets a carrier go.)
CHReleaseDueLate ==
  /\ chActive # 0
  /\ ~chClosed
  /\ chRetiring = 0
  /\ chAttached = {}
  /\ chElapsed

\* maybeRelease(): due when nobody is attached and the run is settled with no
\* window up, or the grace has elapsed.
CHReleaseDue ==
  /\ chActive # 0
  /\ ~chClosed
  /\ chRetiring = 0
  /\ chAttached = {}
  /\ (CHSettled(chActive) /\ chActive \notin chWindow) \/ chElapsed

CHPoll ==
  /\ CHReleaseDue
  /\ CHRelease(CHNone)
  /\ UNCHANGED <<chFresh, chSockets, chKind, chClosed, chStopping, chAwaited, chRun, chWindow,
                 chShown>>

CHGraceElapses ==
  /\ chActive # 0 /\ chAttached = {} /\ ~chElapsed
  /\ chElapsed' = TRUE
  /\ UNCHANGED <<chFresh, chSockets, chAttached, chActive, chKind, chRetiring, chThen,
                 chClosed, chStopping, chAwaited, chRun, chWindow, chDisposing, chShown>>

-----------------------------------------------------------------------------
(* The hosted carrier, as the host sees it *)

CHHost == <<chFresh, chSockets, chAttached, chActive, chKind, chRetiring, chThen, chElapsed,
            chClosed, chStopping, chAwaited, chDisposing, chShown>>

\* A connected tab's START_RUN reaches the active carrier, once; the lazy driver
\* opens the window of a running run, and a seller may close it.
CHRunStarts ==
  /\ chActive # 0 /\ chSockets # {} /\ chRun[chActive] = "new"
  /\ chRun' = [chRun EXCEPT ![chActive] = "running"]
  /\ UNCHANGED <<CHHost, chWindow>>
CHRunOpensWindow ==
  /\ chActive # 0 /\ chRun[chActive] = "running"
  /\ chWindow' = chWindow \cup {chActive}
  /\ UNCHANGED <<CHHost, chRun>>
CHRunSettles ==
  /\ chActive # 0 /\ chRun[chActive] = "running"
  /\ chRun' = [chRun EXCEPT ![chActive] = "over"]
  /\ UNCHANGED <<CHHost, chWindow>>
CHSellerShutsWindow ==
  /\ chActive \in chWindow
  /\ chWindow' = chWindow \ {chActive}
  /\ UNCHANGED <<CHHost, chRun>>

-----------------------------------------------------------------------------
(* Shutdown (cli/local-agent.ts: disposeActive(), then close()) *)

\* disposeActive() on an empty slot returns at once, a release in flight or not;
\* otherwise it awaits that release, or the one it starts.
CHStop ==
  /\ ~chStopping
  /\ chStopping' = TRUE
  /\ chAwaited' = IF chActive # 0 /\ chRetiring # 0 THEN chRetiring ELSE chActive
  /\ IF chActive # 0 /\ chRetiring = 0
     THEN CHRelease(CHNone)
     ELSE UNCHANGED <<chActive, chAttached, chElapsed, chRetiring, chThen, chDisposing>>
  /\ UNCHANGED <<chFresh, chSockets, chKind, chClosed, chRun, chWindow, chShown>>

\* close(): what is still in the slot is disposed of without waiting.  A release the
\* shutdown did not await may be in flight: its continuation finds the host closed.
CHClose ==
  /\ chStopping
  /\ ~chClosed
  /\ chAwaited \notin chDisposing
  /\ chClosed' = TRUE
  /\ chActive' = 0
  /\ chAttached' = {}
  /\ chSockets' = {}
  /\ chDisposing' = IF chActive = 0 THEN chDisposing ELSE chDisposing \cup {chActive}
  /\ UNCHANGED <<chFresh, chKind, chRetiring, chThen, chElapsed, chStopping, chAwaited,
                 chRun, chWindow, chShown>>

CHNext ==
  \/ \E w \in CHTabs : CHConnect(w) \/ CHDisconnect(w)
  \/ \E w \in CHTabs, r \in CHRequests : CHAttachRequest(w, r)
  \/ \E i \in CHCarriers : CHDisposed(i)
  \/ CHPoll \/ CHGraceElapses
  \/ CHRunStarts \/ CHRunOpensWindow \/ CHRunSettles \/ CHSellerShutsWindow
  \/ CHStop \/ CHClose

\* The poll is a timer; dispose() ends.
CHFairness ==
  /\ WF_chVars(CHPoll)
  /\ \A i \in CHCarriers : WF_chVars(CHDisposed(i))

CHSpec == CHInit /\ [][CHNext]_chVars /\ CHFairness

-----------------------------------------------------------------------------
(* Properties *)

CHTypeOK ==
  /\ chFresh \subseteq CHTabs /\ chSockets \subseteq CHTabs /\ chAttached \subseteq CHTabs
  /\ chActive \in 0..CHMaxCarriers /\ chRetiring \in 0..CHMaxCarriers
  /\ chKind \in [CHCarriers -> CHRequests \cup {CHNone}]
  /\ chThen \in CHAsk \cup {CHNone}
  /\ chElapsed \in BOOLEAN /\ chClosed \in BOOLEAN /\ chStopping \in BOOLEAN
  /\ chAwaited \in 0..CHMaxCarriers
  /\ chRun \in [CHCarriers -> {"new", "running", "over"}]
  /\ chWindow \subseteq CHCarriers /\ chDisposing \subseteq CHCarriers
  /\ chShown \in [CHTabs -> 0..CHMaxCarriers]

\* Whatever order of requests, disconnections and slow disposals, one window at
\* most is up beside the active carrier's while the host serves: releases do
\* not pile up.
CHOneRetiring == ~chClosed => Cardinality(chWindow \ {chActive}) <= 1

\* A carrier with a live tab on it is never taken from the seller: not by another
\* tab's request, not by a continuation of an older release, not by the poll.
CHWatchedStays ==
  [][(chAttached \cap chSockets \cap chSockets' # {} /\ ~chStopping')
       => chActive' = chActive]_chVars

\* A tab on the carrier was told of that carrier and of no other, although the
\* slot may have changed hands while its request waited.
CHAttachedKnowsItsCarrier ==
  \A w \in chAttached \cap chSockets : chActive # 0 /\ chShown[w] = chActive

\* A carrier that lost the slot still has its window up.  What is up when the host
\* closes is left to the end of the process.
CHStrayWindow == chWindow \ {chActive} # {} /\ ~chClosed

\* The slot is held for nobody: by a carrier whose run is settled, whose window is
\* closed and that no live tab is on.
CHHeldForNobody ==
  /\ chActive # 0 /\ chAttached \cap chSockets = {} /\ ~chClosed
  /\ CHSettled(chActive) /\ chActive \notin chWindow

\* A socket that is gone counts as a tab on the carrier: the tab that asked left
\* while the release before it was disposing, and the continuation attached it.
CHDeadTab == chAttached \ chSockets # {}

=============================================================================
