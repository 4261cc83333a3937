--------------------------- MODULE SessionsProofs ---------------------------
(***************************************************************************)
(* Theorems about what two nodes and the platform tell each other.  The    *)
(* provider's handler, for any number of offers and sessions.  The         *)
(* consumer's manager, for any number of sessions and of calls of          *)
(* close_session: the types always hold, and while no keepalive fails, no  *)
(* transport is lost and no keepalive follows a close.  The handshake, for *)
(* any number of connects on one relay, any sessions and buyers they are made*)
(* for, and any time.  The trust channel, for any number of callers, senders,*)
(* keys and messages and any cap of the backoff.                           *)
(***************************************************************************)
EXTENDS ProviderSessions, ConsumerSessions, Handshake, TrustChannel, FiniteSetTheorems,
        TLAPS

-----------------------------------------------------------------------------
(* ProviderSessions.                                                       *)

(***************************************************************************)
(* Every step keeps the types, together with OffersArrive: a finally looks *)
(* up its session id in the tables, so a task must have one.               *)
(***************************************************************************)
LEMMA HandlerTypeStep ==
  ASSUME TypeOK, OffersArrive, [Next]_vars
  PROVE  TypeOK' /\ OffersArrive'
<1> USE ProviderAssumption DEF TypeOK, OffersArrive, Links, Procs, sessionVars, stopVars, healthVars
<1>1. ASSUME NEW e \in Offers, NEW s \in Sessions, NEW relay \in BOOLEAN,
             Negotiate(e, s, relay)
      PROVE  TypeOK' /\ OffersArrive'
  BY <1>1 DEF Negotiate, Wanted, MayOffer
<1>2. ASSUME NEW e \in Offers, Connected(e) PROVE TypeOK' /\ OffersArrive'
  BY <1>2 DEF Connected
<1>3. ASSUME NEW e \in Offers, ConnectFails(e) PROVE TypeOK' /\ OffersArrive'
  BY <1>3 DEF ConnectFails
<1>4. ASSUME NEW e \in Offers, ProcessStarts(e) PROVE TypeOK' /\ OffersArrive'
  BY <1>4 DEF ProcessStarts
<1>5. ASSUME NEW e \in Offers, ProcessCancelled(e) PROVE TypeOK' /\ OffersArrive'
  BY <1>5 DEF ProcessCancelled, Finally, Closing
<1>6. ASSUME NEW e \in Offers, CleanupEnds(e) PROVE TypeOK' /\ OffersArrive'
  BY <1>6 DEF CleanupEnds
<1>7. ASSUME NEW e \in Offers, ProcessFails(e) PROVE TypeOK' /\ OffersArrive'
  BY <1>7 DEF ProcessFails, Finally, Closing
<1>8. ASSUME NEW e \in Offers, HeartbeatCloses(e) PROVE TypeOK' /\ OffersArrive'
  BY <1>8 DEF HeartbeatCloses, Closing
<1>9. ASSUME NEW e \in Offers, CloseEnds(e) PROVE TypeOK' /\ OffersArrive'
  BY <1>9 DEF CloseEnds
<1>10. ASSUME NEW ok \in BOOLEAN, HealthCheck(ok) PROVE TypeOK' /\ OffersArrive'
  BY <1>10 DEF HealthCheck
<1>11. ASSUME HealthRaises PROVE TypeOK' /\ OffersArrive'
  BY <1>11 DEF HealthRaises
<1>12. ASSUME StopBegins PROVE TypeOK' /\ OffersArrive'
  BY <1>12 DEF StopBegins
<1>13. ASSUME StopCancels PROVE TypeOK' /\ OffersArrive'
  BY <1>13 DEF StopCancels
<1>14. ASSUME StopCollects PROVE TypeOK' /\ OffersArrive'
  BY <1>14 DEF StopCollects
<1>15. ASSUME NEW e \in Offers, StopCloses(e) PROVE TypeOK' /\ OffersArrive'
  BY <1>15 DEF StopCloses, Closing
<1>16. ASSUME NEW e \in Offers, StopClosed(e) PROVE TypeOK' /\ OffersArrive'
  BY <1>16 DEF StopClosed
<1>17. ASSUME StopEnds PROVE TypeOK' /\ OffersArrive'
  BY <1>17 DEF StopEnds
<1>18. CASE UNCHANGED vars
  BY <1>18 DEF vars
<1> QED
  BY <1>1, <1>2, <1>3, <1>4, <1>5, <1>6, <1>7, <1>8, <1>9, <1>10, <1>11, <1>12,
     <1>13, <1>14, <1>15, <1>16, <1>17, <1>18
     DEF Next, Process, Stopping

(***************************************************************************)
(* The type invariant of ProviderSessionHandler, with offers that overlap  *)
(* and health checks that raise.                                           *)
(***************************************************************************)
THEOREM HandlerTypeCorrect == Spec => []TypeOK
<1>1. Init => TypeOK /\ OffersArrive
  BY ProviderAssumption DEF Init, TypeOK, OffersArrive, Links, Procs
<1>2. (TypeOK /\ OffersArrive) /\ [Next]_vars => (TypeOK /\ OffersArrive)'
  BY HandlerTypeStep
<1> QED
  BY <1>1, <1>2, PTL DEF Spec

-----------------------------------------------------------------------------
\* Every step keeps the inductive invariant if no two offers of a session overlap.
LEMMA HandlerInvStep ==
  ASSUME Overlap = FALSE, HandlerInv, [Next]_vars
  PROVE  HandlerInv'
<1>0. TypeOK' /\ OffersArrive'
  BY HandlerTypeStep DEF HandlerInv
<1> USE ProviderAssumption, <1>0
        DEF HandlerInv, OffersArrive, ConnectsAlone, ActiveKeyed, LinksOwned, TypeOK,
            Links, Procs, sessionVars, stopVars, healthVars
<1>1. ASSUME NEW e \in Offers, NEW s \in Sessions, NEW relay \in BOOLEAN,
             Negotiate(e, s, relay)
      PROVE  HandlerInv'
  BY <1>1 DEF Negotiate, Wanted, MayOffer
<1>2. ASSUME NEW e \in Offers, Connected(e) PROVE HandlerInv'
  BY <1>2 DEF Connected
<1>3. ASSUME NEW e \in Offers, ConnectFails(e) PROVE HandlerInv'
  BY <1>3 DEF ConnectFails
<1>4. ASSUME NEW e \in Offers, ProcessStarts(e) PROVE HandlerInv'
  BY <1>4 DEF ProcessStarts
<1>5. ASSUME NEW e \in Offers, ProcessCancelled(e) PROVE HandlerInv'
  BY <1>5 DEF ProcessCancelled, Finally, Closing
<1>6. ASSUME NEW e \in Offers, CleanupEnds(e) PROVE HandlerInv'
  BY <1>6 DEF CleanupEnds
<1>7. ASSUME NEW e \in Offers, ProcessFails(e) PROVE HandlerInv'
  BY <1>7 DEF ProcessFails, Finally, Closing
<1>8. ASSUME NEW e \in Offers, HeartbeatCloses(e) PROVE HandlerInv'
  BY <1>8 DEF HeartbeatCloses, Closing
<1>9. ASSUME NEW e \in Offers, CloseEnds(e) PROVE HandlerInv'
  BY <1>9 DEF CloseEnds
<1>10. ASSUME NEW ok \in BOOLEAN, HealthCheck(ok) PROVE HandlerInv'
  BY <1>10 DEF HealthCheck
<1>11. ASSUME HealthRaises PROVE HandlerInv'
  BY <1>11 DEF HealthRaises
<1>12. ASSUME StopBegins PROVE HandlerInv'
  BY <1>12 DEF StopBegins
<1>13. ASSUME StopCancels PROVE HandlerInv'
  BY <1>13 DEF StopCancels
<1>14. ASSUME StopCollects PROVE HandlerInv'
  BY <1>14 DEF StopCollects
<1>15. ASSUME NEW e \in Offers, StopCloses(e) PROVE HandlerInv'
  BY <1>15 DEF StopCloses, Closing
<1>16. ASSUME NEW e \in Offers, StopClosed(e) PROVE HandlerInv'
  BY <1>16 DEF StopClosed
<1>17. ASSUME StopEnds PROVE HandlerInv'
  BY <1>17 DEF StopEnds
<1>18. CASE UNCHANGED vars
  BY <1>18 DEF vars
<1> QED
  BY <1>1, <1>2, <1>3, <1>4, <1>5, <1>6, <1>7, <1>8, <1>9, <1>10, <1>11, <1>12,
     <1>13, <1>14, <1>15, <1>16, <1>17, <1>18
     DEF Next, Process, Stopping

\* The inductive invariant holds if no two offers of a session overlap.
THEOREM HandlerInvariant ==
  ASSUME Overlap = FALSE
  PROVE  Spec => []HandlerInv
<1>1. Init => HandlerInv
  BY ProviderAssumption
     DEF Init, HandlerInv, TypeOK, OffersArrive, ConnectsAlone, ActiveKeyed, LinksOwned,
         Links, Procs
<1>2. HandlerInv /\ [Next]_vars => HandlerInv'
  BY HandlerInvStep
<1> QED
  BY <1>1, <1>2, PTL DEF Spec

(***************************************************************************)
(* No path through connect, _process_session and stop() puts a live        *)
(* transport out of the handler's reach, for any number of offers, as long *)
(* as no offer is repeated while it is being connected.                    *)
(***************************************************************************)
THEOREM NoLinkLost ==
  ASSUME Overlap = FALSE
  PROVE  Spec => []LinksOwned
<1>1. HandlerInv => LinksOwned
  BY DEF HandlerInv
<1> QED
  BY HandlerInvariant, <1>1, PTL

\* Under the same condition a session of a handler that is not stopping has at
\* most one live transport.
THEOREM SessionsHaveOneLink ==
  ASSUME Overlap = FALSE
  PROVE  Spec => []OneLinkPerSession
<1>1. HandlerInv => OneLinkPerSession
  BY DEF HandlerInv, LinksOwned, OneLinkPerSession
<1> QED
  BY HandlerInvariant, <1>1, PTL

(***************************************************************************)
(* The adapter's _healthy says exactly that fewer than FailureLimit of its *)
(* last answers were failures in a row.                                    *)
(***************************************************************************)
THEOREM HealthIsCount == Spec => []HealthAgrees
<1>1. Init => HealthAgrees
  BY ProviderAssumption DEF Init, HealthAgrees
<1>2. TypeOK /\ HealthAgrees /\ [Next]_vars => HealthAgrees'
  <2> SUFFICES ASSUME TypeOK, HealthAgrees, [Next]_vars PROVE HealthAgrees'
    OBVIOUS
  <2>1. ASSUME NEW ok \in BOOLEAN, HealthCheck(ok) PROVE HealthAgrees'
    BY <2>1, ProviderAssumption DEF HealthCheck, HealthAgrees, TypeOK
  <2>2. ASSUME UNCHANGED <<failures, healthy>> PROVE HealthAgrees'
    BY <2>2 DEF HealthAgrees
  <2> QED
    BY <2>1, <2>2
       DEF Next, Process, Stopping, vars, healthVars, Negotiate, Connected, ConnectFails,
           ProcessStarts, ProcessCancelled, CleanupEnds, ProcessFails, HeartbeatCloses,
           CloseEnds, HealthRaises, StopBegins, StopCancels, StopCollects, StopCloses,
           StopClosed, StopEnds
<1> QED
  BY <1>1, <1>2, HandlerTypeCorrect, PTL DEF Spec

\* All that the handler promises of its tables and its adapter, for any number
\* of offers that are not repeated while they connect.
THEOREM LinksAreSafe ==
  ASSUME Overlap = FALSE
  PROVE  Spec => []LinksSafe
  BY HandlerTypeCorrect, NoLinkLost, SessionsHaveOneLink, HealthIsCount, PTL DEF LinksSafe

-----------------------------------------------------------------------------
(* ConsumerSessions.                                                       *)

\* A step keeps the types, whatever fails.
LEMMA ManagerTypeStep ==
  ASSUME ConsumerTypeOK, [ConsumerNext]_consumerVars
  PROVE  ConsumerTypeOK'
<1> USE DEF ConsumerTypeOK
<1>1. ASSUME NEW s \in ConsumerIds, Connect(s) PROVE ConsumerTypeOK'
  BY <1>1 DEF Connect
<1>2. ASSUME NEW s \in ConsumerIds, Negotiated(s) PROVE ConsumerTypeOK'
  BY <1>2 DEF Negotiated, Register
<1>3. ASSUME NEW s \in ConsumerIds, Dialed(s) PROVE ConsumerTypeOK'
  BY <1>3 DEF Dialed, Register
<1>4. ASSUME NEW s \in ConsumerIds, ConnectRaises(s) PROVE ConsumerTypeOK'
  BY <1>4 DEF ConnectRaises
<1>5. ASSUME NEW s \in ConsumerIds, KeepaliveCalls(s) PROVE ConsumerTypeOK'
  BY <1>5 DEF KeepaliveCalls
<1>6. ASSUME NEW s \in ConsumerIds, KeepaliveReturns(s) PROVE ConsumerTypeOK'
  BY <1>6 DEF KeepaliveReturns
<1>7. ASSUME NEW s \in ConsumerIds, HeartbeatGivesUp(s) PROVE ConsumerTypeOK'
  BY <1>7 DEF HeartbeatGivesUp
<1>8. ASSUME NEW s \in ConsumerIds, TransportCloses(s) PROVE ConsumerTypeOK'
  BY <1>8 DEF TransportCloses
<1>9. ASSUME NEW s \in ConsumerIds, NEW k \in Closers, CloseSession(k, s) PROVE ConsumerTypeOK'
  BY <1>9 DEF CloseSession
<1>10. ASSUME NEW k \in Closers, CloseReturns(k) PROVE ConsumerTypeOK'
  BY <1>10 DEF CloseReturns
<1>11. ASSUME NEW k \in Closers, NEW ok \in BOOLEAN, MarketAnswers(k, ok) PROVE ConsumerTypeOK'
  BY <1>11 DEF MarketAnswers, Closable
<1>12. CASE UNCHANGED consumerVars
  BY <1>12 DEF consumerVars
<1> QED
  BY <1>1, <1>2, <1>3, <1>4, <1>5, <1>6, <1>7, <1>8, <1>9, <1>10, <1>11, <1>12
     DEF ConsumerNext, CloserSteps

\* The type invariant of SessionManager, whatever fails.
THEOREM ManagerTypeCorrect == ConsumerSpec => []ConsumerTypeOK
<1>1. ConsumerInit => ConsumerTypeOK
  BY DEF ConsumerInit, ConsumerTypeOK
<1>2. ConsumerTypeOK /\ [ConsumerNext]_consumerVars => ConsumerTypeOK'
  BY ManagerTypeStep
<1> QED
  BY <1>1, <1>2, PTL DEF ConsumerSpec

-----------------------------------------------------------------------------
\* Every step of SessionManager keeps the inductive invariant while no keepalive
\* can fail: one case per action.
LEMMA ManagerInvStep ==
  ASSUME KeepaliveMayFail = FALSE, ManagerInv, [ConsumerNext]_consumerVars
  PROVE  ManagerInv'
<1>0. ConsumerTypeOK'
  BY ManagerTypeStep DEF ManagerInv
<1> USE ConsumerAssumption DEF ManagerInv, ConsumerTypeOK, TablesAgree, KeepersListed, NoneFailed,
        LinksRegistered, ClosersBusy, ClosedByUs, TransportsReachable,
        NoKeepaliveAfterClose, CloseMeansClosed
<1>1. ASSUME NEW s \in ConsumerIds, Connect(s) PROVE ManagerInv'
  <2>1. TablesAgree' /\ KeepersListed' /\ NoneFailed'
    BY <1>1 DEF Connect
  <2>2. LinksRegistered' /\ ClosedByUs'
    BY <1>1 DEF Connect
  <2>3. ClosersBusy'
    BY <1>1 DEF Connect
  <2>4. TransportsReachable' /\ NoKeepaliveAfterClose' /\ CloseMeansClosed'
    BY <1>1 DEF Connect
  <2> QED BY ONLY <1>0, <2>1, <2>2, <2>3, <2>4, Zenon DEF ManagerInv
<1>2. ASSUME NEW s \in ConsumerIds, Negotiated(s) PROVE ManagerInv'
  <2>1. TablesAgree' /\ KeepersListed' /\ NoneFailed'
    BY <1>2 DEF Negotiated, Register
  <2>2. LinksRegistered' /\ ClosedByUs'
    BY <1>2 DEF Negotiated, Register
  <2>3. ClosersBusy'
    BY <1>2 DEF Negotiated, Register
  <2>4. TransportsReachable' /\ NoKeepaliveAfterClose' /\ CloseMeansClosed'
    BY <1>2 DEF Negotiated, Register
  <2> QED BY ONLY <1>0, <2>1, <2>2, <2>3, <2>4, Zenon DEF ManagerInv
<1>3. ASSUME NEW s \in ConsumerIds, Dialed(s) PROVE ManagerInv'
  <2>1. TablesAgree' /\ KeepersListed' /\ NoneFailed'
    BY <1>3 DEF Dialed, Register
  <2>2. LinksRegistered' /\ ClosedByUs'
    BY <1>3 DEF Dialed, Register
  <2>3. ClosersBusy'
    BY <1>3 DEF Dialed, Register
  <2>4. TransportsReachable' /\ NoKeepaliveAfterClose' /\ CloseMeansClosed'
    BY <1>3 DEF Dialed, Register
  <2> QED BY ONLY <1>0, <2>1, <2>2, <2>3, <2>4, Zenon DEF ManagerInv
<1>4. ASSUME NEW s \in ConsumerIds, ConnectRaises(s) PROVE ManagerInv'
  <2>1. TablesAgree' /\ KeepersListed' /\ NoneFailed'
    BY <1>4 DEF ConnectRaises
  <2>2. LinksRegistered' /\ ClosedByUs'
    BY <1>4 DEF ConnectRaises
  <2>3. ClosersBusy'
    BY <1>4 DEF ConnectRaises
  <2>4. TransportsReachable' /\ NoKeepaliveAfterClose' /\ CloseMeansClosed'
    BY <1>4 DEF ConnectRaises
  <2> QED BY ONLY <1>0, <2>1, <2>2, <2>3, <2>4, Zenon DEF ManagerInv
<1>5. ASSUME NEW s \in ConsumerIds, KeepaliveCalls(s) PROVE ManagerInv'
  <2>1. TablesAgree' /\ KeepersListed' /\ NoneFailed'
    BY <1>5 DEF KeepaliveCalls
  <2>2. LinksRegistered' /\ ClosedByUs'
    BY <1>5 DEF KeepaliveCalls
  <2>3. ClosersBusy'
    BY <1>5 DEF KeepaliveCalls
  <2>4. TransportsReachable' /\ NoKeepaliveAfterClose' /\ CloseMeansClosed'
    BY <1>5 DEF KeepaliveCalls
  <2> QED BY ONLY <1>0, <2>1, <2>2, <2>3, <2>4, Zenon DEF ManagerInv
<1>6. ASSUME NEW s \in ConsumerIds, KeepaliveReturns(s) PROVE ManagerInv'
  <2>1. TablesAgree' /\ KeepersListed' /\ NoneFailed'
    BY <1>6 DEF KeepaliveReturns
  <2>2. LinksRegistered' /\ ClosedByUs'
    BY <1>6 DEF KeepaliveReturns
  <2>3. ClosersBusy'
    BY <1>6 DEF KeepaliveReturns
  <2>4. TransportsReachable' /\ NoKeepaliveAfterClose' /\ CloseMeansClosed'
    BY <1>6 DEF KeepaliveReturns
  <2> QED BY ONLY <1>0, <2>1, <2>2, <2>3, <2>4, Zenon DEF ManagerInv
<1>7. ASSUME NEW s \in ConsumerIds, HeartbeatGivesUp(s) PROVE ManagerInv'
  <2>1. TablesAgree' /\ KeepersListed' /\ NoneFailed'
    BY <1>7 DEF HeartbeatGivesUp
  <2>2. LinksRegistered' /\ ClosedByUs'
    BY <1>7 DEF HeartbeatGivesUp
  <2>3. ClosersBusy'
    BY <1>7 DEF HeartbeatGivesUp
  <2>4. TransportsReachable' /\ NoKeepaliveAfterClose' /\ CloseMeansClosed'
    BY <1>7 DEF HeartbeatGivesUp
  <2> QED BY ONLY <1>0, <2>1, <2>2, <2>3, <2>4, Zenon DEF ManagerInv
<1>8. ASSUME NEW s \in ConsumerIds, TransportCloses(s) PROVE ManagerInv'
  <2>1. TablesAgree' /\ KeepersListed' /\ NoneFailed'
    BY <1>8 DEF TransportCloses
  <2>2. LinksRegistered' /\ ClosedByUs'
    BY <1>8 DEF TransportCloses
  <2>3. ClosersBusy'
    BY <1>8 DEF TransportCloses
  <2>4. TransportsReachable' /\ NoKeepaliveAfterClose' /\ CloseMeansClosed'
    BY <1>8 DEF TransportCloses
  <2> QED BY ONLY <1>0, <2>1, <2>2, <2>3, <2>4, Zenon DEF ManagerInv
<1>9. ASSUME NEW s \in ConsumerIds, NEW k \in Closers, CloseSession(k, s) PROVE ManagerInv'
  <2>1. TablesAgree' /\ KeepersListed' /\ NoneFailed'
    BY <1>9 DEF CloseSession
  <2>2. LinksRegistered' /\ ClosedByUs'
    BY <1>9 DEF CloseSession
  <2>3. ClosersBusy'
    BY <1>9 DEF CloseSession
  <2>4. TransportsReachable' /\ NoKeepaliveAfterClose' /\ CloseMeansClosed'
    BY <1>9 DEF CloseSession
  <2> QED BY ONLY <1>0, <2>1, <2>2, <2>3, <2>4, Zenon DEF ManagerInv
<1>10. ASSUME NEW k \in Closers, CloseReturns(k) PROVE ManagerInv'
  <2>1. TablesAgree' /\ KeepersListed' /\ NoneFailed'
    BY <1>10 DEF CloseReturns
  <2>2. LinksRegistered' /\ ClosedByUs'
    BY <1>10 DEF CloseReturns
  <2>3. ClosersBusy'
    BY <1>10 DEF CloseReturns
  <2>4. TransportsReachable' /\ NoKeepaliveAfterClose' /\ CloseMeansClosed'
    BY <1>10 DEF CloseReturns
  <2> QED BY ONLY <1>0, <2>1, <2>2, <2>3, <2>4, Zenon DEF ManagerInv
<1>11. ASSUME NEW k \in Closers, NEW ok \in BOOLEAN, MarketAnswers(k, ok) PROVE ManagerInv'
  <2>1. TablesAgree' /\ KeepersListed' /\ NoneFailed'
    BY <1>11 DEF MarketAnswers, Closable
  <2>2. LinksRegistered' /\ ClosedByUs'
    BY <1>11 DEF MarketAnswers, Closable
  <2>3. ClosersBusy'
    BY <1>11 DEF MarketAnswers, Closable
  <2>4. TransportsReachable' /\ NoKeepaliveAfterClose' /\ CloseMeansClosed'
    BY <1>11 DEF MarketAnswers, Closable
  <2> QED BY ONLY <1>0, <2>1, <2>2, <2>3, <2>4, Zenon DEF ManagerInv
<1>12. CASE UNCHANGED consumerVars
  BY <1>12 DEF consumerVars
<1> QED
  BY <1>1, <1>2, <1>3, <1>4, <1>5, <1>6, <1>7, <1>8, <1>9, <1>10, <1>11, <1>12
     DEF ConsumerNext, CloserSteps

(***************************************************************************)
(* While no keepalive fails, ManagerInv holds, for any number of sessions  *)
(* and of overlapping calls of close_session.                              *)
(***************************************************************************)
THEOREM ManagerInvariant ==
  ASSUME KeepaliveMayFail = FALSE
  PROVE  ConsumerSpec => []ManagerInv
<1>1. ConsumerInit => ManagerInv
  BY ConsumerAssumption
     DEF ConsumerInit, ManagerInv, ConsumerTypeOK, TablesAgree, KeepersListed, NoneFailed, LinksRegistered,
         ClosersBusy, ClosedByUs, TransportsReachable, NoKeepaliveAfterClose, CloseMeansClosed
<1>2. ManagerInv /\ [ConsumerNext]_consumerVars => ManagerInv'
  BY ManagerInvStep
<1> QED
  BY <1>1, <1>2, PTL DEF ConsumerSpec

\* While no keepalive fails: close_session never calls the market while a keepalive
\* of the session is alive.
THEOREM KeepaliveEndsFirst ==
  ASSUME KeepaliveMayFail = FALSE
  PROVE  ConsumerSpec => []NoKeepaliveAfterClose
<1>1. ManagerInv => NoKeepaliveAfterClose
  BY DEF ManagerInv
<1> QED
  BY ManagerInvariant, <1>1, PTL

\* While no keepalive fails: no live transport of the consumer is out of reach of
\* close_session.  (Awaiting a task that failed makes close_session raise after it has
\* popped the session: its transport stays live and nobody can reach it.)
THEOREM NoTransportLost ==
  ASSUME KeepaliveMayFail = FALSE
  PROVE  ConsumerSpec => []TransportsReachable
<1>1. ManagerInv => TransportsReachable
  BY DEF ManagerInv
<1> QED
  BY ManagerInvariant, <1>1, PTL

\* While no keepalive fails: a close_session that has ended leaves the transport it
\* popped closed.
THEOREM CloseCloses ==
  ASSUME KeepaliveMayFail = FALSE
  PROVE  ConsumerSpec => []CloseMeansClosed
<1>1. ManagerInv => CloseMeansClosed
  BY DEF ManagerInv
<1> QED
  BY ManagerInvariant, <1>1, PTL

\* Any number of overlapping calls of close_session do no harm to each other, as
\* long as no keepalive fails.
THEOREM ClosesAreSafe ==
  ASSUME KeepaliveMayFail = FALSE
  PROVE  ConsumerSpec => []CloseSafe
  BY KeepaliveEndsFirst, NoTransportLost, CloseCloses, PTL DEF CloseSafe

-----------------------------------------------------------------------------
(* Handshake: what an initiator that is up may rely on, and the refinement *)

\* A responder: it holds a key exactly when its manager is ESTABLISHED, the key is
\* that of an initiator made for the same, and its stamp is at most a skew later and
\* not in the future.
ResponderInv(p) ==
  /\ mgr[p] \in {"IDLE", "ESTABLISHED", "FAILED"}
  /\ dial[p] \in {"idle", "receiving"} => mgr[p] = "IDLE"
  /\ dial[p] \in {"answering", "up"} => mgr[p] = "ESTABLISHED"
  /\ mgr[p] = "FAILED" => dial[p] = "raised"
  /\ mgr[p] # "ESTABLISHED" => peer[p] = NoPeer
  /\ mgr[p] = "ESTABLISHED" =>
       /\ peer[p] \in Initiators
       /\ call[peer[p]] = call[p]
       /\ mgr[peer[p]] # "IDLE"
       /\ stamp[peer[p]] <= stamp[p]
       /\ stamp[p] <= stamp[peer[p]] + 1
  /\ stamp[p] <= clock

\* An initiator: it is up exactly when its manager is ESTABLISHED, with a responder
\* that holds its key, and took its answer at most a skew after it was signed.
InitiatorInv(b) ==
  /\ dial[b] # "answering"
  /\ dial[b] = "idle" => mgr[b] = "IDLE"
  /\ dial[b] = "receiving" => mgr[b] = "INIT_SENT"
  /\ mgr[b] = "ESTABLISHED" <=> dial[b] = "up"
  /\ mgr[b] = "FAILED" => dial[b] = "raised"
  /\ mgr[b] # "ESTABLISHED" => peer[b] = NoPeer
  /\ mgr[b] = "ESTABLISHED" =>
       /\ peer[b] \in Responders
       /\ mgr[peer[b]] = "ESTABLISHED"
       /\ peer[peer[b]] = b
       /\ stamp[peer[b]] <= took[b]
       /\ took[b] <= stamp[peer[b]] + 1
  /\ stamp[b] <= clock

\* A key is held exactly by those that are ESTABLISHED, and each of the two has the
\* other as its peer.
HsInv ==
  /\ HsTypeOK
  /\ \A p \in Responders : ResponderInv(p)
  /\ \A b \in Initiators : InitiatorInv(b)

-----------------------------------------------------------------------------
\* Nobody has begun.
LEMMA HsInitInv == HsInit => HsInv
<1> SUFFICES ASSUME HsInit PROVE HsInv
  OBVIOUS
<1>1. HsTypeOK
  BY DEF HsInit, HsTypeOK
<1>2. ASSUME NEW p \in Responders PROVE ResponderInv(p)
  BY DEF HsInit, ResponderInv, Connects
<1>3. ASSUME NEW b \in Initiators PROVE InitiatorInv(b)
  BY DEF HsInit, InitiatorInv, Connects
<1> QED
  BY <1>1, <1>2, <1>3 DEF HsInv

\* Every step keeps the types.
LEMMA HsTypeStep == HsTypeOK /\ [HsNext]_hsVars => HsTypeOK'
<1> SUFFICES ASSUME HsTypeOK, [HsNext]_hsVars PROVE HsTypeOK'
  OBVIOUS
<1> USE DEF HsTypeOK, Connects
<1>1. CASE \E a \in Connects : HsOpen(a)
  BY <1>1 DEF HsOpen
<1>2. CASE \E a \in Connects : HsBreaks(a)
  BY <1>2 DEF HsBreaks, Fails
<1>3. CASE \E p \in Responders : HsAnswered(p)
  BY <1>3 DEF HsAnswered
<1>4. CASE \E b \in Initiators, p \in Responders : HsAnswer(p, b)
  BY <1>4 DEF HsAnswer, Fails
<1>5. CASE \E b \in Initiators, p \in Responders : HsFinish(b, p)
  BY <1>5 DEF HsFinish, Fails
<1>6. CASE HsTick
  BY <1>6 DEF HsTick
<1>7. CASE UNCHANGED hsVars
  BY <1>7 DEF hsVars
<1> QED
  BY <1>1, <1>2, <1>3, <1>4, <1>5, <1>6, <1>7 DEF HsNext

\* Every step keeps what the ends of a connect know of each other.
LEMMA HsStepInv == HsInv /\ [HsNext]_hsVars => HsInv'
<1> SUFFICES ASSUME HsInv, [HsNext]_hsVars PROVE HsInv'
  OBVIOUS
<1>t. HsTypeOK /\ HsTypeOK'
  BY HsTypeStep DEF HsInv
<1>d. Initiators \cap Responders = {} /\ NoPeer \notin Connects
  BY HandshakeAssumption DEF Connects
<1> USE <1>t, <1>d DEF HsTypeOK, Connects
<1>1. ASSUME NEW a \in Connects, HsOpen(a) PROVE HsInv'
  <2>1. ASSUME NEW p \in Responders PROVE ResponderInv(p)'
    <3>1. ResponderInv(p) /\ (peer[p] \in Initiators => InitiatorInv(peer[p]))
      BY DEF HsInv
    <3> QED
      BY <1>1, <3>1 DEF HsOpen, ResponderInv, InitiatorInv
  <2>2. ASSUME NEW b \in Initiators PROVE InitiatorInv(b)'
    <3>1. InitiatorInv(b) /\ (peer[b] \in Responders => ResponderInv(peer[b]))
      BY DEF HsInv
    <3> QED
      BY <1>1, <3>1 DEF HsOpen, ResponderInv, InitiatorInv
  <2> QED
    BY <2>1, <2>2 DEF HsInv
<1>2. ASSUME NEW a \in Connects, HsBreaks(a) PROVE HsInv'
  <2>1. ASSUME NEW p \in Responders PROVE ResponderInv(p)'
    <3>1. ResponderInv(p)
      BY DEF HsInv
    <3> QED
      BY <1>2, <3>1 DEF HsBreaks, Fails, ResponderInv
  <2>2. ASSUME NEW b \in Initiators PROVE InitiatorInv(b)'
    <3>1. InitiatorInv(b)
      BY DEF HsInv
    <3> QED
      BY <1>2, <3>1 DEF HsBreaks, Fails, InitiatorInv
  <2> QED
    BY <2>1, <2>2 DEF HsInv
<1>3. ASSUME NEW q \in Responders, HsAnswered(q) PROVE HsInv'
  <2>1. ASSUME NEW p \in Responders PROVE ResponderInv(p)'
    <3>1. ResponderInv(p)
      BY DEF HsInv
    <3> QED
      BY <1>3, <3>1 DEF HsAnswered, ResponderInv
  <2>2. ASSUME NEW b \in Initiators PROVE InitiatorInv(b)'
    <3>1. InitiatorInv(b)
      BY DEF HsInv
    <3> QED
      BY <1>3, <3>1 DEF HsAnswered, InitiatorInv
  <2> QED
    BY <2>1, <2>2 DEF HsInv
<1>4. ASSUME NEW c \in Initiators, NEW q \in Responders, HsAnswer(q, c) PROVE HsInv'
  <2>c. InitiatorInv(c) /\ ResponderInv(q)
    BY DEF HsInv
  <2>1. ASSUME NEW p \in Responders PROVE ResponderInv(p)'
    <3>1. ResponderInv(p)
      BY DEF HsInv
    <3>2. CASE p # q
      BY <1>4, <3>1, <3>2 DEF HsAnswer, Fails, ResponderInv
    <3>3. CASE p = q /\ GenuineInit(q, c)
      BY <1>4, <2>c, <3>3 DEF HsAnswer, GenuineInit, Fresh, ResponderInv, InitiatorInv
    <3>4. CASE p = q /\ ~GenuineInit(q, c)
      BY <1>4, <2>c, <3>4 DEF HsAnswer, Fails, ResponderInv
    <3> QED
      BY <3>2, <3>3, <3>4
  <2>2. ASSUME NEW b \in Initiators PROVE InitiatorInv(b)'
    <3>1. InitiatorInv(b) /\ mgr[q] # "ESTABLISHED"
      BY <1>4, <2>c DEF HsInv, HsAnswer, ResponderInv
    <3> QED
      BY <1>4, <3>1 DEF HsAnswer, Fails, InitiatorInv
  <2> QED
    BY <2>1, <2>2 DEF HsInv
<1>5. ASSUME NEW c \in Initiators, NEW q \in Responders, HsFinish(c, q) PROVE HsInv'
  <2>c. InitiatorInv(c) /\ ResponderInv(q)
    BY DEF HsInv
  <2>1. ASSUME NEW p \in Responders PROVE ResponderInv(p)'
    <3>1. ResponderInv(p)
      BY DEF HsInv
    <3> QED
      BY <1>5, <3>1 DEF HsFinish, Fails, ResponderInv
  <2>2. ASSUME NEW b \in Initiators PROVE InitiatorInv(b)'
    <3>1. InitiatorInv(b)
      BY DEF HsInv
    <3>2. CASE b # c
      BY <1>5, <3>1, <3>2 DEF HsFinish, Fails, InitiatorInv
    <3>3. CASE b = c /\ GenuineAccept(c, q)
      BY <1>5, <2>c, <3>3 DEF HsFinish, GenuineAccept, Fresh, InitiatorInv, ResponderInv
    <3>4. CASE b = c /\ ~GenuineAccept(c, q)
      BY <1>5, <2>c, <3>4 DEF HsFinish, Fails, InitiatorInv
    <3> QED
      BY <3>2, <3>3, <3>4
  <2> QED
    BY <2>1, <2>2 DEF HsInv
<1>6. CASE HsTick
  BY <1>6 DEF HsInv, HsTick, ResponderInv, InitiatorInv
<1>7. CASE UNCHANGED hsVars
  BY <1>7 DEF HsInv, hsVars, ResponderInv, InitiatorInv
<1> QED
  BY <1>1, <1>2, <1>3, <1>4, <1>5, <1>6, <1>7 DEF HsNext

(***************************************************************************)
(* The inductive invariant: connect and the HandshakeManager never come    *)
(* apart, on either side.                                                  *)
(***************************************************************************)
THEOREM HandshakeInvariant == HsSpec => []HsInv
  BY HsInitInv, HsStepInv, PTL DEF HsSpec

\* The state of the handshake has its type, for every relay and every time.
THEOREM HandshakeTypeCorrect == HsSpec => []HsTypeOK
<1>1. HsInv => HsTypeOK
  BY DEF HsInv
<1> QED
  BY <1>1, HandshakeInvariant, PTL

(***************************************************************************)
(* An initiator that is up shares its keys with exactly one responder, of  *)
(* its session and buyer: what verify_init and verify_accept check is      *)
(* enough for that against any relay that repeats and misdirects messages. *)
(***************************************************************************)
THEOREM PairsShareKeys == HsSpec => []KeysPaired
<1>1. HsInv => KeysPaired
  <2> SUFFICES ASSUME HsInv, NEW b \in Initiators, dial[b] = "up"
               PROVE  /\ peer[b] \in Responders
                      /\ call[peer[b]] = call[b]
                      /\ {a \in Connects : peer[a] # NoPeer /\ Keys(a) = Keys(b)} = {b, peer[b]}
    BY DEF KeysPaired
  <2>1. InitiatorInv(b) /\ mgr[b] = "ESTABLISHED"
    BY DEF HsInv, InitiatorInv
  <2>2. peer[b] \in Responders /\ mgr[peer[b]] = "ESTABLISHED" /\ peer[peer[b]] = b
    BY <2>1 DEF InitiatorInv
  <2>3. ResponderInv(peer[b])
    BY <2>2 DEF HsInv
  <2>4. call[peer[b]] = call[b]
    BY <2>2, <2>3 DEF ResponderInv
  <2>5. NoPeer \notin Connects
    BY HandshakeAssumption DEF Connects
  <2>6. b \in Connects /\ peer[b] \in Connects
    BY <2>2 DEF Connects
  <2>7. Keys(peer[b]) = Keys(b)
    BY <2>2, <2>4 DEF Keys
  <2>8. ASSUME NEW a \in Connects, Keys(a) = Keys(b) PROVE a \in {b, peer[b]}
    <3>1. {a, peer[a]} = {b, peer[b]}
      BY <2>8 DEF Keys
    <3> QED
      BY <3>1
  <2> QED
    BY <2>2, <2>4, <2>5, <2>6, <2>7, <2>8
<1> QED
  BY <1>1, HandshakeInvariant, PTL

(***************************************************************************)
(* _validate_timestamp on both sides: an initiator that is up took an      *)
(* answer that was signed at most one window of skew after its INIT, and   *)
(* took it at most one window after it was signed.                         *)
(***************************************************************************)
THEOREM AnswersAreRecent == HsSpec => []AnswerRecent
<1>1. HsInv => AnswerRecent
  <2> SUFFICES ASSUME HsInv, NEW b \in Initiators, dial[b] = "up"
               PROVE  /\ stamp[peer[b]] - stamp[b] \in {0, 1}
                      /\ took[b] - stamp[peer[b]] \in {0, 1}
    BY DEF AnswerRecent
  <2>1. peer[b] \in Responders /\ mgr[peer[b]] = "ESTABLISHED" /\ peer[peer[b]] = b
    BY DEF HsInv, InitiatorInv
  <2>2. stamp[b] <= stamp[peer[b]] /\ stamp[peer[b]] <= stamp[b] + 1
    BY <2>1 DEF HsInv, ResponderInv
  <2>3. stamp[peer[b]] <= took[b] /\ took[b] <= stamp[peer[b]] + 1
    BY DEF HsInv, InitiatorInv
  <2>4. stamp[b] \in Nat /\ stamp[peer[b]] \in Nat /\ took[b] \in Nat
    BY <2>1 DEF HsInv, HsTypeOK, Connects
  <2> QED
    BY <2>2, <2>3, <2>4
<1> QED
  BY <1>1, HandshakeInvariant, PTL

\* A refused message leaves no keys, and a transport that is up has those of its
\* own session, on either side.
THEOREM RefusalsHoldNothing == HsSpec => []RefusedHoldsNothing
<1>1. HsInv => RefusedHoldsNothing
  <2> SUFFICES ASSUME HsInv, NEW a \in Connects
               PROVE  /\ mgr[a] = "FAILED" => peer[a] = NoPeer /\ dial[a] = "raised"
                      /\ dial[a] = "up" => mgr[a] = "ESTABLISHED" /\ call[peer[a]] = call[a]
    BY DEF RefusedHoldsNothing
  <2>1. CASE a \in Responders
    BY <2>1 DEF HsInv, ResponderInv
  <2>2. CASE a \in Initiators
    <3>1. InitiatorInv(a)
      BY <2>2 DEF HsInv
    <3>2. dial[a] = "up" => ResponderInv(peer[a])
      BY <3>1 DEF HsInv, InitiatorInv
    <3> QED
      BY <3>1, <3>2 DEF InitiatorInv, ResponderInv
  <2> QED
    BY <2>1, <2>2 DEF Connects
<1> QED
  BY <1>1, HandshakeInvariant, PTL

-----------------------------------------------------------------------------
(* The refinement.                                                         *)

\* The ends of the connects that are up, as KeyAgreement has them.
Paired == {<<b, peer[b]>> : b \in {i \in Initiators : dial[i] = "up"}}

\* What is no end of an initiator's connect pairs nobody off.
LEMMA NoNewPair ==
  ASSUME \A b \in Initiators : dial'[b] = "up" <=> dial[b] = "up",
         \A b \in Initiators : dial[b] = "up" => peer'[b] = peer[b]
  PROVE  Paired' = Paired
  BY DEF Paired

\* An initiator that accepts a genuine answer gets a partner made for the same
\* session and buyer, and neither had another.
LEMMA FinishPairs ==
  ASSUME HsInv, NEW b \in Initiators, NEW p \in Responders,
         HsFinish(b, p), GenuineAccept(b, p)
  PROVE  /\ call[b] = call[p]
         /\ \A q \in Paired : q[1] # b /\ q[2] # p
         /\ Paired' = Paired \cup {<<b, p>>}
         /\ UNCHANGED call
<1>d. b \in Connects /\ Initiators \subseteq Connects
  BY DEF Connects
<1>1. ResponderInv(p) /\ mgr[p] = "ESTABLISHED" /\ peer[p] = b
  BY DEF HsInv, HsFinish, GenuineAccept
<1>2. call[b] = call[p]
  BY <1>1 DEF ResponderInv
<1>3. ASSUME NEW i \in Initiators, dial[i] = "up" PROVE i # b /\ peer[i] # p
  <2>1. InitiatorInv(i)
    BY DEF HsInv
  <2>2. peer[peer[i]] = i
    BY <1>3, <2>1 DEF InitiatorInv
  <2>3. i # b
    BY <1>3 DEF HsFinish
  <2> QED
    BY <1>1, <2>2, <2>3
<1>4. \A q \in Paired : q[1] # b /\ q[2] # p
  BY <1>3 DEF Paired
<1>5. dial' = [dial EXCEPT ![b] = "up"] /\ peer' = [peer EXCEPT ![b] = p] /\ UNCHANGED call
  BY DEF HsFinish
<1>6. dial \in [Connects -> {"idle", "receiving", "answering", "up", "raised"}]
      /\ peer \in [Connects -> Connects \cup {NoPeer}]
  BY DEF HsInv, HsTypeOK
<1>7. dial'[b] = "up" /\ peer'[b] = p
  BY <1>d, <1>5, <1>6
<1>8. \A i \in Initiators : i # b => dial'[i] = dial[i] /\ peer'[i] = peer[i]
  BY <1>d, <1>5, <1>6
<1>9. Paired' = Paired \cup {<<b, p>>}
  BY <1>3, <1>7, <1>8 DEF Paired
<1> QED
  BY <1>2, <1>4, <1>5, <1>9

\* Every step of a connect is a step of KeyAgreement or changes nothing it sees.
LEMMA StepPairs ==
  ASSUME HsInv, [HsNext]_hsVars
  PROVE  [Agreement!Next]_<<call, Paired>>
<1>d. Initiators \cap Responders = {} /\ Initiators \subseteq Connects /\ Responders \subseteq Connects
  BY HandshakeAssumption DEF Connects
<1>t. dial \in [Connects -> {"idle", "receiving", "answering", "up", "raised"}]
      /\ peer \in [Connects -> Connects \cup {NoPeer}]
  BY DEF HsInv, HsTypeOK
<1>1. ASSUME NEW a \in Connects, HsOpen(a) PROVE UNCHANGED <<call, Paired>>
  BY <1>1, <1>d, <1>t, NoNewPair DEF HsOpen
<1>2. ASSUME NEW a \in Connects, HsBreaks(a) PROVE UNCHANGED <<call, Paired>>
  BY <1>2, <1>d, <1>t, NoNewPair DEF HsBreaks, Fails
<1>3. ASSUME NEW p \in Responders, HsAnswered(p) PROVE UNCHANGED <<call, Paired>>
  BY <1>3, <1>d, <1>t, NoNewPair DEF HsAnswered
<1>4. ASSUME NEW b \in Initiators, NEW p \in Responders, HsAnswer(p, b)
      PROVE  UNCHANGED <<call, Paired>>
  BY <1>4, <1>d, <1>t, NoNewPair DEF HsAnswer, Fails
<1>5. ASSUME NEW b \in Initiators, NEW p \in Responders, HsFinish(b, p)
      PROVE  [Agreement!Next]_<<call, Paired>>
  <2>1. CASE GenuineAccept(b, p)
    <3>1. Agreement!Pair(b, p)
      BY <1>5, <2>1, FinishPairs DEF Agreement!Pair, Paired
    <3> QED
      BY <3>1 DEF Agreement!Next
  <2>2. CASE ~GenuineAccept(b, p)
    BY <1>5, <2>2, <1>d, <1>t, NoNewPair DEF HsFinish, Fails
  <2> QED
    BY <2>1, <2>2
<1>6. CASE HsTick
  BY <1>6, NoNewPair DEF HsTick
<1>7. CASE UNCHANGED hsVars
  BY <1>7, NoNewPair DEF hsVars
<1> QED
  BY <1>1, <1>2, <1>3, <1>4, <1>5, <1>6, <1>7 DEF HsNext

(***************************************************************************)
(* The handshake implements KeyAgreement: every connect of an initiator    *)
(* that comes up pairs it with a responder made for the same session and   *)
(* buyer that nobody else is paired with, and no pair is undone.           *)
(***************************************************************************)
THEOREM HandshakeAgrees == HsSpec => ImplementsAgreement
<1>1. HsInit => Agreement!Init
  BY DEF HsInit, Agreement!Init, Connects
<1>2. HsInv /\ [HsNext]_hsVars => [Agreement!Next]_<<call, Paired>>
  BY StepPairs
<1>3. HsInv /\ [HsNext]_hsVars =>
        [Agreement!Next]_<<call, {<<b, peer[b]>> : b \in {i \in Initiators : dial[i] = "up"}}>>
  BY <1>2 DEF Paired
<1> QED
  BY <1>1, <1>3, HandshakeInvariant, PTL DEF HsSpec, ImplementsAgreement, Agreement!Spec

\* No relay brings a connect up on an old or a refused message.
THEOREM HandshakeIsSafe == HsSpec => []HandshakeSafe
  BY HandshakeTypeCorrect, AnswersAreRecent, RefusalsHoldNothing, PTL DEF HandshakeSafe

-----------------------------------------------------------------------------
(* TrustChannel: what send and wait_for_action may rely on.                *)

\* Two callers that wait for one key at a time are both known to have.
SharedKnown ==
  \A k \in TrustKeys : \A c, d \in Waiting(k) : c # d => c \in shared /\ d \in shared

-----------------------------------------------------------------------------
(* Types.                                                                  *)

\* A doubled delay is within the cap.
LEMMA DoubledInRange == \A d \in 1..MaxDelay : Doubled(d) \in 1..MaxDelay
  BY TrustAssumption DEF Doubled

\* The client has not been started.
LEMMA TrustTypeInit == TrustInit => TrustTypeOK
<1> SUFFICES ASSUME TrustInit PROVE TrustTypeOK
  OBVIOUS
<1>1. looping \in BOOLEAN /\ blind \in BOOLEAN
  BY Zenon DEF TrustInit
<1>2. delay \in 1..MaxDelay /\ queued \in Nat
  BY TrustAssumption DEF TrustInit
<1>3. /\ waiters \in [TrustKeys -> TrustCallers \cup {NoCaller}]
      /\ awaits \in [TrustCallers -> TrustKeys]
      /\ future \in [TrustCallers -> {"none", "pending", "result", "cancelled", "returned"}]
      /\ sender \in [TrustSenders -> {"idle", "queued", "sending", "sent", "raised"}]
  BY DEF TrustInit
<1>4. shared \subseteq TrustCallers /\ handling \subseteq TrustOffers /\ noted \subseteq TrustOffers
  BY DEF TrustInit
<1>5. /\ runner \in {"off", "connecting", "listening", "sleeping", "ended"}
      /\ sock \in {"none", "live", "dead"} /\ stopper \in {"idle", "closing", "done"}
  BY DEF TrustInit
<1> QED
  BY <1>1, <1>2, <1>3, <1>4, <1>5 DEF TrustTypeOK

\* Futures that the end of the runner cancels keep their type.
LEMMA CancelledType ==
  ASSUME TrustTypeOK, Cancelled
  PROVE  future' \in [TrustCallers -> {"none", "pending", "result", "cancelled", "returned"}]
  BY DEF TrustTypeOK, Cancelled

\* Every step keeps the types.
LEMMA TrustTypeStep == TrustTypeOK /\ [TrustNext]_trustVars => TrustTypeOK'
<1> SUFFICES ASSUME TrustTypeOK, [TrustNext]_trustVars PROVE TrustTypeOK'
  OBVIOUS
<1> USE DEF TrustTypeOK, runVars, waitVars, offerVars
<1>1. CASE TrustRun
  BY <1>1 DEF TrustRun
<1>2. CASE TrustConnected
  BY <1>2 DEF TrustConnected
<1>3. CASE TrustClosed
  BY <1>3, TrustAssumption DEF TrustClosed, LoopOn
<1>4. CASE TrustBroken
  BY <1>4 DEF TrustBroken, LoopOn
<1>5. CASE TrustRetries
  <2>1. delay' \in 1..MaxDelay
    BY <1>5, DoubledInRange DEF TrustRetries
  <2> QED
    BY <1>5, <2>1 DEF TrustRetries
<1>6. CASE TrustStop
  <2>1. future' \in [TrustCallers -> {"none", "pending", "result", "cancelled", "returned"}]
    BY <1>6, CancelledType DEF TrustStop
  <2>2. blind' \in BOOLEAN
    BY <1>6 DEF TrustStop
  <2>3. looping' \in BOOLEAN
    BY <1>6 DEF TrustStop
  <2> QED
    BY <1>6, <2>1, <2>2, <2>3 DEF TrustStop
<1>7. CASE TrustStopped
  <2>1. future' \in [TrustCallers -> {"none", "pending", "result", "cancelled", "returned"}]
    BY <1>7, CancelledType DEF TrustStopped
  <2> QED
    BY <1>7, <2>1 DEF TrustStopped
<1>8. CASE \E c \in TrustCallers : TrustWaits(c)
  BY <1>8 DEF TrustWaits, Waiting
<1>9. CASE \E c \in TrustCallers : TrustReturns(c)
  BY <1>9 DEF TrustReturns
<1>10. CASE \E k \in TrustKeys : TrustDispatch(k)
  BY <1>10 DEF TrustDispatch
<1>11. CASE \E k \in TrustKeys : TrustHandles(k)
  BY <1>11 DEF TrustHandles
<1>12. CASE \E t \in TrustSenders : TrustSend(t)
  BY <1>12 DEF TrustSend
<1>13. CASE \E t \in TrustSenders : TrustSendStarts(t)
  BY <1>13 DEF TrustSendStarts
<1>14. CASE \E t \in TrustSenders : TrustSendEnds(t)
  BY <1>14 DEF TrustSendEnds
<1>15. CASE UNCHANGED trustVars
  BY <1>15 DEF trustVars
<1> QED
  BY <1>1, <1>2, <1>3, <1>4, <1>5, <1>6, <1>7, <1>8, <1>9, <1>10, <1>11, <1>12,
     <1>13, <1>14, <1>15 DEF TrustNext

\* The state has its type, and the backoff stays below its cap.
THEOREM TrustTypeCorrect == TrustSpec => []TrustTypeOK
  BY TrustTypeInit, TrustTypeStep, PTL DEF TrustSpec

-----------------------------------------------------------------------------
(* The socket.                                                             *)

\* Every step leaves a socket that lives to a runner that listens to it.
LEMMA SocketStep == TrustTypeOK /\ SocketHeard /\ [TrustNext]_trustVars => SocketHeard'
<1> SUFFICES ASSUME TrustTypeOK, SocketHeard, [TrustNext]_trustVars PROVE SocketHeard'
  OBVIOUS
<1> USE DEF SocketHeard, runVars, waitVars, offerVars
<1>1. CASE TrustRun
  BY <1>1 DEF TrustRun
<1>2. CASE TrustConnected
  BY <1>2 DEF TrustConnected
<1>3. CASE TrustClosed
  BY <1>3 DEF TrustClosed, LoopOn
<1>4. CASE TrustBroken
  BY <1>4 DEF TrustBroken, LoopOn
<1>5. CASE TrustRetries
  BY <1>5 DEF TrustRetries
<1>6. CASE TrustStop
  BY <1>6 DEF TrustStop
<1>7. CASE TrustStopped
  BY <1>7 DEF TrustStopped
<1>8. CASE \E c \in TrustCallers : TrustWaits(c) \/ TrustReturns(c)
  BY <1>8 DEF TrustWaits, TrustReturns
<1>9. CASE \E k \in TrustKeys : TrustDispatch(k) \/ TrustHandles(k)
  BY <1>9 DEF TrustDispatch, TrustHandles
<1>10. CASE \E t \in TrustSenders : TrustSend(t) \/ TrustSendStarts(t) \/ TrustSendEnds(t)
  BY <1>10 DEF TrustSend, TrustSendStarts, TrustSendEnds
<1>11. CASE UNCHANGED trustVars
  BY <1>11 DEF trustVars
<1> QED
  BY <1>1, <1>2, <1>3, <1>4, <1>5, <1>6, <1>7, <1>8, <1>9, <1>10, <1>11 DEF TrustNext

(***************************************************************************)
(* What send finds in _ws is the connection run() listens on, whatever     *)
(* order of closes, errors, reconnects and stop() there was.               *)
(***************************************************************************)
THEOREM SocketIsHeard == TrustSpec => []SocketHeard
<1>1. TrustInit => SocketHeard
  BY DEF TrustInit, SocketHeard
<1> QED
  BY <1>1, SocketStep, TrustTypeCorrect, PTL DEF TrustSpec

-----------------------------------------------------------------------------
(* The waiters.                                                            *)

\* What a caller of wait_for_action may rely on.
WaitInv == TrustTypeOK /\ SharedKnown /\ WaitersCurrent

\* A caller that begins to wait takes the place of one that waits for the same key,
\* and both are known to.
LEMMA WaitsStep ==
  ASSUME WaitInv, NEW c \in TrustCallers, TrustWaits(c)
  PROVE  SharedKnown' /\ WaitersCurrent'
<1>t. /\ awaits \in [TrustCallers -> TrustKeys] /\ awaits' = awaits
      /\ future \in [TrustCallers -> {"none", "pending", "result", "cancelled", "returned"}]
      /\ waiters \in [TrustKeys -> TrustCallers \cup {NoCaller}]
      /\ NoCaller \notin TrustCallers
  BY TrustAssumption DEF WaitInv, TrustTypeOK, TrustWaits
<1>1. /\ future[c] = "none"
      /\ future' = [future EXCEPT ![c] = "pending"]
      /\ waiters' = [waiters EXCEPT ![awaits[c]] = c]
  BY DEF TrustWaits
<1>2. \A k \in TrustKeys : Waiting(k)' = IF k = awaits[c] THEN Waiting(k) \cup {c} ELSE Waiting(k)
  BY <1>t, <1>1 DEF Waiting
<1>3. shared \subseteq shared' /\
      (Waiting(awaits[c]) # {} => Waiting(awaits[c]) \cup {c} \subseteq shared')
  BY DEF TrustWaits
<1>4. SharedKnown'
  <2> SUFFICES ASSUME NEW k \in TrustKeys, NEW a \in Waiting(k)', NEW b \in Waiting(k)', a # b
               PROVE  a \in shared' /\ b \in shared'
    BY DEF SharedKnown
  <2>1. CASE k = awaits[c] /\ c \in {a, b}
    BY <1>2, <1>3, <2>1
  <2>2. CASE ~(k = awaits[c] /\ c \in {a, b})
    BY <1>2, <1>3, <2>2 DEF WaitInv, SharedKnown
  <2> QED
    BY <2>1, <2>2
<1>5. WaitersCurrent'
  <2>1. ASSUME NEW k \in TrustKeys, waiters'[k] # NoCaller PROVE waiters'[k] \in Waiting(k)'
    BY <1>t, <1>1, <1>2, <2>1 DEF WaitInv, WaitersCurrent
  <2>2. ASSUME NEW d \in TrustCallers \ shared', future'[d] = "pending"
        PROVE  waiters'[awaits[d]] = d
    <3>1. CASE d = c
      BY <1>t, <1>1, <3>1
    <3>2. CASE d # c
      <4>1. future[d] = "pending" /\ d \in TrustCallers \ shared
        BY <1>t, <1>1, <1>3, <2>2, <3>2
      <4>2. d \in Waiting(awaits[d])
        BY <4>1 DEF Waiting
      <4>3. awaits[d] # awaits[c]
        BY <1>3, <2>2, <4>2
      <4>4. waiters[awaits[d]] = d
        BY <4>1 DEF WaitInv, WaitersCurrent
      <4> QED
        BY <1>t, <1>1, <4>3, <4>4
    <3> QED
      BY <3>1, <3>2
  <2> QED
    BY <1>t, <2>1, <2>2 DEF WaitersCurrent
<1> QED
  BY <1>4, <1>5

\* A caller that returns takes itself out of the table, or its successor.
LEMMA ReturnsStep ==
  ASSUME WaitInv, NEW c \in TrustCallers, TrustReturns(c)
  PROVE  SharedKnown' /\ WaitersCurrent'
<1>t. /\ awaits \in [TrustCallers -> TrustKeys] /\ awaits' = awaits /\ shared' = shared
      /\ future \in [TrustCallers -> {"none", "pending", "result", "cancelled", "returned"}]
      /\ waiters \in [TrustKeys -> TrustCallers \cup {NoCaller}]
  BY DEF WaitInv, TrustTypeOK, TrustReturns
<1>1. /\ future[c] \in {"pending", "result", "cancelled"}
      /\ future' = [future EXCEPT ![c] = "returned"]
      /\ waiters' = [waiters EXCEPT ![awaits[c]] = NoCaller]
  BY DEF TrustReturns
<1>2. \A k \in TrustKeys : Waiting(k)' = Waiting(k) \ {c}
  BY <1>t, <1>1 DEF Waiting
<1>3. SharedKnown'
  BY <1>t, <1>2 DEF WaitInv, SharedKnown
<1>4. ASSUME NEW k \in TrustKeys, waiters'[k] # NoCaller PROVE waiters'[k] \in Waiting(k)'
  <2>1. k # awaits[c] /\ waiters'[k] = waiters[k]
    BY <1>t, <1>1, <1>4
  <2>2. waiters[k] \in Waiting(k)
    BY <1>4, <2>1 DEF WaitInv, WaitersCurrent
  <2>3. waiters[k] # c
    BY <2>1, <2>2 DEF Waiting
  <2> QED
    BY <1>2, <2>1, <2>2, <2>3
<1>5. ASSUME NEW d \in TrustCallers \ shared, future'[d] = "pending"
      PROVE  waiters'[awaits[d]] = d
  <2>1. d # c /\ future[d] = "pending"
    BY <1>t, <1>1, <1>5
  <2>2. waiters[awaits[d]] = d
    BY <1>5, <2>1 DEF WaitInv, WaitersCurrent
  <2>3. c \in Waiting(awaits[c]) /\ d \in Waiting(awaits[d])
    BY <1>1, <2>1 DEF Waiting
  <2>4. awaits[d] # awaits[c]
    BY <1>t, <1>5, <2>1, <2>3 DEF WaitInv, SharedKnown
  <2> QED
    BY <1>t, <1>1, <2>2, <2>4
<1> QED
  BY <1>t, <1>3, <1>4, <1>5 DEF WaitersCurrent

\* A step that only ends waits, without a return, keeps the table's owners.
LEMMA SettleStep ==
  ASSUME WaitInv, UNCHANGED <<waiters, awaits, shared>>,
         \A c \in TrustCallers : future'[c] = future[c] \/
                                 (future[c] = "pending" /\ future'[c] \in {"result", "cancelled"})
  PROVE  SharedKnown' /\ WaitersCurrent'
<1>1. \A k \in TrustKeys : Waiting(k)' = Waiting(k)
  BY DEF Waiting
<1>2. \A c \in TrustCallers : future'[c] = "pending" => future[c] = "pending"
  OBVIOUS
<1> QED
  BY <1>1, <1>2 DEF WaitInv, SharedKnown, WaitersCurrent

\* The end of the runner settles futures that were pending, and no others.
LEMMA CancelledSettles ==
  ASSUME TrustTypeOK, Cancelled
  PROVE  \A c \in TrustCallers : future'[c] = future[c] \/
                                 (future[c] = "pending" /\ future'[c] \in {"result", "cancelled"})
  BY DEF TrustTypeOK, Cancelled

\* Every step keeps the table of waiters current.
LEMMA WaitStep == WaitInv /\ [TrustNext]_trustVars => WaitInv'
<1> SUFFICES ASSUME WaitInv, [TrustNext]_trustVars PROVE SharedKnown' /\ WaitersCurrent'
  BY TrustTypeStep DEF WaitInv
<1>t. TrustTypeOK
  BY DEF WaitInv
<1>1. CASE TrustRun \/ TrustConnected \/ TrustClosed \/ TrustBroken \/ TrustRetries
  <2>1. UNCHANGED waitVars
    BY <1>1 DEF TrustRun, TrustConnected, TrustClosed, TrustBroken, TrustRetries
  <2> QED
    BY <2>1, SettleStep DEF waitVars
<1>2. CASE TrustStop
  <2>1. UNCHANGED <<waiters, awaits, shared>> /\ (Cancelled \/ UNCHANGED future)
    BY <1>2 DEF TrustStop
  <2> QED
    BY <1>t, <2>1, SettleStep, CancelledSettles
<1>3. CASE TrustStopped
  <2>1. UNCHANGED <<waiters, awaits, shared>> /\ Cancelled
    BY <1>3 DEF TrustStopped
  <2> QED
    BY <1>t, <2>1, SettleStep, CancelledSettles
<1>4. CASE \E c \in TrustCallers : TrustWaits(c) \/ TrustReturns(c)
  BY <1>4, WaitsStep, ReturnsStep
<1>5. CASE \E k \in TrustKeys : TrustDispatch(k)
  <2>1. PICK k \in TrustKeys : TrustDispatch(k)
    BY <1>5
  <2>2. UNCHANGED <<waiters, awaits, shared>>
    BY <2>1 DEF TrustDispatch
  <2>3. \/ UNCHANGED future
        \/ future[waiters[k]] = "pending" /\ future' = [future EXCEPT ![waiters[k]] = "result"]
    BY <2>1 DEF TrustDispatch
  <2>4. \A c \in TrustCallers : future'[c] = future[c] \/
                                (future[c] = "pending" /\ future'[c] \in {"result", "cancelled"})
    BY <1>t, <2>3 DEF TrustTypeOK
  <2> QED
    BY <2>2, <2>4, SettleStep
<1>6. CASE \/ \E k \in TrustKeys : TrustHandles(k)
           \/ \E t \in TrustSenders : TrustSend(t) \/ TrustSendStarts(t) \/ TrustSendEnds(t)
           \/ UNCHANGED trustVars
  <2>1. UNCHANGED waitVars
    BY <1>6 DEF TrustHandles, TrustSend, TrustSendStarts, TrustSendEnds, trustVars
  <2> QED
    BY <2>1, SettleStep DEF waitVars
<1> QED
  BY <1>1, <1>2, <1>3, <1>4, <1>5, <1>6 DEF TrustNext

(***************************************************************************)
(* The table of waiters holds only callers that wait, and a message finds  *)
(* its waiter unless another caller waited for the same key at one time.   *)
(***************************************************************************)
THEOREM WaitersAreCurrent == TrustSpec => []WaitersCurrent
<1>1. TrustInit => WaitInv
  <2> SUFFICES ASSUME TrustInit PROVE WaitInv
    OBVIOUS
  <2>1. \A k \in TrustKeys : Waiting(k) = {}
    BY DEF TrustInit, Waiting
  <2> QED
    BY <2>1, TrustTypeInit DEF WaitInv, SharedKnown, WaitersCurrent, TrustInit
<1>2. WaitInv => WaitersCurrent
  BY DEF WaitInv
<1> QED
  BY <1>1, <1>2, WaitStep, PTL DEF TrustSpec

-----------------------------------------------------------------------------
(* The lock of send.                                                       *)

\* The lock of send lets one sender in.
OneInSend == \A t, u \in TrustSenders : sender[t] = "sending" /\ sender[u] = "sending" => t = u

\* Every step keeps it so.
LEMMA InSendStep == TrustTypeOK /\ OneInSend /\ [TrustNext]_trustVars => OneInSend'
<1> SUFFICES ASSUME TrustTypeOK, OneInSend, [TrustNext]_trustVars PROVE OneInSend'
  OBVIOUS
<1> USE DEF OneInSend, TrustTypeOK
<1>1. CASE \E t \in TrustSenders : TrustSend(t)
  BY <1>1 DEF TrustSend
<1>2. CASE \E t \in TrustSenders : TrustSendStarts(t)
  BY <1>2 DEF TrustSendStarts, SendFree
<1>3. CASE \E t \in TrustSenders : TrustSendEnds(t)
  BY <1>3 DEF TrustSendEnds
<1>4. CASE \/ TrustRun \/ TrustConnected \/ TrustClosed \/ TrustBroken \/ TrustRetries
           \/ TrustStop \/ TrustStopped
           \/ \E c \in TrustCallers : TrustWaits(c) \/ TrustReturns(c)
           \/ \E k \in TrustKeys : TrustDispatch(k) \/ TrustHandles(k)
           \/ UNCHANGED trustVars
  <2>1. UNCHANGED sender
    BY <1>4 DEF TrustRun, TrustConnected, TrustClosed, TrustBroken, TrustRetries, TrustStop,
                TrustStopped, TrustWaits, TrustReturns, TrustDispatch, TrustHandles, trustVars
  <2> QED
    BY <2>1
<1> QED
  BY <1>1, <1>2, <1>3, <1>4 DEF TrustNext

\* No two tasks are inside ws.send, on one connection or across a reconnect.
THEOREM SendsExclude == TrustSpec => []OneSender
<1>1. TrustInit => OneInSend
  BY DEF TrustInit, OneInSend
<1>2. OneInSend => OneSender
  <2> SUFFICES ASSUME OneInSend PROVE OneSender
    OBVIOUS
  <2> DEFINE S == {t \in TrustSenders : sender[t] = "sending"}
  <2>1. CASE S = {}
    BY <2>1, FS_EmptySet DEF OneSender
  <2>2. CASE S # {}
    <3>1. PICK t \in TrustSenders : S = {t}
      BY <2>2 DEF OneInSend
    <3> QED
      BY <3>1, FS_Singleton DEF OneSender
  <2> QED
    BY <2>1, <2>2
<1> QED
  BY <1>1, <1>2, InSendStep, TrustTypeCorrect, PTL DEF TrustSpec

\* What send relies on holds through any number of errors, reconnects and stops.
THEOREM TrustIsSafe == TrustSpec => []TrustSafe
  BY TrustTypeCorrect, SocketIsHeard, SendsExclude, PTL DEF TrustSafe

=============================================================================
