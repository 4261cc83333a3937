-------------------------- MODULE ConsumerSessions --------------------------
(***************************************************************************)
(* SessionManager of the consumer: connect, the keepalive task of each     *)
(* session, and close_session, which the local proxy, the management API   *)
(* and the shutdown of the command line call, also for the same session at *)
(* the same time.  What invoke does on a transport is in RelaySession.     *)
(*                                                                         *)
(* A call of connect and the session it opens have one name.  Cancelling a *)
(* keepalive task that is not done always ends it, so close_session's      *)
(* await of it is one step with the cancellation.                          *)
(***************************************************************************)
EXTENDS Naturals, FiniteSets

CONSTANTS ConsumerIds,         \* sessions, each opened by one call of connect
          Closers,          \* calls of close_session
          KeepaliveMayFail, \* may market_client.keepalive_session raise?
          NoSession

ASSUME ConsumerAssumption ==
  /\ NoSession \notin ConsumerIds
  /\ KeepaliveMayFail \in BOOLEAN

VARIABLES conn,     \* conn[s]: where connect is
          table,    \* _sessions
          keep,     \* keep[s]: the keepalive task
          keepers,  \* _keepalive_tasks
          tunnel,     \* tunnel[s]: the relay transport, "none" in direct mode
          market,   \* market[s]: the market's record of the session
          pc,       \* pc[k]: where call k of close_session is
          target,   \* target[k]: the session it closes, NoSession before the call
          holds     \* the calls whose pop found the session's state

consumerVars == <<conn, table, keep, keepers, tunnel, market, pc, target, holds>>

ConsumerInit ==
  /\ conn = [s \in ConsumerIds |-> "idle"]
  /\ table = {}
  /\ keep = [s \in ConsumerIds |-> "none"]
  /\ keepers = {}
  /\ tunnel = [s \in ConsumerIds |-> "none"]
  /\ market = [s \in ConsumerIds |-> "none"]
  /\ pc = [k \in Closers |-> "idle"]
  /\ target = [k \in Closers |-> NoSession]
  /\ holds = {}

-----------------------------------------------------------------------------
(* connect.                                                                *)

Connect(s) ==
  /\ conn[s] = "idle"
  /\ conn' = [conn EXCEPT ![s] = "negotiating"]
  /\ UNCHANGED <<table, keep, keepers, tunnel, market, pc, target, holds>>

\* Writes _sessions and creates the keepalive task.
Register(s) ==
  /\ conn' = [conn EXCEPT ![s] = "done"]
  /\ table' = table \cup {s}
  /\ keep' = [keep EXCEPT ![s] = "sleeping"]
  /\ keepers' = keepers \cup {s}

\* negotiate_session answers with a session in direct or relay mode.
Negotiated(s) ==
  /\ conn[s] = "negotiating"
  /\ market' = [market EXCEPT ![s] = "open"]
  /\ \/ Register(s) /\ UNCHANGED tunnel
     \/ /\ conn' = [conn EXCEPT ![s] = "dialing"]
        /\ tunnel' = [tunnel EXCEPT ![s] = "connecting"]
        /\ UNCHANGED <<table, keep, keepers>>
  /\ UNCHANGED <<pc, target, holds>>

\* transport.connect returns.
Dialed(s) ==
  /\ conn[s] = "dialing"
  /\ tunnel' = [tunnel EXCEPT ![s] = "up"]
  /\ Register(s)
  /\ UNCHANGED <<market, pc, target, holds>>

\* The market refuses, or its answer, the dialing or the handshake fails: connect
\* raises.  What the market has opened it does not close.
ConnectRaises(s) ==
  /\ \/ conn[s] = "negotiating" /\ \E m \in {"none", "open"} : market' = [market EXCEPT ![s] = m]
     \/ conn[s] = "dialing" /\ UNCHANGED market
  /\ conn' = [conn EXCEPT ![s] = "failed"]
  /\ tunnel' = [tunnel EXCEPT ![s] = "none"]
  /\ UNCHANGED <<table, keep, keepers, pc, target, holds>>

-----------------------------------------------------------------------------
(* The keepalive task.                                                     *)

\* The sleep is over: the task ends if the session left the table.
KeepaliveCalls(s) ==
  /\ keep[s] = "sleeping"
  /\ keep' = [keep EXCEPT ![s] = IF s \in table THEN "calling" ELSE "ended"]
  /\ UNCHANGED <<conn, table, keepers, tunnel, market, pc, target, holds>>

\* keepalive_session returns, or raises, which ends the task.
KeepaliveReturns(s) ==
  /\ keep[s] = "calling"
  /\ \E result \in {"sleeping"} \cup (IF KeepaliveMayFail THEN {"failed"} ELSE {}) :
       keep' = [keep EXCEPT ![s] = result]
  /\ UNCHANGED <<conn, table, keepers, tunnel, market, pc, target, holds>>

-----------------------------------------------------------------------------
(* close_session.                                                          *)

\* Mutant of CloseSession: the keepalive task is dropped and not cancelled.
CloseSessionKeepsTask(k, s) ==
  /\ pc[k] = "idle"
  /\ conn[s] = "done"
  /\ target' = [target EXCEPT ![k] = s]
  /\ holds' = IF s \in table THEN holds \cup {k} ELSE holds
  /\ table' = table \ {s}
  /\ keepers' = keepers \ {s}
  /\ pc' = [pc EXCEPT ![k] = "market"]
  /\ UNCHANGED <<conn, keep, tunnel, market>>

\* Up to the market call: pops the state and the task, cancels and awaits the
\* task.  A task that had failed raises its error here again.
CloseSession(k, s) ==
  LET task == IF s \in keepers THEN keep[s] ELSE "none" IN
  /\ pc[k] = "idle"
  /\ conn[s] = "done"
  /\ target' = [target EXCEPT ![k] = s]
  /\ holds' = IF s \in table THEN holds \cup {k} ELSE holds
  /\ table' = table \ {s}
  /\ keepers' = keepers \ {s}
  /\ keep' = IF task \in {"sleeping", "calling"} THEN [keep EXCEPT ![s] = "cancelled"] ELSE keep
  /\ pc' = [pc EXCEPT ![k] = IF task = "failed" THEN "raised" ELSE "market"]
  /\ UNCHANGED <<conn, tunnel, market>>

\* The transport that call k closes, if its pop found one.
Closable(k) == k \in holds /\ tunnel[target[k]] # "none"

\* market_client.close_session returns or raises; the finally runs in either case.
MarketAnswers(k, ok) ==
  LET s == target[k] IN
  /\ pc[k] = "market"
  /\ market' = IF ok THEN [market EXCEPT ![s] = "closed"] ELSE market
  /\ pc' = [pc EXCEPT ![k] = IF Closable(k) THEN "transport" ELSE "ended"]
  /\ tunnel' = IF Closable(k) /\ tunnel[s] = "up" THEN [tunnel EXCEPT ![s] = "closing"] ELSE tunnel
  /\ UNCHANGED <<conn, table, keep, keepers, target, holds>>

\* The heartbeat loop of the transport gives up and closes it.
HeartbeatGivesUp(s) ==
  /\ tunnel[s] = "up"
  /\ tunnel' = [tunnel EXCEPT ![s] = "closing"]
  /\ UNCHANGED <<conn, table, keep, keepers, market, pc, target, holds>>

\* RelayTransport.close ends: its waits have time limits.
TransportCloses(s) ==
  /\ tunnel[s] = "closing"
  /\ tunnel' = [tunnel EXCEPT ![s] = "down"]
  /\ UNCHANGED <<conn, table, keep, keepers, market, pc, target, holds>>

CloseReturns(k) ==
  /\ pc[k] = "transport"
  /\ tunnel[target[k]] = "down"
  /\ pc' = [pc EXCEPT ![k] = "ended"]
  /\ UNCHANGED <<conn, table, keep, keepers, tunnel, market, target, holds>>

-----------------------------------------------------------------------------
CloserSteps(k) == CloseReturns(k) \/ \E ok \in BOOLEAN : MarketAnswers(k, ok)

ConsumerNext ==
  \/ \E s \in ConsumerIds :
       \/ Connect(s)
       \/ Negotiated(s)
       \/ Dialed(s)
       \/ ConnectRaises(s)
       \/ KeepaliveCalls(s)
       \/ KeepaliveReturns(s)
       \/ HeartbeatGivesUp(s)
       \/ TransportCloses(s)
       \/ \E k \in Closers : CloseSession(k, s)
  \/ \E k \in Closers : CloserSteps(k)

\* The loop runs what can go on; market calls and transport closes have time limits.
ConsumerFairness ==
  /\ \A k \in Closers : WF_consumerVars(CloserSteps(k))
  /\ \A s \in ConsumerIds : WF_consumerVars(TransportCloses(s))

ConsumerSpec == ConsumerInit /\ [][ConsumerNext]_consumerVars

ConsumerFairSpec == ConsumerSpec /\ ConsumerFairness

-----------------------------------------------------------------------------
(* Properties.                                                             *)

\* The state has its type.
ConsumerTypeOK ==
  /\ conn \in [ConsumerIds -> {"idle", "negotiating", "dialing", "done", "failed"}]
  /\ table \in SUBSET ConsumerIds
  /\ keep \in [ConsumerIds -> {"none", "sleeping", "calling", "cancelled", "failed", "ended"}]
  /\ keepers \in SUBSET ConsumerIds
  /\ tunnel \in [ConsumerIds -> {"none", "connecting", "up", "closing", "down"}]
  /\ market \in [ConsumerIds -> {"none", "open", "closed"}]
  /\ pc \in [Closers -> {"idle", "market", "transport", "ended", "raised"}]
  /\ target \in [Closers -> ConsumerIds \cup {NoSession}]
  /\ holds \in SUBSET Closers

(***************************************************************************)
(* No keepalive is in flight for a session that the market has closed:     *)
(* close_session ends the task before it calls the market, also when a     *)
(* second close_session of the session finds no task to cancel.            *)
(***************************************************************************)
NoKeepaliveAfterClose ==
  \A s \in ConsumerIds : market[s] = "closed" => keep[s] \notin {"sleeping", "calling"}

(***************************************************************************)
(* A live transport can be closed: the session is in the table, or a call  *)
(* of close_session has it.  Whatever the market answers, none is lost.    *)
(***************************************************************************)
TransportsReachable ==
  \A s \in ConsumerIds : tunnel[s] = "up" =>
    \/ s \in table
    \/ \E k \in holds : target[k] = s /\ pc[k] \in {"market", "transport"}

(***************************************************************************)
(* When close_session has come to an end, by returning or by an error, the *)
(* transport it popped is closed: "pops from _sessions, cancels keepalive, *)
(* calls market_client.close_session(), closes relay transport".           *)
(***************************************************************************)
CloseMeansClosed ==
  \A k \in holds : pc[k] \in {"ended", "raised"} => tunnel[target[k]] \in {"none", "down"}

\* Overlapping closes do no harm: none is followed by a keepalive, none loses a
\* transport, and one that returns has closed its own.
CloseSafe == NoKeepaliveAfterClose /\ TransportsReachable /\ CloseMeansClosed

\* A session that leaves the table has its transport closed in the end.
ClosesComplete ==
  \A s \in ConsumerIds :
    conn[s] = "done" /\ s \notin table ~> tunnel[s] \in {"none", "down"}

-----------------------------------------------------------------------------
(* The inductive invariant behind the three, when no keepalive fails.      *)

\* The table and the dictionary of tasks hold the same registered sessions.
TablesAgree == keepers = table /\ \A s \in table : conn[s] = "done"

\* A task that can still call the market belongs to a session in the table.
KeepersListed == \A s \in ConsumerIds : keep[s] \in {"sleeping", "calling"} => s \in keepers

\* No task ends by an error.
NoneFailed == \A s \in ConsumerIds : keep[s] # "failed"

\* A transport is being dialed while connect is, and live once it has registered it.
LinksRegistered ==
  \A s \in ConsumerIds :
    /\ tunnel[s] = "connecting" <=> conn[s] = "dialing"
    /\ tunnel[s] \in {"up", "closing"} => conn[s] = "done"

\* A call of close_session that got past the table acts on a registered session
\* that it took out.
ClosersBusy ==
  \A k \in Closers :
    /\ pc[k] # "idle" => target[k] \in ConsumerIds /\ target[k] \notin table
                            /\ conn[target[k]] = "done"
    /\ pc[k] = "idle" => k \notin holds
    /\ pc[k] = "transport" => tunnel[target[k]] \in {"closing", "down"}

\* What the market has closed was taken out of the table.
ClosedByUs ==
  \A s \in ConsumerIds : market[s] = "closed" => s \notin table /\ conn[s] = "done"

ManagerInv ==
  /\ ConsumerTypeOK
  /\ TablesAgree
  /\ KeepersListed
  /\ NoneFailed
  /\ LinksRegistered
  /\ ClosersBusy
  /\ ClosedByUs
  /\ TransportsReachable
  /\ NoKeepaliveAfterClose
  /\ CloseMeansClosed
=============================================================================
