---------------------------- MODULE TrustChannel ----------------------------
(***************************************************************************)
(* TrustChannelClient: the websocket on which the market sends the node    *)
(* its offers.  run() connects again for ever, stop() ends it, senders     *)
(* share one lock, and callers of wait_for_action share the table of       *)
(* waiters.  All run on one event loop: an action is a task's statements   *)
(* up to its next await.                                                   *)
(*                                                                         *)
(* A message is its key, action and transfer_id.  Malformed messages are   *)
(* discarded and change nothing.  The jitter of the delay is left out.     *)
(***************************************************************************)
EXTENDS Naturals, FiniteSets

CONSTANTS TrustKeys,    \* keys of messages
          TrustOffers,  \* those whose action has a handler, SESSION_NEGOTIATE
          TrustCallers, \* calls of wait_for_action
          TrustSenders, \* calls of send
          MaxDelay,     \* _reconnect_max_delay_s, in units of _reconnect_delay_s
          MaxQueued,    \* bound on the messages the market sends
          NoCaller

ASSUME TrustAssumption ==
  /\ TrustOffers \subseteq TrustKeys
  /\ MaxDelay \in Nat \ {0}
  /\ NoCaller \notin TrustCallers

VARIABLES looping,  \* _running
          runner,   \* where run() is
          sock,     \* _ws: "none", "live", or "dead" after an error ended it
          delay,    \* backoff
          stopper,  \* where stop() is
          blind,    \* did stop() find run() inside websockets.connect?
          waiters,  \* _waiters
          awaits,   \* awaits[c]: the key caller c waits for
          future,   \* future[c]: its future, "returned" once its finally has run
          shared,   \* the callers that waited for a key together with another
          sender,   \* sender[t]: where send is
          handling, \* offers whose _safe_handle task is to run
          noted,    \* _negotiations
          queued    \* how many messages _receive_queue holds

runVars == <<looping, runner, sock, delay>>
waitVars == <<waiters, awaits, future, shared>>
offerVars == <<handling, noted, queued>>
trustVars == <<runVars, stopper, blind, waitVars, sender, offerVars>>

TrustInit ==
  /\ looping = FALSE
  /\ runner = "off"
  /\ sock = "none"
  /\ delay = 1
  /\ stopper = "idle"
  /\ blind = FALSE
  /\ waiters = [k \in TrustKeys |-> NoCaller]
  /\ awaits \in [TrustCallers -> TrustKeys]
  /\ future = [c \in TrustCallers |-> "none"]
  /\ shared = {}
  /\ sender = [t \in TrustSenders |-> "idle"]
  /\ handling = {}
  /\ noted = {}
  /\ queued = 0

-----------------------------------------------------------------------------
(* run.                                                                    *)

TrustRun ==
  /\ runner = "off"
  /\ looping' = TRUE
  /\ runner' = "connecting"
  /\ UNCHANGED <<sock, delay, stopper, blind, waitVars, sender, offerVars>>

\* websockets.connect returns.
TrustConnected ==
  /\ runner = "connecting"
  /\ runner' = "listening"
  /\ sock' = "live"
  /\ UNCHANGED <<looping, delay, stopper, blind, waitVars, sender, offerVars>>

\* After _connect_and_listen: leave, or sleep for the backoff.
LoopOn == runner' = IF looping THEN "sleeping" ELSE "ended"

\* Mutant of TrustClosed: the socket that was closed is kept.
TrustClosedKept ==
  /\ runner = "listening"
  /\ delay' = 1
  /\ LoopOn
  /\ UNCHANGED <<looping, sock, stopper, blind, waitVars, sender, offerVars>>

\* The connection closes normally, from either side.
TrustClosed ==
  /\ runner = "listening"
  /\ sock' = "none"
  /\ delay' = 1
  /\ LoopOn
  /\ UNCHANGED <<looping, stopper, blind, waitVars, sender, offerVars>>

\* The connection is refused or ends by an error: _ws stays, and so does the
\* backoff of the failures before it.
TrustBroken ==
  /\ runner \in {"connecting", "listening"}
  /\ sock' = IF sock = "live" THEN "dead" ELSE sock
  /\ LoopOn
  /\ UNCHANGED <<looping, delay, stopper, blind, waitVars, sender, offerVars>>

Doubled(d) == IF d * 2 < MaxDelay THEN d * 2 ELSE MaxDelay

\* The sleep is over.  A stop() during it is seen here.
TrustRetries ==
  /\ runner = "sleeping"
  /\ delay' = Doubled(delay)
  /\ runner' = IF looping THEN "connecting" ELSE "ended"
  /\ UNCHANGED <<looping, sock, stopper, blind, waitVars, sender, offerVars>>

-----------------------------------------------------------------------------
(* stop.                                                                   *)

\* The futures in the table are cancelled; their owners run later.
Cancelled ==
  future' = [c \in TrustCallers |->
               IF future[c] = "pending" /\ waiters[awaits[c]] = c THEN "cancelled" ELSE future[c]]

TrustStop ==
  /\ runner # "off" /\ stopper = "idle"
  /\ looping' = FALSE
  /\ blind' = (runner = "connecting")
  /\ IF sock = "none"
     THEN stopper' = "done" /\ Cancelled
     ELSE stopper' = "closing" /\ UNCHANGED future
  /\ UNCHANGED <<runner, sock, delay, waiters, awaits, shared, sender, offerVars>>

\* ws.close() returns: at once for a dead socket, else when the connection has
\* ended and run() has left it.  _ws may be another socket by then.
TrustStopped ==
  /\ stopper = "closing"
  /\ blind \/ runner # "listening"
  /\ sock' = "none"
  /\ stopper' = "done"
  /\ Cancelled
  /\ UNCHANGED <<looping, runner, delay, blind, waiters, awaits, shared, sender, offerVars>>

-----------------------------------------------------------------------------
(* wait_for_action and the dispatch of messages.                           *)

Waiting(k) == {c \in TrustCallers : awaits[c] = k /\ future[c] \notin {"none", "returned"}}

TrustWaits(c) ==
  /\ future[c] = "none"
  /\ future' = [future EXCEPT ![c] = "pending"]
  /\ waiters' = [waiters EXCEPT ![awaits[c]] = c]
  /\ shared' = IF Waiting(awaits[c]) = {} THEN shared
               ELSE shared \cup Waiting(awaits[c]) \cup {c}
  /\ UNCHANGED <<runVars, stopper, blind, awaits, sender, offerVars>>

\* Mutant of TrustReturns: no finally.
TrustReturnsNoPop(c) ==
  /\ future[c] \in {"pending", "result", "cancelled"}
  /\ future' = [future EXCEPT ![c] = "returned"]
  /\ UNCHANGED <<runVars, stopper, blind, waiters, awaits, shared, sender, offerVars>>

\* wait_for returns, raises, or times out.  The finally pops the key, whoever has it.
TrustReturns(c) ==
  /\ future[c] \in {"pending", "result", "cancelled"}
  /\ future' = [future EXCEPT ![c] = "returned"]
  /\ waiters' = [waiters EXCEPT ![awaits[c]] = NoCaller]
  /\ UNCHANGED <<runVars, stopper, blind, awaits, shared, sender, offerVars>>

\* _dispatch_message
TrustDispatch(k) ==
  /\ runner = "listening"
  /\ queued < MaxQueued
  /\ IF waiters[k] # NoCaller /\ future[waiters[k]] = "pending"
     THEN /\ future' = [future EXCEPT ![waiters[k]] = "result"]
          /\ UNCHANGED offerVars
     ELSE /\ queued' = queued + 1
          /\ handling' = IF k \in TrustOffers THEN handling \cup {k} ELSE handling
          /\ UNCHANGED <<future, noted>>
  /\ UNCHANGED <<runVars, stopper, blind, waiters, awaits, shared, sender>>

\* _handle_session_negotiate, in a task of its own.
TrustHandles(k) ==
  /\ k \in handling
  /\ handling' = handling \ {k}
  /\ noted' = noted \cup {k}
  /\ UNCHANGED <<runVars, stopper, blind, waitVars, sender, queued>>

-----------------------------------------------------------------------------
(* send.                                                                   *)

\* Is _send_lock free?
SendFree(t) == \A u \in TrustSenders : sender[u] # "sending"

\* The first look at _ws.
TrustSend(t) ==
  /\ sender[t] = "idle"
  /\ sender' = [sender EXCEPT ![t] = IF sock = "none" THEN "raised" ELSE "queued"]
  /\ UNCHANGED <<runVars, stopper, blind, waitVars, offerVars>>

\* With the lock, _ws is read again: a dead socket or None raises.
TrustSendStarts(t) ==
  /\ sender[t] = "queued"
  /\ SendFree(t)
  /\ sender' = [sender EXCEPT ![t] = IF sock = "live" THEN "sending" ELSE "raised"]
  /\ UNCHANGED <<runVars, stopper, blind, waitVars, offerVars>>

\* ws.send returns, or raises because the connection is gone.
TrustSendEnds(t) ==
  /\ sender[t] = "sending"
  /\ \E result \in IF runner = "listening" THEN {"sent", "raised"} ELSE {"raised"} :
       sender' = [sender EXCEPT ![t] = result]
  /\ UNCHANGED <<runVars, stopper, blind, waitVars, offerVars>>

-----------------------------------------------------------------------------
TrustNext ==
  \/ TrustRun \/ TrustConnected \/ TrustClosed \/ TrustBroken \/ TrustRetries
  \/ TrustStop \/ TrustStopped
  \/ \E c \in TrustCallers : TrustWaits(c) \/ TrustReturns(c)
  \/ \E k \in TrustKeys : TrustDispatch(k) \/ TrustHandles(k)
  \/ \E t \in TrustSenders : TrustSend(t) \/ TrustSendStarts(t) \/ TrustSendEnds(t)

TrustSpec == TrustInit /\ [][TrustNext]_trustVars

\* A connect or a sleep ends, and a connection that stop() closes does.  The market
\* is not trusted to close one by itself.
TrustFairness ==
  /\ WF_trustVars(TrustConnected \/ TrustRetries)
  /\ WF_trustVars(stopper = "closing" /\ ~blind /\ (TrustClosed \/ TrustBroken))
  /\ WF_trustVars(TrustStopped)
  /\ \A t \in TrustSenders : WF_trustVars(TrustSendStarts(t) \/ TrustSendEnds(t))

-----------------------------------------------------------------------------
(* Properties.                                                             *)

\* The state has its type, and the delay stays below its cap.
TrustTypeOK ==
  /\ looping \in BOOLEAN /\ blind \in BOOLEAN
  /\ runner \in {"off", "connecting", "listening", "sleeping", "ended"}
  /\ sock \in {"none", "live", "dead"}
  /\ delay \in 1..MaxDelay
  /\ stopper \in {"idle", "closing", "done"}
  /\ waiters \in [TrustKeys -> TrustCallers \cup {NoCaller}]
  /\ awaits \in [TrustCallers -> TrustKeys]
  /\ future \in [TrustCallers -> {"none", "pending", "result", "cancelled", "returned"}]
  /\ shared \subseteq TrustCallers
  /\ sender \in [TrustSenders -> {"idle", "queued", "sending", "sent", "raised"}]
  /\ handling \subseteq TrustOffers /\ noted \subseteq TrustOffers
  /\ queued \in Nat

(***************************************************************************)
(* While run() listens and nobody stops it, _ws is the connection it       *)
(* listens on, and a _ws that is live is always listened on: neither a     *)
(* close nor an error leaves send with the connection before.              *)
(***************************************************************************)
SocketHeard ==
  /\ runner = "listening" /\ stopper = "idle" => sock = "live"
  /\ sock = "live" => runner = "listening"

(***************************************************************************)
(* The table holds only callers that still wait, under their own key; and  *)
(* a caller that waits is in it unless another one waited for the same     *)
(* key at the same time: only then can a message miss its waiter.          *)
(***************************************************************************)
WaitersCurrent ==
  /\ \A k \in TrustKeys : waiters[k] # NoCaller => waiters[k] \in Waiting(k)
  /\ \A c \in TrustCallers \ shared :
       future[c] = "pending" => waiters[awaits[c]] = c

\* At most one task is inside ws.send, also across a reconnect.
OneSender == Cardinality({t \in TrustSenders : sender[t] = "sending"}) <= 1

\* Through errors, reconnects and stop() a send finds the connection that run()
\* listens to, or none, and is alone inside it; the delay stays below its cap.
TrustSafe == TrustTypeOK /\ SocketHeard /\ OneSender

(***************************************************************************)
(* A stop() that does not fall into websockets.connect ends run().  One    *)
(* that does closes nothing: run() then listens until the market hangs up. *)
(***************************************************************************)
StopEndsRun == stopper # "idle" ~> runner = "ended" \/ blind

\* Every send returns or raises, whatever becomes of the connection.
SendsEnd ==
  \A t \in TrustSenders : sender[t] = "queued" ~> sender[t] \in {"sent", "raised"}
=============================================================================
