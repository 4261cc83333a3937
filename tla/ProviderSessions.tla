-------------------------- MODULE ProviderSessions --------------------------
(***************************************************************************)
(* ProviderSessionHandler: the offers (SESSION_NEGOTIATE) a provider gets  *)
(* on the trust channel, the transports it connects for them, the task     *)
(* that serves each, and stop(), which runs while offers keep coming.      *)
(*                                                                         *)
(* Everything runs on one event loop: an action is what one task does      *)
(* between two awaits.  An offer, the transport it leads to and the task   *)
(* serving it are named by the offer.  RelayTransport.close is a step to   *)
(* "closing" and a later one to "down"; RelaySession has its details.      *)
(***************************************************************************)
EXTENDS Naturals, FiniteSets

CONSTANTS Offers,          \* SESSION_NEGOTIATE events
          Sessions,        \* session ids
          None,            \* no offer, no session
          Overlap,         \* may an offer be repeated while the first still connects?
          HealthMayRaise,  \* may health_check raise what is not an httpx.HTTPError?
          FailureLimit     \* consecutive failures that make the adapter unhealthy (3)

ASSUME ProviderAssumption ==
  /\ None \notin Offers
  /\ None \notin Sessions
  /\ Overlap \in BOOLEAN
  /\ HealthMayRaise \in BOOLEAN
  /\ FailureLimit \in Nat \ {0}

VARIABLES sid,       \* sid[e]: the session id of offer e, None before it arrives
          link,      \* link[e]: the transport of offer e
          proc,      \* proc[e]: the _process_session task of offer e
          closes,    \* closes[e]: the transport the finally of e's task is closing
          doomed,    \* the offers whose task has been cancelled
          active,    \* _active_sessions
          tasks,     \* _session_tasks
          stopPc,    \* where stop() is
          waits,     \* what stop() still has to await in its present loop
          health,    \* the health loop task
          failures,  \* _consecutive_failures of the adapter, up to FailureLimit
          healthy,   \* _healthy of the adapter
          channel    \* does the trust channel still dispatch offers?

sessionVars == <<sid, link, proc, closes, doomed, active, tasks>>
stopVars == <<stopPc, waits, channel>>
healthVars == <<health, failures, healthy>>
vars == <<sessionVars, stopVars, healthVars>>

Links == {"none", "connecting", "failed", "up", "closing", "down"}
Procs == {"none", "created", "running", "cleanup", "ended"}

\* After start(): the adapter's client exists, the handler is registered and the
\* health loop runs; the trust channel task takes its first step after that.
Init ==
  /\ sid = [e \in Offers |-> None]
  /\ link = [e \in Offers |-> "none"]
  /\ proc = [e \in Offers |-> "none"]
  /\ closes = [e \in Offers |-> None]
  /\ doomed = {}
  /\ active = [s \in Sessions |-> None]
  /\ tasks = [s \in Sessions |-> None]
  /\ stopPc = "no"
  /\ waits = {}
  /\ health = "running"
  /\ failures = 0
  /\ healthy = TRUE
  /\ channel = TRUE

\* RelayTransport.close on the transports of es: nothing is done to a closed one.
Closing(es) ==
  [e \in Offers |-> IF e \in es /\ link[e] = "up" THEN "closing" ELSE link[e]]

-----------------------------------------------------------------------------
(* Offers.                                                                 *)

\* The market repeats an offer for a session only when it may.
MayOffer(s) ==
  Overlap \/ \A f \in Offers : sid[f] = s => link[f] # "connecting"

\* on_session_negotiate goes on to connect.
Wanted(s, relay) == healthy /\ relay /\ active[s] = None

\* on_session_negotiate up to its await: relay says that the offer is for relay
\* mode with all its fields.  An offer that is not wanted is dropped for good.
Negotiate(e, s, relay) ==
  /\ channel
  /\ sid[e] = None
  /\ MayOffer(s)
  /\ sid' = [sid EXCEPT ![e] = s]
  /\ link' = [link EXCEPT ![e] = IF Wanted(s, relay) THEN "connecting" ELSE "none"]
  /\ UNCHANGED <<proc, closes, doomed, active, tasks, stopVars, healthVars>>

\* transport.connect returns: both tables are written without looking again.
Connected(e) ==
  /\ link[e] = "connecting"
  /\ link' = [link EXCEPT ![e] = "up"]
  /\ active' = [active EXCEPT ![sid[e]] = e]
  /\ tasks' = [tasks EXCEPT ![sid[e]] = e]
  /\ proc' = [proc EXCEPT ![e] = "created"]
  /\ UNCHANGED <<sid, closes, doomed, stopVars, healthVars>>

\* transport.connect raises, and _safe_handle logs it.
ConnectFails(e) ==
  /\ link[e] = "connecting"
  /\ link' = [link EXCEPT ![e] = "failed"]
  /\ UNCHANGED <<sid, proc, closes, doomed, active, tasks, stopVars, healthVars>>

-----------------------------------------------------------------------------
(* The task of a session.                                                  *)

\* The first step of the task.  One that was cancelled before it never enters
\* the try block, so its finally does not run.
ProcessStarts(e) ==
  /\ proc[e] = "created"
  /\ proc' = [proc EXCEPT ![e] = IF e \in doomed THEN "ended" ELSE "running"]
  /\ UNCHANGED <<sid, link, closes, doomed, active, tasks, stopVars, healthVars>>

\* Mutant of Finally: the transport is taken out of the table and not closed.
FinallyLeavesOpen(e) ==
  /\ active' = [active EXCEPT ![sid[e]] = None]
  /\ tasks' = [tasks EXCEPT ![sid[e]] = None]
  /\ proc' = [proc EXCEPT ![e] = "ended"]
  /\ UNCHANGED <<link, closes>>

\* Mutant of Finally: the table keeps the entry of the session that ended.
FinallyKeepsEntry(e) ==
  LET popped == active[sid[e]] IN
  /\ active' = active
  /\ tasks' = [tasks EXCEPT ![sid[e]] = None]
  /\ link' = Closing({popped})
  /\ closes' = [closes EXCEPT ![e] = popped]
  /\ proc' = [proc EXCEPT ![e] = IF popped = None THEN "ended" ELSE "cleanup"]

\* The finally of _process_session: it pops whatever the tables hold for its
\* session id, its own transport or another offer's.
Finally(e) ==
  LET popped == active[sid[e]] IN
  /\ active' = [active EXCEPT ![sid[e]] = None]
  /\ tasks' = [tasks EXCEPT ![sid[e]] = None]
  /\ link' = Closing({popped})
  /\ closes' = [closes EXCEPT ![e] = popped]
  /\ proc' = [proc EXCEPT ![e] = IF popped = None THEN "ended" ELSE "cleanup"]

\* recv_frame or send_frame raises: the relay hung up, a frame was refused, or
\* the transport is being closed by its heartbeat or by somebody else.
ProcessFails(e) ==
  /\ proc[e] = "running"
  /\ Finally(e)
  /\ UNCHANGED <<sid, doomed, stopVars, healthVars>>

\* Mutant of ProcessCancelled: the loop swallows the cancellation.
ProcessCancelledIgnored(e) ==
  /\ proc[e] = "running"
  /\ e \in doomed
  /\ doomed' = doomed \ {e}
  /\ UNCHANGED <<sid, link, proc, closes, active, tasks, stopVars, healthVars>>

\* The cancellation arrives in the loop.
ProcessCancelled(e) ==
  /\ proc[e] = "running"
  /\ e \in doomed
  /\ Finally(e)
  /\ UNCHANGED <<sid, doomed, stopVars, healthVars>>

CleanupEnds(e) ==
  /\ proc[e] = "cleanup"
  /\ link[closes[e]] = "down"
  /\ proc' = [proc EXCEPT ![e] = "ended"]
  /\ UNCHANGED <<sid, link, closes, doomed, active, tasks, stopVars, healthVars>>

\* The heartbeat loop of the transport gives up and closes it.
HeartbeatCloses(e) ==
  /\ link[e] = "up"
  /\ link' = Closing({e})
  /\ UNCHANGED <<sid, proc, closes, doomed, active, tasks, stopVars, healthVars>>

\* RelayTransport.close ends: its waits have time limits.
CloseEnds(e) ==
  /\ link[e] = "closing"
  /\ link' = [link EXCEPT ![e] = "down"]
  /\ UNCHANGED <<sid, proc, closes, doomed, active, tasks, stopVars, healthVars>>

-----------------------------------------------------------------------------
(* The health loop.                                                        *)

\* One answer to health_check.
HealthCheck(ok) ==
  /\ health = "running"
  /\ failures' = IF ok THEN 0 ELSE IF failures = FailureLimit THEN failures ELSE failures + 1
  /\ healthy' = (ok \/ (healthy /\ failures' < FailureLimit))
  /\ UNCHANGED <<health, sessionVars, stopVars>>

\* health_check raises something else, such as httpx.InvalidURL: the loop ends.
HealthRaises ==
  /\ HealthMayRaise
  /\ health = "running"
  /\ health' = "raised"
  /\ UNCHANGED <<failures, healthy, sessionVars, stopVars>>

-----------------------------------------------------------------------------
(* stop(), called from the finally of the provider's task, which cancels   *)
(* the trust channel's task only after it.                                 *)

\* Cancels and awaits the health loop.  If that had raised, so does stop().
StopBegins ==
  /\ stopPc = "no"
  /\ stopPc' = IF health = "raised" THEN "raised" ELSE "health"
  /\ health' = IF health = "raised" THEN health ELSE "cancelled"
  /\ UNCHANGED <<waits, channel, failures, healthy, sessionVars>>

\* Cancels the listed tasks and begins to await them.
StopCancels ==
  LET listed == {tasks[s] : s \in Sessions} \ {None} IN
  /\ stopPc = "health"
  /\ stopPc' = "join"
  /\ doomed' = doomed \cup listed
  /\ waits' = listed
  /\ UNCHANGED <<sid, link, proc, closes, active, tasks, channel, healthVars>>

\* Mutant of StopCollects: only the tasks are cancelled, transports are left to them.
StopCollectsNothing ==
  /\ stopPc = "join"
  /\ \A e \in waits : proc[e] = "ended"
  /\ stopPc' = "close"
  /\ waits' = {}
  /\ UNCHANGED <<sid, link, proc, closes, doomed, active, tasks, channel, healthVars>>

\* All of them have ended: takes the table's transports and clears it.
StopCollects ==
  /\ stopPc = "join"
  /\ \A e \in waits : proc[e] = "ended"
  /\ stopPc' = "close"
  /\ waits' = {active[s] : s \in Sessions} \ {None}
  /\ active' = [s \in Sessions |-> None]
  /\ UNCHANGED <<sid, link, proc, closes, doomed, tasks, channel, healthVars>>

\* Calls close on the next transport; the loop goes on when it has ended.
StopCloses(e) ==
  /\ stopPc = "close"
  /\ e \in waits
  /\ link[e] = "up"
  /\ \A f \in waits : link[f] # "closing"
  /\ link' = Closing({e})
  /\ UNCHANGED <<sid, proc, closes, doomed, active, tasks, stopVars, healthVars>>

StopClosed(e) ==
  /\ stopPc = "close"
  /\ e \in waits
  /\ link[e] = "down"
  /\ waits' = waits \ {e}
  /\ UNCHANGED <<stopPc, channel, sessionVars, healthVars>>

\* The adapter is stopped and then the trust channel's task cancelled.
StopEnds ==
  /\ stopPc = "close"
  /\ waits = {}
  /\ stopPc' = "stopped"
  /\ channel' = FALSE
  /\ UNCHANGED <<waits, sessionVars, healthVars>>

-----------------------------------------------------------------------------
Process(e) ==
  \/ ProcessStarts(e)
  \/ ProcessCancelled(e)
  \/ CleanupEnds(e)

Stopping ==
  \/ StopCancels
  \/ StopCollects
  \/ \E e \in Offers : StopCloses(e) \/ StopClosed(e)
  \/ StopEnds

Next ==
  \/ \E e \in Offers :
       \/ \E s \in Sessions, relay \in BOOLEAN : Negotiate(e, s, relay)
       \/ Connected(e)
       \/ ConnectFails(e)
       \/ Process(e)
       \/ ProcessFails(e)
       \/ HeartbeatCloses(e)
       \/ CloseEnds(e)
  \/ \E ok \in BOOLEAN : HealthCheck(ok)
  \/ HealthRaises
  \/ StopBegins
  \/ Stopping

(***************************************************************************)
(* Fairness: the event loop runs every task that can go on, and the awaits *)
(* inside RelayTransport.close have time limits, and recv_frame raises on  *)
(* a socket that was closed.  Nothing makes an offer come, a connect       *)
(* return or a relay hang up.                                              *)
(***************************************************************************)
Fairness ==
  /\ \A e \in Offers :
       /\ WF_vars(Process(e))
       /\ WF_vars(CloseEnds(e))
       /\ WF_vars(link[e] = "down" /\ ProcessFails(e))
  /\ WF_vars(Stopping)

Spec == Init /\ [][Next]_vars

FairSpec == Spec /\ Fairness

-----------------------------------------------------------------------------
(* Properties.                                                             *)

\* The state has its type.
TypeOK ==
  /\ sid \in [Offers -> Sessions \cup {None}]
  /\ link \in [Offers -> Links]
  /\ proc \in [Offers -> Procs]
  /\ closes \in [Offers -> Offers \cup {None}]
  /\ doomed \in SUBSET Offers
  /\ active \in [Sessions -> Offers \cup {None}]
  /\ tasks \in [Sessions -> Offers \cup {None}]
  /\ stopPc \in {"no", "health", "join", "close", "stopped", "raised"}
  /\ waits \in SUBSET Offers
  /\ health \in {"running", "cancelled", "raised"}
  /\ failures \in 0..FailureLimit
  /\ healthy \in BOOLEAN
  /\ channel \in BOOLEAN

(***************************************************************************)
(* Every live transport is within stop()'s reach: the table holds it under *)
(* its session id, or stop() has taken it out and will close it.  No path  *)
(* through connect, finally and stop() loses one, provided an offer is not *)
(* repeated while the first one connects.                                  *)
(***************************************************************************)
LinksOwned ==
  \A e \in Offers : link[e] = "up" =>
    \/ active[sid[e]] = e
    \/ stopPc = "close" /\ e \in waits

(***************************************************************************)
(* A session has one live transport while the handler is not stopping:     *)
(* on_session_negotiate ignores an offer for a session that is active.     *)
(***************************************************************************)
OneLinkPerSession ==
  stopPc = "no" => \A e, f \in Offers :
    sid[e] = sid[f] /\ link[e] = "up" /\ link[f] = "up" => e = f

(***************************************************************************)
(* The adapter is unhealthy exactly when its last FailureLimit answers     *)
(* were failures, so the "elif not was_healthy" of health_check never      *)
(* decides anything.                                                       *)
(***************************************************************************)
HealthAgrees == healthy <=> failures < FailureLimit

\* What the handler keeps is in order: every live transport has an owner, a
\* session has one, and the adapter is unhealthy when its count says so.
LinksSafe == TypeOK /\ LinksOwned /\ OneLinkPerSession /\ HealthAgrees

(***************************************************************************)
(* A stop() that has passed its first await comes to its end.  It passes   *)
(* it unless the health loop had ended by an error, which it raises there. *)
(***************************************************************************)
StopCompletes == stopPc = "health" ~> stopPc = "stopped"

(***************************************************************************)
(* A transport that was live before stop() cleared the table is closed,    *)
(* also when its task was cancelled before its first step.                 *)
(***************************************************************************)
StopReachesAll ==
  \A e \in Offers :
    link[e] = "up" /\ stopPc \in {"health", "join"} ~> link[e] = "down"

(***************************************************************************)
(* A session whose transport was closed frees its place: its task ends and *)
(* the table lets go of the transport, so the session can be offered again.*)
(***************************************************************************)
ClosedSessionsLeave ==
  \A e \in Offers :
    link[e] = "down" ~> proc[e] = "ended" /\ \A s \in Sessions : active[s] # e

-----------------------------------------------------------------------------
(* The inductive invariant behind LinksOwned and OneLinkPerSession.        *)

\* Only an offer that came has a transport, and only a connected one a task.
OffersArrive ==
  \A e \in Offers :
    /\ sid[e] = None => link[e] = "none"
    /\ link[e] \in {"none", "connecting", "failed"} => proc[e] = "none"

\* No two offers of a session are connecting, and none is while one is active.
ConnectsAlone ==
  \A e \in Offers : link[e] = "connecting" =>
    /\ active[sid[e]] = None
    /\ \A f \in Offers : sid[f] = sid[e] /\ link[f] = "connecting" => f = e

\* The table is keyed by session id and holds connected transports.
ActiveKeyed ==
  \A s \in Sessions : active[s] # None =>
    sid[active[s]] = s /\ link[active[s]] \in {"up", "closing", "down"}

HandlerInv ==
  /\ TypeOK
  /\ OffersArrive
  /\ ConnectsAlone
  /\ ActiveKeyed
  /\ LinksOwned
=============================================================================
