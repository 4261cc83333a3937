--------------------------- MODULE NodeLifecycle ---------------------------
(***************************************************************************)
(* The management plane's ProcessManager and ProcessStateStore: starting   *)
(* and stopping the provider and the consumer, locking and unlocking the   *)
(* node, by concurrent requests of the management API.                     *)
(*                                                                         *)
(* A request is a list of statements, todo[r], whose head it is at.  All   *)
(* requests run on one event loop: turn is the request that has it, and    *)
(* keeps it until it awaits, ends or raises.  The provider task (_run) and *)
(* the proxy's server a request starts are named by the request.           *)
(***************************************************************************)
EXTENDS Naturals, Sequences

CONSTANTS Requests,    \* requests, each made at most once
          Operations,  \* the operations they may ask for
          Sealed,      \* does the keystore need a passphrase?
          None

ASSUME LifecycleAssumption ==
  /\ None \notin Requests
  /\ Sealed \in BOOLEAN

VARIABLES todo,          \* todo[r]: the statements request r has left
          arrived,       \* the requests that were made
          overlapped,    \* did one of them come while another was under way?
          turn,          \* the request that has the event loop, or None
          wait,          \* wait[r]: what r awaits: "nothing", "sleep", "provider", "consumer"
          joins,         \* joins[r]: the provider task or server r awaits
          run,           \* run[i]: the provider task that request i created
          server,        \* server[i]: the proxy's server that request i created
          trust,         \* trust[i]: the channel that the trust task of run i serves, or None
          providerTask,  \* _provider_task
          handler,       \* _provider_handler
          channel,       \* _trust_channel
          trustTask,     \* _trust_task
          proxy,         \* _consumer_proxy
          running,       \* provider.running and consumer.running of the store
          flags,         \* _locked, _unlocked, _node_state of the store
          passphrase,    \* _passphrase of the store
          env            \* AIM_KEYSTORE_PASSPHRASE

requestVars == <<todo, arrived, overlapped, turn, wait, joins>>
providerVars == <<run, trust, providerTask, handler, channel, trustTask>>
consumerVars == <<server, proxy>>
storeVars == <<flags, passphrase, env>>
vars == <<requestVars, providerVars, consumerVars, running, storeVars>>

\* The statements of the route handlers.  "if_" looks at the running flag first,
\* "try_" suppresses the errors the handler suppresses.
Programs ==
  [provider_start   |-> <<"start_provider">>,
   provider_stop    |-> <<"stop_provider">>,
   provider_restart |-> <<"stop_provider", "start_provider">>,
   provider_reload  |-> <<"reload">>,
   consumer_start   |-> <<"start_consumer">>,
   consumer_stop    |-> <<"stop_consumer">>,
   lock_node        |-> <<"if_stop_provider", "if_stop_consumer", "lock">>,
   unlock           |-> <<"unlock", "try_start_provider", "try_start_consumer">>,
   shutdown         |-> <<"try_stop_provider", "try_stop_consumer">>]

ASSUME OperationsAssumption == Operations \subseteq DOMAIN Programs

\* The statements of the programs, which is what a request has left of one.
Statements ==
  {"start_provider", "try_start_provider", "stop_provider", "try_stop_provider",
   "if_stop_provider", "start_consumer", "try_start_consumer", "stop_consumer",
   "try_stop_consumer", "if_stop_consumer", "lock", "unlock", "reload"}

Locked   == [locked |-> TRUE, unlocked |-> FALSE, nodeState |-> "LOCKED"]
Unlocked == [locked |-> FALSE, unlocked |-> TRUE, nodeState |-> "READY"]

\* A node that was set up in both modes, at boot: locked if its keystore is sealed.
Init ==
  /\ todo = [r \in Requests |-> << >>]
  /\ arrived = {}
  /\ overlapped = FALSE
  /\ turn = None
  /\ wait = [r \in Requests |-> "nothing"]
  /\ joins = [r \in Requests |-> None]
  /\ run = [r \in Requests |-> "none"]
  /\ server = [r \in Requests |-> "none"]
  /\ trust = [r \in Requests |-> None]
  /\ providerTask = None
  /\ handler = None
  /\ channel = None
  /\ trustTask = None
  /\ proxy = None
  /\ running = [provider |-> FALSE, consumer |-> FALSE]
  /\ flags = IF Sealed THEN Locked ELSE Unlocked
  /\ passphrase = "none"
  /\ env = "absent"

-----------------------------------------------------------------------------
(* The event loop.                                                         *)

At(r, statements) == turn = r /\ todo[r] # << >> /\ Head(todo[r]) \in statements

\* r goes on with the statements s, or ends, without an await in between.
GoOn(r, s) ==
  /\ todo' = [todo EXCEPT ![r] = s]
  /\ turn' = IF s = << >> THEN None ELSE r

Continues(r) == GoOn(r, Tail(todo[r])) /\ UNCHANGED <<arrived, overlapped, wait, joins>>

\* The exception ends the handler unless the statement is one that suppresses it.
Raises(r) ==
  /\ GoOn(r, IF Head(todo[r]) \in {"start_provider", "stop_provider",
                                   "start_consumer", "stop_consumer"}
             THEN << >> ELSE Tail(todo[r]))
  /\ UNCHANGED <<arrived, overlapped, wait, joins>>

Awaits(r, what, i) ==
  /\ wait' = [wait EXCEPT ![r] = what]
  /\ joins' = [joins EXCEPT ![r] = i]
  /\ turn' = None
  /\ UNCHANGED <<todo, arrived, overlapped>>

\* What r awaited has come: it goes on with s.
Resumes(r, s) ==
  /\ turn = None
  /\ wait' = [wait EXCEPT ![r] = "nothing"]
  /\ joins' = [joins EXCEPT ![r] = None]
  /\ GoOn(r, s)
  /\ UNCHANGED <<arrived, overlapped>>

\* Those who await a server that is gone are next in the loop's queue.
ServerJoined(r) == wait[r] = "consumer" /\ server[joins[r]] = "gone"
LoopFree == turn = None /\ \A r \in Requests : ~ServerJoined(r)

Arrive(r, op) ==
  /\ LoopFree
  /\ r \notin arrived
  /\ arrived' = arrived \cup {r}
  /\ overlapped' = (overlapped \/ \E q \in Requests : todo[q] # << >>)
  /\ GoOn(r, Programs[op])
  /\ UNCHANGED <<wait, joins, providerVars, consumerVars, running, storeVars>>

-----------------------------------------------------------------------------
(* The provider.                                                           *)

\* _propagate_passphrase
Propagated == IF passphrase = "none" THEN "empty" ELSE passphrase

\* _check_ready, and the check of the running flag.
MayStart(which) == ~flags.locked /\ ~running[which]

\* valid says whether config.toml and the keystore can be loaded.
StartProvider(r, valid) ==
  /\ At(r, {"start_provider", "try_start_provider"})
  /\ env' = IF MayStart("provider") THEN Propagated ELSE env
  /\ IF ~valid \/ ~MayStart("provider")
     THEN Raises(r) /\ UNCHANGED providerVars
     ELSE /\ run' = [run EXCEPT ![r] = "created"]
          /\ providerTask' = r
          /\ handler' = r
          /\ channel' = r
          /\ Awaits(r, "sleep", r)
          /\ UNCHANGED <<trust, trustTask>>
  /\ UNCHANGED <<consumerVars, running, flags, passphrase>>

\* The 0.1 s of start_provider are over: by then _run has taken its first step.
SleepEnds(r) ==
  /\ LoopFree
  /\ wait[r] = "sleep"
  /\ run[r] # "created"
  /\ Resumes(r, Tail(todo[r]))
  /\ UNCHANGED <<providerVars, consumerVars, running, storeVars>>

\* The first step of _run, up to its Event().wait(): nothing in it suspends.
RunStarts(i) ==
  /\ LoopFree
  /\ run[i] = "created"
  /\ run' = [run EXCEPT ![i] = "serving"]
  /\ trustTask' = i
  /\ trust' = [trust EXCEPT ![i] = channel]
  /\ running' = [running EXCEPT !.provider = TRUE]
  /\ UNCHANGED <<requestVars, consumerVars, storeVars, providerTask, handler, channel>>

(***************************************************************************)
(* What task.cancel() makes of a provider task.  One that has not taken    *)
(* its first step never does.  One that serves begins its finally.  One    *)
(* that is in its finally, in handler.stop(), is interrupted there unless  *)
(* the await it is at suppresses the cancellation.                         *)
(***************************************************************************)
Cancelled(state) ==
  CASE state = "created"  -> {"aborted"}
    [] state = "serving"  -> {"stopping"}
    [] state = "stopping" -> {"stopping", "aborted"}
    [] OTHER              -> {state}

StopProvider(r) ==
  /\ At(r, {"stop_provider", "try_stop_provider", "if_stop_provider"})
  /\ \/ /\ ~running.provider
        /\ Raises(r)
        /\ UNCHANGED run
     \/ /\ running.provider
        /\ providerTask = None
        /\ Continues(r)
        /\ UNCHANGED run
     \/ /\ running.provider
        /\ providerTask # None
        /\ \E s \in Cancelled(run[providerTask]) : run' = [run EXCEPT ![providerTask] = s]
        /\ Awaits(r, "provider", providerTask)
  /\ UNCHANGED <<trust, providerTask, handler, channel, trustTask, consumerVars, running, storeVars>>

\* Mutant of RunStops: the trust channel's task is left running.
RunStopsKeepingTrust(i) ==
  /\ LoopFree
  /\ run[i] = "stopping"
  /\ run' = [run EXCEPT ![i] = "done"]
  /\ handler' = None
  /\ running' = [running EXCEPT !.provider = FALSE]
  /\ UNCHANGED <<requestVars, consumerVars, storeVars, trust, providerTask, channel, trustTask>>

\* handler.stop() has returned: the rest of the finally of _run.
RunStops(i) ==
  /\ LoopFree
  /\ run[i] = "stopping"
  /\ run' = [run EXCEPT ![i] = "done"]
  /\ handler' = None
  /\ trust' = [j \in Requests |-> IF j = trustTask THEN None ELSE trust[j]]
  /\ running' = [running EXCEPT !.provider = FALSE]
  /\ UNCHANGED <<requestVars, consumerVars, storeVars, providerTask, channel, trustTask>>

\* stop_provider resumes.  A task that ended by its cancellation passes it on.
ProviderJoined(r) ==
  /\ LoopFree
  /\ wait[r] = "provider"
  /\ \/ /\ run[joins[r]] = "done"
        /\ providerTask' = None
        /\ Resumes(r, Tail(todo[r]))
     \/ /\ run[joins[r]] = "aborted"
        /\ Resumes(r, << >>)
        /\ UNCHANGED providerTask
  /\ UNCHANGED <<run, trust, handler, channel, trustTask, consumerVars, running, storeVars>>

-----------------------------------------------------------------------------
(* The consumer.                                                           *)

\* start_consumer: LocalProxy.start only creates the server's task.
StartConsumer(r, valid) ==
  /\ At(r, {"start_consumer", "try_start_consumer"})
  /\ env' = IF MayStart("consumer") THEN Propagated ELSE env
  /\ IF ~valid \/ ~MayStart("consumer")
     THEN Raises(r) /\ UNCHANGED <<consumerVars, running>>
     ELSE /\ proxy' = r
          /\ server' = [server EXCEPT ![r] = "serving"]
          /\ running' = [running EXCEPT !.consumer = TRUE]
          /\ Continues(r)
  /\ UNCHANGED <<providerVars, flags, passphrase>>

StopConsumer(r) ==
  /\ At(r, {"stop_consumer", "try_stop_consumer", "if_stop_consumer"})
  /\ IF ~running.consumer
     THEN Raises(r) /\ UNCHANGED <<server, running>>
     ELSE IF proxy = None
     THEN /\ running' = [running EXCEPT !.consumer = FALSE]
          /\ Continues(r)
          /\ UNCHANGED server
     ELSE /\ server' = [server EXCEPT ![proxy] = "exiting"]
          /\ Awaits(r, "consumer", proxy)
          /\ UNCHANGED running
  /\ UNCHANGED <<proxy, providerVars, storeVars>>

ServerExits(i) ==
  /\ LoopFree
  /\ server[i] = "exiting"
  /\ server' = [server EXCEPT ![i] = "gone"]
  /\ UNCHANGED <<requestVars, proxy, providerVars, running, storeVars>>

\* stop_consumer resumes.
ConsumerJoined(r) ==
  /\ ServerJoined(r)
  /\ proxy' = None
  /\ running' = [running EXCEPT !.consumer = FALSE]
  /\ Resumes(r, Tail(todo[r]))
  /\ UNCHANGED <<server, providerVars, storeVars>>

-----------------------------------------------------------------------------
(* The lock.                                                               *)

\* Mutant of Lock: the passphrase stays in the environment.
LockKeepsEnv(r) ==
  /\ At(r, {"lock"})
  /\ flags' = Locked
  /\ passphrase' = "none"
  /\ Continues(r)
  /\ UNCHANGED <<env, providerVars, consumerVars, running>>

\* lock_node after it stopped what it found running.
Lock(r) ==
  /\ At(r, {"lock"})
  /\ flags' = Locked
  /\ passphrase' = "none"
  /\ env' = "absent"
  /\ Continues(r)
  /\ UNCHANGED <<providerVars, consumerVars, running>>

\* ProcessStateStore.unlock: with the right passphrase or another.  No passphrase
\* and the empty one, which opens a keystore that is not sealed, are not told apart.
Unlock(r, right) ==
  /\ At(r, {"unlock"})
  /\ IF right
     THEN /\ passphrase' = IF Sealed THEN "secret" ELSE "none"
          /\ flags' = Unlocked
          /\ Continues(r)
     ELSE /\ GoOn(r, << >>)
          /\ UNCHANGED <<passphrase, flags, arrived, overlapped, wait, joins>>
  /\ UNCHANGED <<env, providerVars, consumerVars, running>>

\* determine_node_state of a node that was set up.
Determined ==
  IF flags.unlocked THEN [flags EXCEPT !.nodeState = "READY"]
  ELSE IF Sealed THEN [flags EXCEPT !.locked = TRUE, !.nodeState = "LOCKED"]
  ELSE Unlocked

\* provider_reload, which goes on to restart a running provider.
Reload(r) ==
  /\ At(r, {"reload"})
  /\ flags' = Determined
  /\ GoOn(r, IF running.provider THEN Programs.provider_restart ELSE << >>)
  /\ UNCHANGED <<arrived, overlapped, wait, joins, passphrase, env, providerVars, consumerVars, running>>

-----------------------------------------------------------------------------
RequestSteps(r) ==
  \/ \E valid \in BOOLEAN : StartProvider(r, valid) \/ StartConsumer(r, valid)
  \/ SleepEnds(r)
  \/ StopProvider(r)
  \/ ProviderJoined(r)
  \/ StopConsumer(r)
  \/ ConsumerJoined(r)
  \/ Lock(r)
  \/ \E right \in BOOLEAN : Unlock(r, right)
  \/ Reload(r)

TaskSteps(i) == RunStarts(i) \/ RunStops(i) \/ ServerExits(i)

Next ==
  \E r \in Requests :
    \/ \E op \in Operations : Arrive(r, op)
    \/ RequestSteps(r)
    \/ TaskSteps(r)

Spec == Init /\ [][Next]_vars

\* The loop runs what can go on; handler.stop() and the server's exit end.
LifecycleFairness ==
  \A r \in Requests : WF_vars(RequestSteps(r)) /\ WF_vars(TaskSteps(r))

-----------------------------------------------------------------------------
(* Properties.                                                             *)

\* The state has its type.
TypeOK ==
  /\ todo \in [Requests -> Seq(Statements)]
  /\ arrived \in SUBSET Requests
  /\ overlapped \in BOOLEAN
  /\ turn \in Requests \cup {None}
  /\ wait \in [Requests -> {"nothing", "sleep", "provider", "consumer"}]
  /\ joins \in [Requests -> Requests \cup {None}]
  /\ run \in [Requests -> {"none", "created", "serving", "stopping", "done", "aborted"}]
  /\ server \in [Requests -> {"none", "serving", "exiting", "gone"}]
  /\ trust \in [Requests -> Requests \cup {None}]
  /\ {providerTask, handler, channel, trustTask, proxy} \subseteq Requests \cup {None}
  /\ running \in [provider : BOOLEAN, consumer : BOOLEAN]
  /\ flags \in [locked : BOOLEAN, unlocked : BOOLEAN, nodeState : {"LOCKED", "READY"}]
  /\ passphrase \in {"none", "secret"}
  /\ env \in {"absent", "empty", "secret"}

(***************************************************************************)
(* A locked node holds the passphrase neither in the store nor in its      *)
(* environment, whatever starts and unlocks ran into the lock.             *)
(***************************************************************************)
SecretGone == flags.nodeState = "LOCKED" => passphrase = "none" /\ env # "secret"

(***************************************************************************)
(* The three flags that say whether the node is locked never disagree:     *)
(* _check_ready reads one, determine_node_state another, the API a third.  *)
(***************************************************************************)
FlagsAgree == flags \in {Locked, Unlocked}

\* The lock holds: a locked node has forgotten the passphrase, and what the
\* three lock flags say is one of the two states.
LockInv == SecretGone /\ FlagsAgree

(***************************************************************************)
(* Of the servers that were started, only the one the manager knows is     *)
(* alive, and the store says that it runs.                                 *)
(***************************************************************************)
ConsumerKnown ==
  \A i \in Requests : server[i] \in {"serving", "exiting"} =>
    proxy = i /\ running.consumer

\* "Lock stops provider + consumer": a locked node runs neither.
LockedMeansStopped ==
  flags.nodeState = "LOCKED" => ~running.provider /\ ~running.consumer

(***************************************************************************)
(* As long as no requests overlapped, a locked node runs nothing: what     *)
(* lock_node and unlock do to the tasks agrees with what they do to the    *)
(* flags, whatever starts and stops were refused or failed before.         *)
(***************************************************************************)
LockedAlone == ~overlapped => LockedMeansStopped

(***************************************************************************)
(* As long as no requests overlapped, the manager, the store and the tasks *)
(* agree: at most one provider task is alive, one that serves is known to  *)
(* all and serves its own trust channel, no trust channel outlives it, and *)
(* the store says "running" of a task that is alive.                       *)
(***************************************************************************)
ProviderAlone ==
  ~overlapped =>
    /\ \A i, j \in Requests :
         {run[i], run[j]} \subseteq {"created", "serving", "stopping"} => i = j
    /\ \A i \in Requests : run[i] = "serving" =>
         running.provider /\ {providerTask, handler, trustTask, trust[i]} = {i}
    /\ \A i \in Requests : trust[i] # None => run[i] \in {"serving", "stopping"}
    /\ running.provider => \E i \in Requests : run[i] \in {"serving", "stopping"}

\* The manager, the store and the tasks agree: no consumer's server is out of
\* reach, and, where requests did not overlap, no provider's task either, and
\* a locked node runs nothing.
TasksKnown == TypeOK /\ ConsumerKnown /\ LockedAlone /\ ProviderAlone

\* Every request comes to an end.
RequestsEnd == \A r \in Requests : todo[r] # << >> ~> todo[r] = << >>
=============================================================================
