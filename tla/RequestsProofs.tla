--------------------------- MODULE RequestsProofs ---------------------------
(***************************************************************************)
(* Theorems about what the requests of the management API change together: *)
(* NodeLifecycle, for any number of requests that overlap in any way;      *)
(* MarketAccess, for any number of calls to the market; Assistant, for any *)
(* number of chats, approvals and tools.                                   *)
(***************************************************************************)
EXTENDS NodeLifecycle, MarketAccess, Assistant, InductionFacts, SequenceTheorems,
        FiniteSetTheorems, TLAPS

-----------------------------------------------------------------------------
(* NodeLifecycle.                                                          *)

\* Whatever requests overlap, the lock flags agree and a locked node has no secret.
LEMMA LockStep ==
  ASSUME FlagsAgree, SecretGone, [Next]_vars
  PROVE  FlagsAgree' /\ SecretGone'
<1> USE DEF FlagsAgree, SecretGone, Locked, Unlocked
<1>1. ASSUME UNCHANGED storeVars PROVE FlagsAgree' /\ SecretGone'
  BY <1>1 DEF storeVars
<1>2. ASSUME NEW r \in Requests, NEW valid \in BOOLEAN,
             StartProvider(r, valid) \/ StartConsumer(r, valid)
      PROVE  FlagsAgree' /\ SecretGone'
  \* A start writes the environment only when the node is not locked.
  BY <1>2 DEF StartProvider, StartConsumer, MayStart
<1>3. ASSUME NEW r \in Requests, Lock(r) PROVE FlagsAgree' /\ SecretGone'
  BY <1>3 DEF Lock
<1>4. ASSUME NEW r \in Requests, NEW right \in BOOLEAN, Unlock(r, right)
      PROVE  FlagsAgree' /\ SecretGone'
  BY <1>4 DEF Unlock
<1>5. ASSUME NEW r \in Requests, Reload(r) PROVE FlagsAgree' /\ SecretGone'
  \* determine_node_state keeps a sealed node locked.
  <2>1. CASE flags = Unlocked
    <3>1. flags' = [Unlocked EXCEPT !.nodeState = "READY"]
      BY <1>5, <2>1 DEF Reload, Determined
    <3> QED
      BY <3>1
  <2>2. CASE flags = Locked /\ Sealed
    <3>1. flags' = [Locked EXCEPT !.locked = TRUE, !.nodeState = "LOCKED"]
      BY <1>5, <2>2 DEF Reload, Determined
    <3>2. flags' = Locked
      BY <3>1
    <3> QED
      BY <1>5, <2>2, <3>2 DEF Reload
  <2>3. CASE flags = Locked /\ ~Sealed
    BY <1>5, <2>3 DEF Reload, Determined
  <2> QED
    BY <2>1, <2>2, <2>3
<1> QED
  BY <1>1, <1>2, <1>3, <1>4, <1>5
     DEF Next, RequestSteps, TaskSteps, vars, Arrive, SleepEnds, StopProvider, ProviderJoined,
         StopConsumer, ConsumerJoined, RunStarts, RunStops, ServerExits

\* At boot both hold.
LEMMA LockInit == Init => FlagsAgree /\ SecretGone
  BY LifecycleAssumption DEF Init, FlagsAgree, SecretGone, Locked, Unlocked

(***************************************************************************)
(* _locked, _unlocked and _node_state agree at every moment, so            *)
(* _check_ready, determine_node_state and the API say the same.            *)
(***************************************************************************)
THEOREM LockFlagsAgree == Spec => []FlagsAgree
<1>1. (FlagsAgree /\ SecretGone) /\ [Next]_vars => (FlagsAgree /\ SecretGone)'
  BY LockStep
<1> QED
  BY LockInit, <1>1, PTL DEF Spec

(***************************************************************************)
(* However starts, stops, unlocks and reloads overlap with lock_node, once *)
(* the node is LOCKED neither the store nor the environment holds the      *)
(* passphrase.                                                             *)
(***************************************************************************)
THEOREM LockForgetsSecret == Spec => []SecretGone
<1>1. (FlagsAgree /\ SecretGone) /\ [Next]_vars => (FlagsAgree /\ SecretGone)'
  BY LockStep
<1> QED
  BY LockInit, <1>1, PTL DEF Spec

\* The lock holds against any overlap of requests.
THEOREM LockHolds == Spec => []LockInv
  BY LockFlagsAgree, LockForgetsSecret, PTL DEF LockInv

-----------------------------------------------------------------------------
(* What a request has left.                                                *)

\* The suffixes of the programs.
Remainders ==
  {<< >>, <<"start_provider">>, <<"stop_provider">>, <<"stop_provider", "start_provider">>,
   <<"reload">>, <<"start_consumer">>, <<"stop_consumer">>,
   <<"if_stop_provider", "if_stop_consumer", "lock">>, <<"if_stop_consumer", "lock">>, <<"lock">>,
   <<"unlock", "try_start_provider", "try_start_consumer">>,
   <<"try_start_provider", "try_start_consumer">>, <<"try_start_consumer">>,
   <<"try_stop_provider", "try_stop_consumer">>, <<"try_stop_consumer">>}

\* The statements that stop or start a process.
ProviderStops == {"stop_provider", "try_stop_provider", "if_stop_provider"}
ConsumerStops == {"stop_consumer", "try_stop_consumer", "if_stop_consumer"}
ProviderStarts == {"start_provider", "try_start_provider"}

\* A program is what a request has left at first; it begins with no inner statement
\* of lock_node.
LEMMA ProgramFacts ==
  ASSUME NEW op \in Operations
  PROVE  /\ Programs[op] \in Remainders
         /\ Programs[op] # << >>
         /\ Head(Programs[op]) \notin {"lock", "if_stop_consumer"}
<1>1. op \in {"provider_start", "provider_stop", "provider_restart", "provider_reload",
              "consumer_start", "consumer_stop", "lock_node", "unlock", "shutdown"}
  BY OperationsAssumption DEF Programs
<1> QED
  BY <1>1 DEF Programs, Remainders

\* The tails of short lists.
LEMMA ShortTails ==
  /\ \A a : Tail(<<a>>) = << >> /\ Head(<<a>>) = a /\ <<a>> # << >>
  /\ \A a, b : Tail(<<a, b>>) = <<b>> /\ Head(<<a, b>>) = a
  /\ \A a, b, c : Tail(<<a, b, c>>) = <<b, c>> /\ Head(<<a, b, c>>) = a
<1>1. ASSUME NEW a PROVE Tail(<<a>>) = << >> /\ Head(<<a>>) = a /\ <<a>> # << >>
  OBVIOUS
<1>2. ASSUME NEW a, NEW b PROVE Tail(<<a, b>>) = <<b>> /\ Head(<<a, b>>) = a
  OBVIOUS
<1>3. ASSUME NEW a, NEW b, NEW c PROVE Tail(<<a, b, c>>) = <<b, c>> /\ Head(<<a, b, c>>) = a
  OBVIOUS
<1> QED
  BY <1>1, <1>2, <1>3

\* What is left after a statement, and the statements that lock_node's "lock" follows.
LEMMA RemainderFacts ==
  ASSUME NEW s \in Remainders, s # << >>
  PROVE  /\ Head(s) \in Statements
         /\ Tail(s) \in Remainders
         /\ Tail(s) # << >> /\ Head(Tail(s)) = "lock" => Head(s) = "if_stop_consumer"
         /\ Tail(s) # << >> /\ Head(Tail(s)) = "if_stop_consumer" => Head(s) = "if_stop_provider"
         /\ Tail(s) # << >> /\ Head(s) \in ConsumerStops => Head(Tail(s)) = "lock"
         /\ Head(s) = "lock" => Tail(s) = << >>
<1> USE ShortTails DEF Remainders, Statements, ConsumerStops
<1>1. CASE \E a \in Statements : s = <<a>>
  <2>1. PICK a \in Statements : s = <<a>>
    BY <1>1
  <2>2. Head(s) = a /\ Tail(s) = << >>
    BY <2>1
  <2> QED
    BY <2>2
<1>2. CASE s = <<"stop_provider", "start_provider">>
  BY <1>2
<1>3. CASE s = <<"if_stop_provider", "if_stop_consumer", "lock">>
  BY <1>3
<1>4. CASE s = <<"if_stop_consumer", "lock">>
  BY <1>4
<1>5. CASE s = <<"unlock", "try_start_provider", "try_start_consumer">>
  BY <1>5
<1>6. CASE s = <<"try_start_provider", "try_start_consumer">>
  BY <1>6
<1>7. CASE s = <<"try_stop_provider", "try_stop_consumer">>
  BY <1>7
<1> QED
  BY <1>1, <1>2, <1>3, <1>4, <1>5, <1>6, <1>7

\* A list of statements.
LEMMA RemaindersAreLists == Remainders \subseteq Seq(Statements)
  BY DEF Remainders, Statements

-----------------------------------------------------------------------------
(* What the event loop keeps.                                              *)

\* A request that has the loop or awaits something was made and is at a statement
\* that explains it; what it awaits is a task there is.
LoopInv ==
  /\ todo \in [Requests -> Remainders]
  /\ turn # None => todo[turn] # << >> /\ wait[turn] = "nothing"
  /\ \A r \in Requests :
       /\ todo[r] # << >> => r \in arrived
       /\ wait[r] # "nothing" => todo[r] # << >> /\ joins[r] \in Requests
       /\ wait[r] = "sleep" => Head(todo[r]) \in ProviderStarts
       /\ wait[r] = "provider" => Head(todo[r]) \in ProviderStops
       /\ wait[r] = "consumer" => Head(todo[r]) \in ConsumerStops

\* Those who await a server await one that was started; while one of them is about
\* to resume, no server is alive and the loop runs nothing but lock_node's "lock".
ServersInv ==
  /\ ConsumerKnown
  /\ \A r \in Requests : wait[r] = "consumer" => server[joins[r]] \in {"exiting", "gone"}
  /\ (\E r \in Requests : ServerJoined(r)) =>
       /\ \A i \in Requests : server[i] \notin {"serving", "exiting"}
       /\ turn # None => Head(todo[turn]) = "lock"

\* One request at a time.
OneRequest == \A q, r \in Requests : todo[q] # << >> /\ todo[r] # << >> => q = r

\* What the provider's state is, by the state of its task.
ProviderState ==
  \A i \in Requests :
    /\ run[i] = "created" =>
         /\ wait[i] = "sleep"
         /\ flags = Unlocked
         /\ ~running.provider
         /\ providerTask = i /\ handler = i /\ channel = i
    /\ run[i] = "serving" =>
         /\ running.provider
         /\ providerTask = i /\ handler = i /\ trustTask = i /\ trust[i] = i
         /\ \A r \in Requests : wait[r] # "provider"
    /\ run[i] = "stopping" =>
         /\ running.provider
         /\ trustTask = i
         /\ \E r \in Requests : wait[r] = "provider" /\ joins[r] = i
    /\ run[i] \in {"none", "created", "done"} => trust[i] = None
    /\ run[i] # "aborted"
    /\ wait[i] = "provider" => run[joins[i]] \in {"stopping", "done"}

\* The store says "running" of a task that is alive.
RunningTrue == running.provider => \E i \in Requests : run[i] \in {"serving", "stopping"}

\* What lock_node has stopped stays stopped until it locks.
LockSteps ==
  \A r \in Requests : todo[r] # << >> =>
    /\ Head(todo[r]) = "if_stop_consumer" => ~running.provider
    /\ Head(todo[r]) = "lock" => ~running.provider /\ ~running.consumer

\* As long as no requests overlapped.
AloneInv ==
  ~overlapped =>
    /\ OneRequest
    /\ ProviderState
    /\ RunningTrue
    /\ LockSteps
    /\ LockedMeansStopped

\* The requests, the two processes and the lock together.  TasksKnown is not
\* inductive: what runs depends on what the requests under way still have to do.
LifecycleInv == TypeOK /\ LockInv /\ LoopInv /\ ServersInv /\ AloneInv

\* What the runs check of the tasks follows.
LEMMA TasksImplied == LifecycleInv => TasksKnown
<1> SUFFICES ASSUME LifecycleInv PROVE TasksKnown
  OBVIOUS
<1>1. TypeOK /\ ConsumerKnown /\ LockedAlone
  BY DEF LifecycleInv, ServersInv, AloneInv, LockedAlone
<1>2. ASSUME ~overlapped,
             NEW i \in Requests, NEW j \in Requests,
             {run[i], run[j]} \subseteq {"created", "serving", "stopping"}
      PROVE  i = j
  BY <1>2 DEF LifecycleInv, AloneInv, ProviderState, LoopInv, OneRequest
<1>3. ASSUME ~overlapped PROVE ProviderAlone
  <2>1. ProviderState /\ (running.provider => \E i \in Requests : run[i] \in {"serving", "stopping"})
    BY <1>3 DEF LifecycleInv, AloneInv, RunningTrue
  <2>2. \A i \in Requests : run[i] = "serving" =>
          running.provider /\ {providerTask, handler, trustTask, trust[i]} = {i}
    BY <2>1 DEF ProviderState
  <2>3. \A i \in Requests : trust[i] # None => run[i] \in {"serving", "stopping"}
    BY <2>1 DEF ProviderState, LifecycleInv, TypeOK
  <2> QED
    BY <1>2, <1>3, <2>1, <2>2, <2>3 DEF ProviderAlone
<1> QED
  BY <1>1, <1>3 DEF TasksKnown, ProviderAlone

-----------------------------------------------------------------------------
(* Every step keeps it.                                                    *)

\* The requests' lists, turns and awaits: a statement is taken off, an await begins
\* or ends, a request arrives.
LEMMA LoopStep ==
  ASSUME TypeOK, LoopInv, [Next]_vars
  PROVE  LoopInv'
<1> USE DEF TypeOK, LoopInv
<1>1. ASSUME UNCHANGED requestVars PROVE LoopInv'
  BY <1>1 DEF requestVars
\* A request that has the loop goes on with a remainder of its program.
<1>2. ASSUME NEW r \in Requests, NEW s \in Remainders, turn = r, GoOn(r, s),
             UNCHANGED <<arrived, overlapped, wait, joins>>
      PROVE  LoopInv'
  BY <1>2, LifecycleAssumption DEF GoOn
<1>3. ASSUME NEW r \in Requests, turn = r, Continues(r) \/ Raises(r) PROVE LoopInv'
  <2>1. Tail(todo[r]) \in Remainders /\ << >> \in Remainders
    BY <1>3, RemainderFacts, LifecycleAssumption DEF Remainders
  <2> QED
    BY <1>2, <1>3, <2>1 DEF Continues, Raises
<1>4. ASSUME NEW r \in Requests, NEW what, NEW i \in Requests, turn = r, Awaits(r, what, i),
             \/ what = "sleep" /\ Head(todo[r]) \in ProviderStarts
             \/ what = "provider" /\ Head(todo[r]) \in ProviderStops
             \/ what = "consumer" /\ Head(todo[r]) \in ConsumerStops
      PROVE  LoopInv'
  BY <1>4, LifecycleAssumption DEF Awaits
<1>5. ASSUME NEW r \in Requests, NEW s \in Remainders, wait[r] # "nothing", Resumes(r, s)
      PROVE  LoopInv'
  BY <1>5, LifecycleAssumption DEF Resumes, GoOn
<1>6. ASSUME NEW r \in Requests, wait[r] # "nothing",
             Resumes(r, Tail(todo[r])) \/ Resumes(r, << >>)
      PROVE  LoopInv'
  <2>1. todo[r] \in Remainders /\ todo[r] # << >>
    BY <1>6
  <2>2. Tail(todo[r]) \in Remainders /\ << >> \in Remainders
    BY <2>1, RemainderFacts DEF Remainders
  <2> QED
    BY <1>5, <1>6, <2>2
<1>7. ASSUME NEW r \in Requests, NEW op \in Operations, Arrive(r, op) PROVE LoopInv'
  <2>1. Programs[op] \in Remainders /\ Programs[op] # << >>
    BY ProgramFacts
  <2>2. wait[r] = "nothing"
    BY <1>7 DEF Arrive
  <2> HIDE DEF Remainders
  <2> QED
    BY <1>7, <2>1, <2>2, LifecycleAssumption DEF Arrive, GoOn, LoopFree
<1>8. ASSUME NEW r \in Requests, NEW valid \in BOOLEAN, StartProvider(r, valid) PROVE LoopInv'
  BY <1>3, <1>4, <1>8 DEF StartProvider, At, ProviderStarts
<1>9. ASSUME NEW r \in Requests, StopProvider(r) PROVE LoopInv'
  BY <1>3, <1>4, <1>9 DEF StopProvider, At, ProviderStops
<1>10. ASSUME NEW r \in Requests, NEW valid \in BOOLEAN, StartConsumer(r, valid) PROVE LoopInv'
  BY <1>3, <1>10 DEF StartConsumer, At
<1>11. ASSUME NEW r \in Requests, StopConsumer(r) PROVE LoopInv'
  BY <1>3, <1>4, <1>11 DEF StopConsumer, At, ConsumerStops
<1>12. ASSUME NEW r \in Requests, SleepEnds(r) \/ ProviderJoined(r) \/ ConsumerJoined(r)
       PROVE  LoopInv'
  BY <1>6, <1>12 DEF SleepEnds, ProviderJoined, ConsumerJoined, ServerJoined
<1>13. ASSUME NEW r \in Requests, Lock(r) PROVE LoopInv'
  BY <1>3, <1>13 DEF Lock, At
<1>14. ASSUME NEW r \in Requests, NEW right \in BOOLEAN, Unlock(r, right) PROVE LoopInv'
  <2>1. << >> \in Remainders
    BY DEF Remainders
  <2> QED
    BY <1>2, <1>3, <1>14, <2>1 DEF Unlock, At
<1>15. ASSUME NEW r \in Requests, Reload(r) PROVE LoopInv'
  <2>1. << >> \in Remainders /\ Programs.provider_restart \in Remainders
    BY DEF Remainders, Programs
  <2> QED
    BY <1>2, <1>15, <2>1 DEF Reload, At
<1>16. ASSUME NEW i \in Requests, TaskSteps(i) PROVE LoopInv'
  BY <1>1, <1>16 DEF TaskSteps, RunStarts, RunStops, ServerExits
<1> QED
  BY <1>1, <1>7, <1>8, <1>9, <1>10, <1>11, <1>12, <1>13, <1>14, <1>15, <1>16
     DEF Next, RequestSteps, vars

\* The state keeps its type: what the event loop keeps of its requests ...
LEMMA LoopTypes ==
  ASSUME TypeOK, LoopInv, [Next]_vars
  PROVE  /\ arrived' \in SUBSET Requests
         /\ overlapped' \in BOOLEAN
         /\ turn' \in Requests \cup {None}
         /\ wait' \in [Requests -> {"nothing", "sleep", "provider", "consumer"}]
         /\ joins' \in [Requests -> Requests \cup {None}]
<1> DEFINE Types ==
      /\ arrived \in SUBSET Requests
      /\ overlapped \in BOOLEAN
      /\ turn \in Requests \cup {None}
      /\ wait \in [Requests -> {"nothing", "sleep", "provider", "consumer"}]
      /\ joins \in [Requests -> Requests \cup {None}]
<1>0. Types /\ providerTask \in Requests \cup {None} /\ proxy \in Requests \cup {None}
  BY DEF TypeOK
<1>1. ASSUME UNCHANGED requestVars PROVE Types'
  BY <1>0, <1>1 DEF requestVars
<1>2. ASSUME NEW r \in Requests, NEW s, GoOn(r, s), UNCHANGED <<arrived, overlapped, wait, joins>>
      PROVE  Types'
  BY <1>0, <1>2 DEF GoOn
<1>3. ASSUME NEW r \in Requests, NEW what \in {"sleep", "provider", "consumer"},
             NEW i \in Requests, Awaits(r, what, i)
      PROVE  Types'
  BY <1>0, <1>3 DEF Awaits
<1>4. ASSUME NEW r \in Requests, NEW s, Resumes(r, s) PROVE Types'
  BY <1>0, <1>4 DEF Resumes, GoOn
<1>5. ASSUME NEW r \in Requests, NEW op \in Operations, Arrive(r, op) PROVE Types'
  BY <1>0, <1>5 DEF Arrive, GoOn
<1>6. ASSUME NEW r \in Requests, Continues(r) \/ Raises(r) PROVE Types'
  BY <1>2, <1>6 DEF Continues, Raises
<1>7. ASSUME NEW r \in Requests, RequestSteps(r) PROVE Types'
  <2> HIDE DEF Types
  <2>1. ASSUME NEW valid \in BOOLEAN, StartProvider(r, valid) \/ StartConsumer(r, valid)
        PROVE  Types'
    BY <1>3, <1>6, <2>1 DEF StartProvider, StartConsumer
  <2>2. CASE StopProvider(r) \/ StopConsumer(r)
    BY <1>0, <1>3, <1>6, <2>2 DEF StopProvider, StopConsumer
  <2>3. CASE SleepEnds(r) \/ ProviderJoined(r) \/ ConsumerJoined(r)
    BY <1>4, <2>3 DEF SleepEnds, ProviderJoined, ConsumerJoined
  <2>4. ASSUME NEW right \in BOOLEAN, Unlock(r, right) PROVE Types'
    BY <1>2, <1>6, <2>4 DEF Unlock
  <2>5. CASE Lock(r) \/ Reload(r)
    BY <1>2, <1>6, <2>5 DEF Lock, Reload
  <2> QED
    BY <1>7, <2>1, <2>2, <2>3, <2>4, <2>5 DEF RequestSteps
<1> HIDE DEF Types
<1>8. Types'
  BY <1>1, <1>5, <1>7 DEF Next, TaskSteps, RunStarts, RunStops, ServerExits, vars
<1> QED
  BY <1>8 DEF Types

\* ... what the manager knows and what became of its tasks ...
LEMMA TaskTypes ==
  ASSUME TypeOK, [Next]_vars
  PROVE  /\ run' \in [Requests -> {"none", "created", "serving", "stopping", "done", "aborted"}]
         /\ server' \in [Requests -> {"none", "serving", "exiting", "gone"}]
         /\ trust' \in [Requests -> Requests \cup {None}]
         /\ {providerTask, handler, channel, trustTask, proxy}' \subseteq Requests \cup {None}
<1> DEFINE Types ==
      /\ run \in [Requests -> {"none", "created", "serving", "stopping", "done", "aborted"}]
      /\ server \in [Requests -> {"none", "serving", "exiting", "gone"}]
      /\ trust \in [Requests -> Requests \cup {None}]
      /\ {providerTask, handler, channel, trustTask, proxy} \subseteq Requests \cup {None}
<1>0. Types
  BY DEF TypeOK
<1>1. ASSUME UNCHANGED <<providerVars, consumerVars>> PROVE Types'
  BY <1>0, <1>1 DEF providerVars, consumerVars
<1>2. ASSUME NEW r \in Requests, NEW valid \in BOOLEAN, StartProvider(r, valid) PROVE Types'
  BY <1>0, <1>2 DEF StartProvider, providerVars, consumerVars
<1>3. ASSUME NEW r \in Requests, StopProvider(r) PROVE Types'
  BY <1>0, <1>3 DEF StopProvider, Cancelled, consumerVars
<1>4. ASSUME NEW r \in Requests, ProviderJoined(r) PROVE Types'
  BY <1>0, <1>4 DEF ProviderJoined, consumerVars
<1>5. ASSUME NEW r \in Requests, NEW valid \in BOOLEAN, StartConsumer(r, valid) PROVE Types'
  BY <1>0, <1>5 DEF StartConsumer, providerVars, consumerVars
<1>6. ASSUME NEW r \in Requests, StopConsumer(r) PROVE Types'
  BY <1>0, <1>6 DEF StopConsumer, providerVars
<1>7. ASSUME NEW r \in Requests, ConsumerJoined(r) PROVE Types'
  BY <1>0, <1>7 DEF ConsumerJoined, providerVars
<1>8. ASSUME NEW i \in Requests, RunStarts(i) PROVE Types'
  BY <1>0, <1>8 DEF RunStarts, consumerVars
<1>9. ASSUME NEW i \in Requests, RunStops(i) PROVE Types'
  BY <1>0, <1>9 DEF RunStops, consumerVars
<1>10. ASSUME NEW i \in Requests, ServerExits(i) PROVE Types'
  BY <1>0, <1>10 DEF ServerExits, providerVars
<1> HIDE DEF Types
<1>11. ASSUME NEW r \in Requests, NEW right \in BOOLEAN,
              Lock(r) \/ Unlock(r, right) \/ Reload(r) \/ SleepEnds(r)
       PROVE  Types'
  BY <1>1, <1>11 DEF Lock, Unlock, Reload, SleepEnds
<1>12. ASSUME NEW r \in Requests, NEW op \in Operations, Arrive(r, op) PROVE Types'
  BY <1>1, <1>12 DEF Arrive
<1>13. Types'
  BY <1>1, <1>2, <1>3, <1>4, <1>5, <1>6, <1>7, <1>8, <1>9, <1>10, <1>11, <1>12
     DEF Next, RequestSteps, TaskSteps, vars
<1> QED
  BY <1>13 DEF Types

\* ... and the store.
LEMMA StoreTypes ==
  ASSUME TypeOK, [Next]_vars
  PROVE  /\ running' \in [provider : BOOLEAN, consumer : BOOLEAN]
         /\ flags' \in [locked : BOOLEAN, unlocked : BOOLEAN, nodeState : {"LOCKED", "READY"}]
         /\ passphrase' \in {"none", "secret"}
         /\ env' \in {"absent", "empty", "secret"}
<1> DEFINE Types ==
      /\ running \in [provider : BOOLEAN, consumer : BOOLEAN]
      /\ flags \in [locked : BOOLEAN, unlocked : BOOLEAN, nodeState : {"LOCKED", "READY"}]
      /\ passphrase \in {"none", "secret"}
      /\ env \in {"absent", "empty", "secret"}
<1>0. Types
  BY DEF TypeOK
<1>1. ASSUME UNCHANGED storeVars,
             \/ UNCHANGED running
             \/ \E b \in BOOLEAN : running' = [running EXCEPT !.provider = b]
             \/ \E b \in BOOLEAN : running' = [running EXCEPT !.consumer = b]
      PROVE  Types'
  BY <1>0, <1>1 DEF storeVars
<1>2. ASSUME NEW r \in Requests, NEW valid \in BOOLEAN, StartProvider(r, valid) PROVE Types'
  BY <1>0, <1>2 DEF StartProvider, Propagated
<1>3. ASSUME NEW r \in Requests, NEW valid \in BOOLEAN, StartConsumer(r, valid) PROVE Types'
  BY <1>0, <1>3 DEF StartConsumer, Propagated
<1>4. ASSUME NEW r \in Requests, Lock(r) PROVE Types'
  BY <1>0, <1>4 DEF Lock, Locked
<1>5. ASSUME NEW r \in Requests, NEW right \in BOOLEAN, Unlock(r, right) PROVE Types'
  <2>1. CASE flags' = Unlocked /\ passphrase' \in {"secret", "none"}
    BY <1>0, <1>5, <2>1 DEF Unlock, Unlocked
  <2>2. CASE UNCHANGED <<flags, passphrase>>
    BY <1>0, <1>5, <2>2 DEF Unlock
  <2> QED
    BY <1>5, <2>1, <2>2 DEF Unlock
<1>6. ASSUME NEW r \in Requests, Reload(r) PROVE Types'
  BY <1>0, <1>6 DEF Reload, Determined, Unlocked
<1> HIDE DEF Types
<1>7. ASSUME NEW r \in Requests, SleepEnds(r) \/ StopProvider(r) \/ ProviderJoined(r) PROVE Types'
  BY <1>1, <1>7 DEF SleepEnds, StopProvider, ProviderJoined
<1>8. ASSUME NEW r \in Requests, StopConsumer(r) \/ ConsumerJoined(r) PROVE Types'
  BY <1>1, <1>8 DEF StopConsumer, ConsumerJoined
<1>9. ASSUME NEW i \in Requests, TaskSteps(i) PROVE Types'
  BY <1>1, <1>9 DEF TaskSteps, RunStarts, RunStops, ServerExits
<1>10. ASSUME NEW r \in Requests, NEW op \in Operations, Arrive(r, op) PROVE Types'
  BY <1>1, <1>10 DEF Arrive
<1>11. Types'
  BY <1>1, <1>2, <1>3, <1>4, <1>5, <1>6, <1>7, <1>8, <1>9, <1>10 DEF Next, RequestSteps, vars
<1> QED
  BY <1>11 DEF Types

\* All of it.
LEMMA TypeStep ==
  ASSUME TypeOK, LoopInv, [Next]_vars
  PROVE  TypeOK'
<1>1. LoopInv'
  BY LoopStep
<1>2. todo' \in [Requests -> Seq(Statements)]
  BY <1>1, RemaindersAreLists DEF LoopInv
<1> QED
  BY <1>2, LoopTypes, TaskTypes, StoreTypes DEF TypeOK

\* The loop's lists as seen by one request: the statement that a request goes on
\* to, when it goes on at all, is the one after its head.
LEMMA NextStatement ==
  ASSUME TypeOK, LoopInv, NEW r \in Requests, todo[r] # << >>,
         GoOn(r, Tail(todo[r])) \/ GoOn(r, << >>)
  PROVE  /\ turn' # None => turn' = r /\ todo'[r] = Tail(todo[r]) /\ todo'[r] # << >>
         /\ todo'[r] \in {<< >>, Tail(todo[r])}
         /\ \A q \in Requests \ {r} : todo'[q] = todo[q]
  BY DEF GoOn, TypeOK

\* The servers.
LEMMA ServersStep ==
  ASSUME TypeOK, LoopInv, ServersInv, [Next]_vars
  PROVE  ServersInv'
<1> USE LifecycleAssumption
<1> DEFINE Joining == \E r \in Requests : ServerJoined(r)
           Alive(i) == server[i] \in {"serving", "exiting"}
<1>0. /\ \A i \in Requests : Alive(i) => proxy = i /\ running.consumer
      /\ \A r \in Requests : wait[r] = "consumer" => server[joins[r]] \in {"exiting", "gone"}
      /\ Joining => \A i \in Requests : ~Alive(i)
      /\ Joining /\ turn # None => Head(todo[turn]) = "lock"
  BY DEF ServersInv, ConsumerKnown
\* While one is about to resume, only lock_node's "lock" runs.
<1>1. ASSUME Joining, NEW r \in Requests, At(r, Statements \ {"lock"}) PROVE FALSE
  BY <1>0, <1>1 DEF At, TypeOK
<1>2. ASSUME UNCHANGED <<server, proxy>>, running'.consumer = running.consumer,
             \A r \in Requests : wait'[r] = "consumer" => wait[r] = "consumer" /\ joins'[r] = joins[r],
             Joining => \/ UNCHANGED <<turn, todo>>
                        \/ turn' = None
      PROVE  ServersInv'
  BY <1>0, <1>2 DEF ServersInv, ConsumerKnown, ServerJoined
<1>3. ASSUME NEW r \in Requests, At(r, Statements), Continues(r) \/ Raises(r) \/ (GoOn(r, << >>) /\ UNCHANGED <<wait, joins>>), 
             UNCHANGED <<server, proxy>>, running'.consumer = running.consumer
      PROVE  ServersInv'
  <2>1. \A q \in Requests : wait'[q] = "consumer" => wait[q] = "consumer" /\ joins'[q] = joins[q]
    BY <1>3 DEF Continues, Raises
  <2>2. ASSUME Joining PROVE turn' = None
    <3>1. Head(todo[r]) = "lock" /\ todo[r] \in Remainders /\ todo[r] # << >>
      BY <1>0, <1>3, <2>2 DEF At, LoopInv
    <3>2. Tail(todo[r]) = << >>
      BY <3>1, RemainderFacts
    <3> QED
      BY <1>3, <3>2 DEF Continues, Raises, GoOn
  <2> QED
    BY <1>2, <1>3, <2>1, <2>2
<1>4. ASSUME NEW r \in Requests, NEW what \in {"sleep", "provider"}, NEW i, Awaits(r, what, i),
             UNCHANGED <<server, proxy, running>>
      PROVE  ServersInv'
  BY <1>2, <1>4 DEF Awaits, TypeOK
<1>5. ASSUME ~Joining, UNCHANGED <<server, proxy>>, running'.consumer = running.consumer,
             \/ UNCHANGED <<wait, joins>>
             \/ \E r \in Requests, s \in Remainders : Resumes(r, s)
      PROVE  ServersInv'
  <2>1. \A q \in Requests : wait'[q] = "consumer" => wait[q] = "consumer" /\ joins'[q] = joins[q]
    BY <1>5 DEF Resumes, TypeOK
  <2> QED
    BY <1>2, <1>5, <2>1
<1>6. LoopFree => ~Joining
  BY DEF LoopFree
<1>7. ASSUME NEW r \in Requests, NEW valid \in BOOLEAN, StartProvider(r, valid) PROVE ServersInv'
  <2>1. At(r, Statements) /\ UNCHANGED <<server, proxy, running>>
    BY <1>7 DEF StartProvider, At, Statements, consumerVars
  <2> QED
    BY <1>3, <1>4, <1>7, <2>1 DEF StartProvider
<1>8. ASSUME NEW r \in Requests, StopProvider(r) PROVE ServersInv'
  <2>1. At(r, Statements) /\ UNCHANGED <<server, proxy, running>>
    BY <1>8 DEF StopProvider, At, Statements, consumerVars
  <2> QED
    BY <1>3, <1>4, <1>8, <2>1 DEF StopProvider
<1>9. ASSUME NEW r \in Requests, SleepEnds(r) \/ ProviderJoined(r) PROVE ServersInv'
  <2>1. Tail(todo[r]) \in Remainders /\ << >> \in Remainders
    <3>1. todo[r] \in Remainders /\ todo[r] # << >>
      BY <1>9 DEF LoopInv, SleepEnds, ProviderJoined
    <3> QED
      BY <3>1, RemainderFacts DEF Remainders
  <2> QED
    BY <1>5, <1>6, <1>9, <2>1 DEF SleepEnds, ProviderJoined, consumerVars
<1>10. ASSUME NEW r \in Requests, NEW op \in Operations, Arrive(r, op) PROVE ServersInv'
  BY <1>5, <1>6, <1>10 DEF Arrive, consumerVars
<1>11. ASSUME NEW r \in Requests, NEW valid \in BOOLEAN, StartConsumer(r, valid) PROVE ServersInv'
  <2>1. CASE Raises(r) /\ UNCHANGED <<consumerVars, running>>
    BY <1>3, <1>11, <2>1 DEF StartConsumer, At, Statements, consumerVars
  <2>2. CASE /\ ~running.consumer
             /\ proxy' = r
             /\ server' = [server EXCEPT ![r] = "serving"]
             /\ running' = [running EXCEPT !.consumer = TRUE]
             /\ UNCHANGED <<wait, joins>>
    <3>1. ~Joining
      BY <1>1, <1>11 DEF StartConsumer, At, Statements
    <3>2. /\ \A i \in Requests : ~Alive(i)
          /\ \A q \in Requests : wait[q] # "consumer"
      <4>1. \A i \in Requests : ~Alive(i)
        BY <1>0, <2>2
      <4>2. ASSUME NEW q \in Requests, wait[q] = "consumer" PROVE FALSE
        <5>1. joins[q] \in Requests
          BY <4>2 DEF LoopInv
        <5> QED
          BY <1>0, <3>1, <4>1, <4>2, <5>1 DEF ServerJoined
      <4> QED
        BY <4>1, <4>2
    <3>3. running'.consumer
      BY <2>2 DEF TypeOK
    <3>4. \A i \in Requests : server'[i] \in {"serving", "exiting"} => i = r
      BY <2>2, <3>2 DEF TypeOK
    <3>5. \A q \in Requests : wait'[q] # "consumer"
      BY <2>2, <3>2
    <3> HIDE DEF Alive, Joining
    <3> QED
      BY <2>2, <3>3, <3>4, <3>5 DEF ServersInv, ConsumerKnown, ServerJoined
  <2> QED
    BY <1>11, <2>1, <2>2 DEF StartConsumer, MayStart, Continues
<1>12. ASSUME NEW r \in Requests, StopConsumer(r) PROVE ServersInv'
  <2>0. ~Joining
    BY <1>1, <1>12 DEF StopConsumer, At, Statements
  <2>1. CASE Raises(r) /\ UNCHANGED <<server, proxy, running>>
    BY <1>3, <1>12, <2>1 DEF StopConsumer, At, Statements
  <2>2. CASE proxy = None /\ UNCHANGED <<server, proxy, wait, joins>>
    BY <1>0, <2>0, <2>2 DEF ServersInv, ConsumerKnown, ServerJoined
  <2>3. CASE /\ running.consumer
             /\ proxy # None
             /\ server' = [server EXCEPT ![proxy] = "exiting"]
             /\ Awaits(r, "consumer", proxy)
             /\ UNCHANGED <<proxy, running>>
    <3>1. proxy \in Requests
      BY <2>3 DEF TypeOK
    <3>2. \A i \in Requests : server'[i] = IF i = proxy THEN "exiting" ELSE server[i]
      BY <2>3, <3>1 DEF TypeOK
    <3>3. \A q \in Requests : /\ wait'[q] = IF q = r THEN "consumer" ELSE wait[q]
                              /\ joins'[q] = IF q = r THEN proxy ELSE joins[q]
      BY <2>3 DEF Awaits, TypeOK
    <3>4. \A q \in Requests : wait[q] = "consumer" => joins[q] \in Requests
      BY DEF LoopInv
    <3>5. \A i \in Requests : server'[i] \in {"serving", "exiting"} => proxy = i
      BY <1>0, <3>2
    <3>6. \A q \in Requests : wait'[q] = "consumer" => server'[joins'[q]] \in {"exiting", "gone"}
      BY <1>0, <3>1, <3>2, <3>3, <3>4
    <3>7. ASSUME NEW q \in Requests, ServerJoined(q)' PROVE FALSE
      BY <2>0, <3>1, <3>2, <3>3, <3>4, <3>7 DEF ServerJoined
    <3> QED
      BY <2>3, <3>5, <3>6, <3>7 DEF ServersInv, ConsumerKnown
  <2> QED
    BY <1>12, <2>1, <2>2, <2>3 DEF StopConsumer, Continues
<1>13. ASSUME NEW r \in Requests, ConsumerJoined(r) PROVE ServersInv'
  <2>1. Joining /\ UNCHANGED server /\ turn = None
    BY <1>13 DEF ConsumerJoined, Resumes
  <2>2. todo[r] # << >> /\ todo[r] \in Remainders /\ Head(todo[r]) \in ConsumerStops
    BY <1>13 DEF ConsumerJoined, ServerJoined, LoopInv
  <2>3. turn' # None => Head(todo'[turn']) = "lock"
    BY <1>13, <2>2, NextStatement, RemainderFacts DEF ConsumerJoined, Resumes
  <2>4. \A q \in Requests : wait'[q] = "consumer" => wait[q] = "consumer" /\ joins'[q] = joins[q]
    BY <1>13 DEF ConsumerJoined, Resumes, TypeOK
  <2>5. \A i \in Requests : server'[i] \notin {"serving", "exiting"}
    BY <1>0, <2>1
  <2>6. \A q \in Requests : wait'[q] = "consumer" => server'[joins'[q]] \in {"exiting", "gone"}
    BY <1>0, <2>1, <2>4
  <2> QED
    BY <2>3, <2>5, <2>6 DEF ServersInv, ConsumerKnown
<1>14. ASSUME NEW r \in Requests, Lock(r) PROVE ServersInv'
  BY <1>3, <1>14 DEF Lock, At, Statements, consumerVars
<1>15. ASSUME NEW r \in Requests, NEW right \in BOOLEAN, Unlock(r, right) PROVE ServersInv'
  BY <1>3, <1>15 DEF Unlock, At, Statements, consumerVars
<1>16. ASSUME NEW r \in Requests, Reload(r) PROVE ServersInv'
  BY <1>1, <1>5, <1>16 DEF Reload, At, Statements, consumerVars
<1>17. ASSUME NEW i \in Requests, RunStarts(i) \/ RunStops(i) PROVE ServersInv'
  <2>1. running'.consumer = running.consumer
    BY <1>17 DEF RunStarts, RunStops, TypeOK
  <2> QED
    BY <1>5, <1>6, <1>17, <2>1 DEF RunStarts, RunStops, consumerVars, requestVars
<1>18. ASSUME NEW i \in Requests, ServerExits(i) PROVE ServersInv'
  \* The one that exits was the one alive.
  <2>1. \A j \in Requests : server'[j] = IF j = i THEN "gone" ELSE server[j]
    BY <1>18 DEF ServerExits, TypeOK
  <2>2. \A j \in Requests : server'[j] \notin {"serving", "exiting"}
    BY <1>0, <1>18, <2>1 DEF ServerExits
  <2>3. \A q \in Requests : wait[q] = "consumer" => joins[q] \in Requests
    BY DEF LoopInv
  <2>4. \A q \in Requests : wait'[q] = "consumer" => server'[joins'[q]] \in {"exiting", "gone"}
    BY <1>0, <1>18, <2>1, <2>3 DEF ServerExits, requestVars
  <2>5. turn' = None
    BY <1>18 DEF ServerExits, LoopFree, requestVars
  <2> QED
    BY <2>2, <2>4, <2>5 DEF ServersInv, ConsumerKnown
<1>19. ASSUME UNCHANGED vars PROVE ServersInv'
  BY <1>2, <1>19 DEF vars, requestVars, consumerVars
<1> QED
  BY <1>7, <1>8, <1>9, <1>10, <1>11, <1>12, <1>13, <1>14, <1>15, <1>16, <1>17, <1>18, <1>19
     DEF Next, RequestSteps, TaskSteps

\* Where requests do not overlap, the one that has the loop finds nobody waiting,
\* and a provider task, if one is alive, that serves and that all know.
LEMMA AloneAtStatement ==
  ASSUME LoopInv, OneRequest, ProviderState, RunningTrue, NEW r \in Requests,
         turn = r, todo[r] # << >>
  PROVE  /\ \A q \in Requests : wait[q] = "nothing"
         /\ \A i \in Requests : run[i] \notin {"created", "stopping", "aborted"}
         /\ ~running.provider => \A i \in Requests : run[i] # "serving"
         /\ running.provider => \E i \in Requests : run[i] = "serving" /\ providerTask = i
<1>1. \A q \in Requests : wait[q] = "nothing"
  BY LifecycleAssumption DEF LoopInv, OneRequest
<1> QED
  BY <1>1 DEF ProviderState, RunningTrue

\* ... and when one awaits, nobody else does.
LEMMA AloneAwaiting ==
  ASSUME LoopInv, OneRequest, NEW r \in Requests, wait[r] # "nothing"
  PROVE  \A q \in Requests \ {r} : wait[q] = "nothing" /\ todo[q] = << >>
  BY DEF LoopInv, OneRequest

\* The provider's task, where requests do not overlap.
LEMMA ProviderStep ==
  ASSUME TypeOK, LoopInv, LockInv, OneRequest, ProviderState, RunningTrue, [Next]_vars,
         ~overlapped'
  PROVE  ProviderState' /\ RunningTrue'
<1> USE LifecycleAssumption
<1> DEFINE Goal == ProviderState' /\ RunningTrue'
\* A step that changes neither the task nor who awaits it.
<1>1. ASSUME UNCHANGED <<run, trust, providerTask, handler, channel, trustTask>>,
             running'.provider = running.provider,
             \A q \in Requests : /\ wait[q] = "sleep" => wait'[q] = "sleep"
                                 /\ wait[q] = "provider" => wait'[q] = "provider" /\ joins'[q] = joins[q]
                                 /\ wait'[q] = "provider" => wait[q] = "provider",
             UNCHANGED flags \/ \A i \in Requests : run[i] # "created"
      PROVE  Goal
  <2>1. RunningTrue'
    BY <1>1 DEF RunningTrue
  <2>2. SUFFICES ASSUME NEW i \in Requests
                 PROVE  /\ run[i] = "created" =>
                             /\ wait'[i] = "sleep"
                             /\ flags' = Unlocked
                             /\ ~running'.provider
                             /\ providerTask = i /\ handler = i /\ channel = i
                        /\ run[i] = "serving" =>
                             /\ running'.provider
                             /\ providerTask = i /\ handler = i /\ trustTask = i /\ trust[i] = i
                             /\ \A r \in Requests : wait'[r] # "provider"
                        /\ run[i] = "stopping" =>
                             /\ running'.provider
                             /\ trustTask = i
                             /\ \E r \in Requests : wait'[r] = "provider" /\ joins'[r] = i
                        /\ run[i] \in {"none", "created", "done"} => trust[i] = None
                        /\ run[i] # "aborted"
                        /\ wait'[i] = "provider" => run[joins'[i]] \in {"stopping", "done"}
    BY <1>1, <2>1 DEF ProviderState
  <2>3. CASE run[i] = "stopping"
    <3>1. PICK r \in Requests : wait[r] = "provider" /\ joins[r] = i
      BY <2>3 DEF ProviderState
    <3>2. wait'[r] = "provider" /\ joins'[r] = i
      BY <1>1, <3>1
    <3> QED
      BY <1>1, <2>3, <3>2 DEF ProviderState
  <2>4. CASE run[i] # "stopping"
    BY <1>1, <2>4 DEF ProviderState
  <2> QED
    BY <2>3, <2>4
<1>2. ASSUME NEW r \in Requests, NEW S, At(r, S), UNCHANGED <<wait, joins>>,
             UNCHANGED providerVars, running'.provider = running.provider
      PROVE  Goal
  BY <1>1, <1>2, AloneAtStatement DEF At, providerVars
<1>3. ASSUME NEW r \in Requests, NEW valid \in BOOLEAN, StartProvider(r, valid) PROVE Goal
  <2>1. CASE Raises(r) /\ UNCHANGED providerVars
    BY <1>2, <1>3, <2>1 DEF StartProvider, Raises
  <2>2. CASE /\ MayStart("provider")
             /\ run' = [run EXCEPT ![r] = "created"]
             /\ providerTask' = r
             /\ handler' = r
             /\ channel' = r
             /\ Awaits(r, "sleep", r)
             /\ UNCHANGED <<trust, trustTask>>
    <3>1. /\ \A q \in Requests : wait[q] = "nothing"
          /\ \A i \in Requests : run[i] \notin {"created", "serving", "stopping", "aborted"}
      BY <1>3, <2>2, AloneAtStatement DEF StartProvider, At, MayStart
    <3>2. flags = Unlocked /\ ~running.provider
      BY <2>2 DEF MayStart, LockInv, FlagsAgree, Locked
    <3>3. \A i \in Requests : /\ run'[i] = IF i = r THEN "created" ELSE run[i]
                              /\ wait'[i] = IF i = r THEN "sleep" ELSE "nothing"
      BY <2>2, <3>1 DEF Awaits, TypeOK
    <3>4. \A i \in Requests : trust[i] = None
      BY <3>1 DEF ProviderState, TypeOK
    <3> QED
      BY <1>3, <2>2, <3>1, <3>2, <3>3, <3>4 DEF StartProvider, ProviderState, RunningTrue
  <2> QED
    BY <1>3, <2>1, <2>2 DEF StartProvider
<1>4. ASSUME NEW r \in Requests, SleepEnds(r) PROVE Goal
  <2>1. /\ \A q \in Requests : wait'[q] = "nothing"
        /\ \A i \in Requests : run[i] \notin {"created", "stopping"}
    <3>1. wait[r] = "sleep" /\ \A q \in Requests \ {r} : wait[q] = "nothing"
      BY <1>4, AloneAwaiting DEF SleepEnds
    <3>2. \A i \in Requests : run[i] \notin {"created", "stopping"}
      BY <1>4, <3>1 DEF SleepEnds, ProviderState
    <3> QED
      BY <1>4, <3>1, <3>2 DEF SleepEnds, Resumes, TypeOK
  <2> QED
    BY <1>4, <2>1 DEF SleepEnds, ProviderState, RunningTrue, providerVars, storeVars
<1>5. ASSUME NEW i \in Requests, RunStarts(i) PROVE Goal
  <2>1. /\ ~running.provider /\ providerTask = i /\ handler = i /\ channel = i /\ wait[i] = "sleep"
        /\ \A q \in Requests : wait[q] # "provider"
        /\ \A j \in Requests \ {i} : run[j] \notin {"created", "serving", "stopping", "aborted"}
    <3>1. ~running.provider /\ providerTask = i /\ handler = i /\ channel = i /\ wait[i] = "sleep"
      BY <1>5 DEF RunStarts, ProviderState
    <3>2. \A q \in Requests \ {i} : wait[q] = "nothing"
      BY <3>1, AloneAwaiting
    <3> QED
      BY <3>1, <3>2 DEF ProviderState
  <2>2. /\ running'.provider
        /\ \A j \in Requests : /\ run'[j] = IF j = i THEN "serving" ELSE run[j]
                               /\ trust'[j] = IF j = i THEN i ELSE trust[j]
    BY <1>5, <2>1 DEF RunStarts, TypeOK
  <2> QED
    BY <1>5, <2>1, <2>2 DEF RunStarts, ProviderState, RunningTrue, requestVars
<1>6. ASSUME NEW r \in Requests, StopProvider(r) PROVE Goal
  <2>1. CASE UNCHANGED run /\ (Raises(r) \/ Continues(r))
    BY <1>2, <1>6, <2>1 DEF StopProvider, Raises, Continues, providerVars
  <2>2. CASE /\ running.provider
             /\ providerTask # None
             /\ \E s \in Cancelled(run[providerTask]) : run' = [run EXCEPT ![providerTask] = s]
             /\ Awaits(r, "provider", providerTask)
    <3>1. PICK i \in Requests : run[i] = "serving" /\ providerTask = i
      BY <1>6, <2>2, AloneAtStatement DEF StopProvider, At
    <3>2. /\ \A q \in Requests : wait[q] = "nothing"
          /\ \A j \in Requests \ {i} : run[j] \notin {"created", "serving", "stopping", "aborted"}
      BY <1>6, <3>1, AloneAtStatement DEF StopProvider, At, ProviderState
    <3>3. \A j \in Requests : /\ run'[j] = IF j = i THEN "stopping" ELSE run[j]
                              /\ wait'[j] = IF j = r THEN "provider" ELSE "nothing"
                              /\ joins'[j] = IF j = r THEN i ELSE joins[j]
      BY <2>2, <3>1, <3>2 DEF Cancelled, Awaits, TypeOK
    <3>4. trustTask = i /\ running.provider
      BY <2>2, <3>1 DEF ProviderState
    <3> QED
      BY <1>6, <3>1, <3>2, <3>3, <3>4 DEF StopProvider, ProviderState, RunningTrue
  <2> QED
    BY <1>6, <2>1, <2>2 DEF StopProvider
<1>7. ASSUME NEW i \in Requests, RunStops(i) PROVE Goal
  <2>1. PICK r \in Requests : wait[r] = "provider" /\ joins[r] = i
    BY <1>7 DEF RunStops, ProviderState
  <2>2. /\ trustTask = i
        /\ \A q \in Requests : wait[q] = "provider" => q = r
        /\ \A j \in Requests \ {i} : run[j] \notin {"created", "serving", "stopping", "aborted"}
    <3>1. \A q \in Requests \ {r} : wait[q] = "nothing"
      BY <2>1, AloneAwaiting
    <3> QED
      BY <1>7, <2>1, <3>1 DEF RunStops, ProviderState
  <2>3. \A j \in Requests : /\ run'[j] = IF j = i THEN "done" ELSE run[j]
                            /\ trust'[j] = None
    BY <1>7, <2>2 DEF RunStops, ProviderState, TypeOK
  <2>4. ~running'.provider
    BY <1>7 DEF RunStops, TypeOK
  <2> QED
    BY <1>7, <2>1, <2>2, <2>3, <2>4 DEF RunStops, ProviderState, RunningTrue, requestVars
<1>8. ASSUME NEW r \in Requests, ProviderJoined(r) PROVE Goal
  <2>1. \A q \in Requests \ {r} : wait[q] = "nothing"
    BY <1>8, AloneAwaiting DEF ProviderJoined
  <2>2. /\ joins[r] \in Requests /\ run[joins[r]] = "done"
        /\ \A i \in Requests : run[i] \in {"none", "done"}
    <3>1. wait[r] = "provider" /\ run[joins[r]] \in {"done", "aborted"}
      BY <1>8 DEF ProviderJoined
    <3>2. joins[r] \in Requests
      BY <3>1 DEF LoopInv
    <3>3. run[joins[r]] = "done"
      BY <3>1, <3>2 DEF ProviderState
    <3>4. \A i \in Requests : run[i] \notin {"created", "serving", "stopping", "aborted"}
      BY <2>1, <3>1, <3>3 DEF ProviderState
    <3> QED
      BY <3>2, <3>3, <3>4 DEF TypeOK
  <2>3. \A q \in Requests : wait'[q] = "nothing"
    <3>1. wait' = [wait EXCEPT ![r] = "nothing"]
      BY <1>8 DEF ProviderJoined, Resumes
    <3> QED
      BY <2>1, <3>1 DEF TypeOK
  <2> QED
    BY <1>8, <2>2, <2>3 DEF ProviderJoined, ProviderState, RunningTrue
<1>9. ASSUME NEW r \in Requests, NEW valid \in BOOLEAN, StartConsumer(r, valid) PROVE Goal
  <2>1. running'.provider = running.provider
    BY <1>9 DEF StartConsumer, TypeOK
  <2> QED
    BY <1>2, <1>9, <2>1 DEF StartConsumer, Raises, Continues
<1>10. ASSUME NEW r \in Requests, StopConsumer(r) PROVE Goal
  <2>1. running'.provider = running.provider
    BY <1>10 DEF StopConsumer, TypeOK
  <2>2. CASE UNCHANGED <<wait, joins>>
    BY <1>2, <1>10, <2>1, <2>2 DEF StopConsumer
  <2>3. CASE Awaits(r, "consumer", proxy)
    <3>1. \A q \in Requests : wait[q] = "nothing" /\ wait'[q] \in {"nothing", "consumer"}
      BY <1>10, <2>3, AloneAtStatement DEF StopConsumer, At, Awaits, TypeOK
    <3>2. \A q \in Requests : /\ wait[q] = "sleep" => wait'[q] = "sleep"
                              /\ wait[q] = "provider" => wait'[q] = "provider" /\ joins'[q] = joins[q]
                              /\ wait'[q] = "provider" => wait[q] = "provider"
      BY <3>1
    <3> HIDE DEF Goal
    <3> QED
      BY <1>1, <1>10, <2>1, <3>2 DEF StopConsumer, providerVars, storeVars
  <2> QED
    BY <1>10, <2>2, <2>3 DEF StopConsumer, Raises, Continues
<1>11. ASSUME NEW r \in Requests, ConsumerJoined(r) PROVE Goal
  <2>1. running'.provider = running.provider
    BY <1>11 DEF ConsumerJoined, TypeOK
  <2>2. \A q \in Requests : q # r => wait'[q] = wait[q] /\ joins'[q] = joins[q]
    BY <1>11 DEF ConsumerJoined, Resumes, TypeOK
  <2>3. wait[r] = "consumer" /\ wait'[r] = "nothing"
    BY <1>11 DEF ConsumerJoined, Resumes, ServerJoined, TypeOK
  <2> QED
    <3>1. \A q \in Requests : /\ wait[q] = "sleep" => wait'[q] = "sleep"
                              /\ wait[q] = "provider" => wait'[q] = "provider" /\ joins'[q] = joins[q]
                              /\ wait'[q] = "provider" => wait[q] = "provider"
      BY <2>2, <2>3
    <3> HIDE DEF Goal
    <3> QED
      BY <1>1, <1>11, <2>1, <3>1 DEF ConsumerJoined, providerVars, storeVars
<1>12. ASSUME NEW r \in Requests, NEW right \in BOOLEAN, Lock(r) \/ Unlock(r, right) \/ Reload(r)
       PROVE  Goal
  BY <1>2, <1>12 DEF Lock, Unlock, Reload, Continues
<1>13. ASSUME NEW r \in Requests, NEW op \in Operations, Arrive(r, op) PROVE Goal
  BY <1>1, <1>13 DEF Arrive, providerVars, storeVars
<1>14. ASSUME NEW i \in Requests, ServerExits(i) PROVE Goal
  BY <1>1, <1>14 DEF ServerExits, providerVars, storeVars, requestVars
<1>15. ASSUME UNCHANGED vars PROVE Goal
  BY <1>1, <1>15 DEF vars, providerVars, storeVars, requestVars
<1> HIDE DEF Goal
<1>16. Goal
  BY <1>3, <1>4, <1>5, <1>6, <1>7, <1>8, <1>9, <1>10, <1>11, <1>12, <1>13, <1>14, <1>15
     DEF Next, RequestSteps, TaskSteps
<1> QED
  BY <1>16 DEF Goal

\* The rest of what holds where requests do not overlap: nobody else is under way,
\* and lock_node locks what it has stopped.
LEMMA LockStepsStep ==
  ASSUME TypeOK, LoopInv, LockInv, OneRequest, ProviderState, RunningTrue, LockSteps,
         LockedMeansStopped, [Next]_vars, ~overlapped'
  PROVE  OneRequest' /\ LockSteps' /\ LockedMeansStopped'
<1> USE LifecycleAssumption
<1> DEFINE Goal == OneRequest' /\ LockSteps' /\ LockedMeansStopped'
\* A request goes on, or ends: what the next statement finds stopped.
<1>1. ASSUME NEW r \in Requests, todo[r] # << >>,
             GoOn(r, Tail(todo[r])) \/ GoOn(r, << >>),
             Head(todo[r]) = "if_stop_provider" => ~running'.provider,
             Head(todo[r]) = "if_stop_consumer" => ~running'.provider /\ ~running'.consumer,
             LockedMeansStopped'
      PROVE  Goal
  <2>1. /\ todo'[r] \in {<< >>, Tail(todo[r])}
        /\ \A q \in Requests \ {r} : todo'[q] = todo[q] /\ todo[q] = << >>
    BY <1>1, NextStatement DEF OneRequest
  <2>2. todo[r] \in Remainders
    BY DEF LoopInv
  <2>3. LockSteps'
    BY <1>1, <2>1, <2>2, RemainderFacts DEF LockSteps
  <2>4. OneRequest'
    BY <2>1 DEF OneRequest
  <2> QED
    BY <1>1, <2>3, <2>4
\* A step that takes no statement off.
<1>2. ASSUME UNCHANGED todo, flags' = flags,
             UNCHANGED running
      PROVE  Goal
  BY <1>2 DEF OneRequest, LockSteps, LockedMeansStopped
<1>3. \A r : Continues(r) => GoOn(r, Tail(todo[r]))
  BY DEF Continues
<1>4. \A r : Raises(r) => GoOn(r, Tail(todo[r])) \/ GoOn(r, << >>)
  BY DEF Raises
<1>5. ASSUME NEW r \in Requests, NEW valid \in BOOLEAN, StartProvider(r, valid) PROVE Goal
  <2>1. todo[r] # << >> /\ Head(todo[r]) \in ProviderStarts /\ UNCHANGED <<running, flags>>
    BY <1>5 DEF StartProvider, At, ProviderStarts
  <2>2. LockedMeansStopped'
    BY <2>1 DEF LockedMeansStopped
  <2>3. CASE Raises(r)
    BY <1>1, <1>4, <2>1, <2>2, <2>3 DEF ProviderStarts
  <2>4. CASE Awaits(r, "sleep", r)
    BY <1>2, <2>1, <2>4 DEF Awaits
  <2> QED
    BY <1>5, <2>3, <2>4 DEF StartProvider
<1>6. ASSUME NEW r \in Requests, NEW valid \in BOOLEAN, StartConsumer(r, valid) PROVE Goal
  <2>1. todo[r] # << >> /\ Head(todo[r]) \in {"start_consumer", "try_start_consumer"} /\ UNCHANGED flags
    BY <1>6 DEF StartConsumer, At
  <2>2. LockedMeansStopped'
    <3>1. CASE UNCHANGED running
      BY <2>1, <3>1 DEF LockedMeansStopped
    <3>2. CASE ~flags.locked
      BY <2>1, <3>2 DEF LockedMeansStopped, LockInv, FlagsAgree, Locked, Unlocked
    <3> QED
      BY <1>6, <3>1, <3>2 DEF StartConsumer, MayStart
  <2> QED
    BY <1>1, <1>3, <1>4, <1>6, <2>1, <2>2 DEF StartConsumer
<1>7. ASSUME NEW r \in Requests, StopProvider(r) PROVE Goal
  <2>1. turn = r /\ todo[r] # << >> /\ Head(todo[r]) \in ProviderStops /\ UNCHANGED <<running, flags>>
    BY <1>7 DEF StopProvider, At, ProviderStops, storeVars
  <2>2. LockedMeansStopped'
    BY <2>1 DEF LockedMeansStopped
  <2>3. CASE ~running.provider /\ Raises(r)
    BY <1>1, <1>4, <2>1, <2>2, <2>3 DEF ProviderStops
  <2>4. CASE running.provider /\ providerTask = None
    BY <2>1, <2>4, AloneAtStatement
  <2>5. CASE Awaits(r, "provider", providerTask)
    BY <1>2, <2>1, <2>5 DEF Awaits
  <2> QED
    BY <1>7, <2>3, <2>4, <2>5 DEF StopProvider
<1>8. ASSUME NEW r \in Requests, StopConsumer(r) PROVE Goal
  <2>1. /\ todo[r] # << >> /\ Head(todo[r]) \in ConsumerStops /\ UNCHANGED flags
        /\ running'.provider = running.provider
        /\ running'.consumer => running.consumer
        /\ Head(todo[r]) = "if_stop_consumer" => ~running.provider
    BY <1>8 DEF StopConsumer, At, ConsumerStops, storeVars, LockSteps, TypeOK
  <2>2. LockedMeansStopped'
    BY <2>1 DEF LockedMeansStopped
  <2>3. CASE (Raises(r) \/ Continues(r)) /\ ~running'.consumer
    BY <1>1, <1>3, <1>4, <2>1, <2>2, <2>3 DEF ConsumerStops
  <2>4. CASE Awaits(r, "consumer", proxy) /\ UNCHANGED running
    BY <1>2, <2>1, <2>4 DEF Awaits
  <2>5. \/ ~running.consumer /\ Raises(r) /\ UNCHANGED running
        \/ running' = [running EXCEPT !.consumer = FALSE] /\ Continues(r)
        \/ Awaits(r, "consumer", proxy) /\ UNCHANGED running
    BY <1>8 DEF StopConsumer
  <2>6. running' = [running EXCEPT !.consumer = FALSE] => ~running'.consumer
    BY DEF TypeOK
  <2> QED
    BY <2>3, <2>4, <2>5, <2>6
<1>9. ASSUME NEW r \in Requests, SleepEnds(r) PROVE Goal
  <2>1. /\ todo[r] # << >> /\ Head(todo[r]) \in ProviderStarts /\ UNCHANGED <<running, flags>>
        /\ GoOn(r, Tail(todo[r]))
    BY <1>9 DEF SleepEnds, Resumes, LoopInv, storeVars
  <2>2. LockedMeansStopped'
    BY <2>1 DEF LockedMeansStopped
  <2> QED
    BY <1>1, <2>1, <2>2 DEF ProviderStarts
<1>10. ASSUME NEW r \in Requests, ProviderJoined(r) PROVE Goal
  <2>1. /\ todo[r] # << >> /\ Head(todo[r]) \in ProviderStops /\ UNCHANGED <<running, flags>>
        /\ GoOn(r, Tail(todo[r])) \/ GoOn(r, << >>)
    BY <1>10 DEF ProviderJoined, Resumes, LoopInv, storeVars
  <2>2. LockedMeansStopped'
    BY <2>1 DEF LockedMeansStopped
  \* The provider is stopped.
  <2>3. ~running.provider
    <3>1. wait[r] = "provider" /\ run[joins[r]] \in {"done", "aborted"}
      BY <1>10 DEF ProviderJoined
    <3>2. \A q \in Requests \ {r} : wait[q] = "nothing"
      BY <3>1, AloneAwaiting
    <3> QED
      BY <3>1, <3>2 DEF ProviderState, RunningTrue
  <2> QED
    BY <1>1, <2>1, <2>2, <2>3 DEF ProviderStops
<1>11. ASSUME NEW r \in Requests, ConsumerJoined(r) PROVE Goal
  <2>1. /\ todo[r] # << >> /\ Head(todo[r]) \in ConsumerStops /\ UNCHANGED flags
        /\ running'.provider = running.provider
        /\ ~running'.consumer
        /\ GoOn(r, Tail(todo[r]))
        /\ Head(todo[r]) = "if_stop_consumer" => ~running.provider
    BY <1>11 DEF ConsumerJoined, ServerJoined, Resumes, LoopInv, storeVars, LockSteps, TypeOK
  <2>2. LockedMeansStopped'
    BY <2>1 DEF LockedMeansStopped
  <2> QED
    BY <1>1, <2>1, <2>2 DEF ConsumerStops
<1>12. ASSUME NEW r \in Requests, Lock(r) PROVE Goal
  <2>1. /\ todo[r] # << >> /\ Head(todo[r]) = "lock" /\ UNCHANGED running
        /\ GoOn(r, Tail(todo[r]))
    BY <1>12 DEF Lock, At, Continues
  <2>2. LockedMeansStopped'
    BY <2>1 DEF LockedMeansStopped, LockSteps
  <2> QED
    BY <1>1, <2>1, <2>2
<1>13. ASSUME NEW r \in Requests, NEW right \in BOOLEAN, Unlock(r, right) PROVE Goal
  <2>1. /\ todo[r] # << >> /\ Head(todo[r]) = "unlock" /\ UNCHANGED running
        /\ GoOn(r, Tail(todo[r])) \/ GoOn(r, << >>)
        /\ flags' \in {flags, Unlocked}
    BY <1>13 DEF Unlock, At, Continues
  <2>2. LockedMeansStopped'
    BY <2>1 DEF LockedMeansStopped, Unlocked
  <2> QED
    BY <1>1, <2>1, <2>2
<1>14. ASSUME NEW r \in Requests, Reload(r) PROVE Goal
  <2>1. turn = r /\ todo[r] # << >> /\ UNCHANGED running
    BY <1>14 DEF Reload, At
  <2>2. flags'.nodeState = "LOCKED" => flags.nodeState = "LOCKED"
    <3>1. CASE flags = Unlocked
      BY <1>14, <3>1 DEF Reload, Determined, Unlocked
    <3>2. CASE flags = Locked
      BY <3>2 DEF Locked
    <3> QED
      BY <3>1, <3>2 DEF LockInv, FlagsAgree
  <2>3. LockedMeansStopped'
    BY <2>1, <2>2 DEF LockedMeansStopped
  <2>4. CASE GoOn(r, << >>)
    <3>1. Head(todo[r]) = "reload"
      BY <1>14 DEF Reload, At
    <3> QED
      BY <1>1, <2>1, <2>3, <2>4, <3>1
  <2>5. CASE GoOn(r, <<"stop_provider", "start_provider">>)
    <3>1. /\ todo'[r] = <<"stop_provider", "start_provider">>
          /\ \A q \in Requests \ {r} : todo'[q] = todo[q] /\ todo[q] = << >>
      BY <2>1, <2>5 DEF GoOn, TypeOK, OneRequest
    <3>2. Head(todo'[r]) = "stop_provider"
      BY <3>1, ShortTails
    <3> QED
      BY <2>1, <2>3, <3>1, <3>2 DEF OneRequest, LockSteps
  <2> QED
    BY <1>14, <2>4, <2>5 DEF Reload, Programs
<1>15. ASSUME NEW r \in Requests, NEW op \in Operations, Arrive(r, op) PROVE Goal
  <2>1. \A q \in Requests : todo[q] = << >>
    BY <1>15 DEF Arrive
  <2>2. /\ todo'[r] = Programs[op]
        /\ \A q \in Requests \ {r} : todo'[q] = << >>
        /\ UNCHANGED <<running, flags>>
    BY <1>15, <2>1 DEF Arrive, GoOn, storeVars, TypeOK
  <2>3. LockSteps'
    BY <2>2, ProgramFacts DEF LockSteps
  <2> QED
    BY <2>2, <2>3 DEF OneRequest, LockedMeansStopped
<1>16. ASSUME NEW i \in Requests, RunStarts(i) PROVE Goal
  <2>1. /\ wait[i] = "sleep" /\ flags = Unlocked /\ UNCHANGED <<todo, flags>>
        /\ todo[i] # << >> /\ Head(todo[i]) \in ProviderStarts
    BY <1>16 DEF RunStarts, ProviderState, LoopInv, requestVars, storeVars
  <2>2. \A q \in Requests \ {i} : todo[q] = << >>
    BY <2>1, AloneAwaiting
  <2>3. LockSteps'
    BY <2>1, <2>2 DEF LockSteps, ProviderStarts
  <2> QED
    BY <2>1, <2>3 DEF OneRequest, LockedMeansStopped, Unlocked
<1>17. ASSUME NEW i \in Requests, RunStops(i) PROVE Goal
  <2>1. /\ UNCHANGED <<todo, flags>> /\ ~running'.provider
        /\ running'.consumer = running.consumer
    BY <1>17 DEF RunStops, requestVars, storeVars, TypeOK
  <2> QED
    BY <2>1 DEF OneRequest, LockSteps, LockedMeansStopped
<1>18. ASSUME NEW i \in Requests, ServerExits(i) PROVE Goal
  BY <1>2, <1>18 DEF ServerExits, requestVars, storeVars
<1>19. ASSUME UNCHANGED vars PROVE Goal
  BY <1>2, <1>19 DEF vars, requestVars, storeVars
<1> HIDE DEF Goal
<1>20. Goal
  BY <1>5, <1>6, <1>7, <1>8, <1>9, <1>10, <1>11, <1>12, <1>13, <1>14, <1>15, <1>16, <1>17, <1>18, <1>19
     DEF Next, RequestSteps, TaskSteps
<1> QED
  BY <1>20 DEF Goal

\* At boot no request is under way and nothing runs.
LEMMA LifecycleInit == Init => TypeOK /\ LoopInv /\ ServersInv /\ AloneInv
<1> SUFFICES ASSUME Init PROVE TypeOK /\ LoopInv /\ ServersInv /\ AloneInv
  OBVIOUS
<1> USE LifecycleAssumption DEF Init
<1>1. TypeOK
  <2>1. << >> \in Seq(Statements)
    OBVIOUS
  <2>2. flags \in [locked : BOOLEAN, unlocked : BOOLEAN, nodeState : {"LOCKED", "READY"}]
    BY DEF Locked, Unlocked
  <2> QED
    BY <2>1, <2>2 DEF TypeOK
<1>2. LoopInv
  BY DEF LoopInv, Remainders
<1>3. ServersInv
  BY DEF ServersInv, ConsumerKnown, ServerJoined
<1>4. AloneInv
  BY DEF AloneInv, OneRequest, ProviderState, RunningTrue, LockSteps, LockedMeansStopped
<1> QED
  BY <1>1, <1>2, <1>3, <1>4

\* Every step keeps the whole invariant.
LEMMA LifecycleStep == LifecycleInv /\ [Next]_vars => LifecycleInv'
<1> SUFFICES ASSUME LifecycleInv, [Next]_vars PROVE LifecycleInv'
  OBVIOUS
<1>1. TypeOK' /\ LoopInv' /\ ServersInv'
  BY TypeStep, LoopStep, ServersStep DEF LifecycleInv
<1>2. LockInv'
  BY LockStep DEF LifecycleInv, LockInv
<1>3. ASSUME ~overlapped' PROVE AloneInv'
  <2>1. ~overlapped
    BY <1>3 DEF Next, RequestSteps, TaskSteps, vars, requestVars, Arrive, StartProvider, StartConsumer,
         Continues, Raises, Awaits, Resumes, SleepEnds, StopProvider, ProviderJoined, StopConsumer,
         ConsumerJoined, Lock, Unlock, Reload, RunStarts, RunStops, ServerExits
  <2>2. OneRequest /\ ProviderState /\ RunningTrue /\ LockSteps /\ LockedMeansStopped
    BY <2>1 DEF LifecycleInv, AloneInv
  <2> QED
    BY <1>3, <2>2, ProviderStep, LockStepsStep DEF LifecycleInv, AloneInv
<1> QED
  BY <1>1, <1>2, <1>3 DEF LifecycleInv, AloneInv

\* The state after any number of steps.
LEMMA LifecycleHolds == Spec => []LifecycleInv
<1>1. Init => LifecycleInv
  BY LifecycleInit, LockInit DEF LifecycleInv, LockInv
<1> QED
  BY <1>1, LifecycleStep, PTL DEF Spec

(***************************************************************************)
(* Whatever requests overlap, the server of the consumer that is alive is  *)
(* the one the manager knows, and the store says that it runs; and as long *)
(* as none overlapped, the same is true of the provider's task and its     *)
(* trust channel, and a locked node runs neither.                          *)
(***************************************************************************)
THEOREM TasksStayKnown == Spec => []TasksKnown
  BY LifecycleHolds, TasksImplied, PTL

-----------------------------------------------------------------------------
(* MarketAccess.                                                           *)

\* What a call has is what the market gave: no token is one it has not issued yet.
TokensIssued ==
  /\ tokens.access <= issued /\ tokens.refresh <= issued
  /\ \A r \in Calls :
       /\ cred[r] <= issued
       /\ at[r] = "granted" => cred[r] # 0 /\ got[r] <= issued

\* Where a write is tells whether the market did it.
WritesPlaced ==
  \A w \in Writes :
    /\ at[w] \in {"idle", "asking", "rejected", "renewing", "granted", "auth_failed"} => applied[w] = 0
    /\ at[w] \in {"answered", "ok"} => applied[w] = 1
    /\ applied[w] <= 1

\* r brings a new refresh token.
Brings(r) == at[r] = "granted" /\ got[r] # 0

\* A refresh token on its way to the node is one the market takes, and nobody can
\* have used it before it is there; the one in memory is taken too, or its
\* successor is on the way.
RefreshTokens ==
  /\ \A r \in Calls : Brings(r) =>
       /\ got[r] \in honoured.refresh
       /\ got[r] # tokens.refresh
       /\ \A q \in Calls : at[q] = "renewing" => cred[q] # got[r]
       /\ \A q \in Calls \ {r} : Brings(q) => got[q] # got[r]
  /\ tokens.refresh # 0 => tokens.refresh \in honoured.refresh \/ \E r \in Calls : Brings(r)

\* No list on its way to the cache, and none in it, is older than the last change
\* the user was told of.
ListsFresh ==
  /\ acked <= version
  /\ \A r \in Calls : at[r] = "answered" => got[r] <= version
  /\ "raced" \notin faults =>
       /\ \A r \in Reads : at[r] = "answered" => got[r] >= acked
       /\ cache # Empty => cache.version >= acked

\* The inductive invariant behind CacheFresh and MarketSafe: both speak of what a
\* call holds, which is only known with what the market issued and what was placed.
MarketInv ==
  /\ MarketTypeOK
  /\ TokensIssued
  /\ WritesPlaced
  /\ faults \cap {"revoked", "lost"} = {} => RefreshTokens
  /\ ListsFresh

\* No call has been made.
LEMMA MarketInitial == MarketInit => MarketInv
<1> SUFFICES ASSUME MarketInit PROVE MarketInv
  OBVIOUS
<1> USE MarketAssumption DEF MarketInit
<1>1. MarketTypeOK
  <2>1. tokens \in [access : 0..MaxTokens, refresh : 0..MaxTokens, fresh : BOOLEAN]
    <3>1. CASE issued = 0 /\ tokens = [access |-> 0, refresh |-> 0, fresh |-> FALSE]
      BY <3>1
    <3>2. CASE issued = 1 /\ tokens = [access |-> 1, refresh |-> 1, fresh |-> TRUE]
      BY <3>2
    <3> QED
      BY <3>1, <3>2
  <2> QED
    BY <2>1 DEF MarketTypeOK, Empty
<1>2. TokensIssued
  BY DEF TokensIssued
<1>3. WritesPlaced
  BY DEF WritesPlaced, Calls
<1>4. RefreshTokens
  BY DEF RefreshTokens, Brings
<1>5. ListsFresh
  BY DEF ListsFresh, Calls
<1> QED
  BY <1>1, <1>2, <1>3, <1>4, <1>5 DEF MarketInv

\* The node and the market keep their types, and name no token that was not issued.
LEMMA MarketTypeStep ==
  ASSUME MarketTypeOK, TokensIssued, [MarketNext]_marketVars
  PROVE  MarketTypeOK' /\ TokensIssued'
<1> USE MarketAssumption DEF MarketTypeOK, TokensIssued
<1>0. \A w \in Writes : w \in Calls
  BY DEF Calls
<1>1. ASSUME NEW r \in Calls, Call(r) PROVE MarketTypeOK' /\ TokensIssued'
  <2>1. CASE Sends(r) /\ UNCHANGED got
    BY <1>1, <2>1 DEF Call, Sends, Carries, Goes, serverVs
  <2>2. CASE got' = [got EXCEPT ![r] = cache.version] /\ Goes(r, "ok") /\ UNCHANGED cred
    BY <1>1, <2>2 DEF Call, Goes, serverVs
  <2> QED
    BY <1>1, <2>1, <2>2 DEF Call
<1>2. ASSUME NEW r \in Calls, ReadReturns(r) PROVE MarketTypeOK' /\ TokensIssued'
  BY <1>2 DEF ReadReturns, Goes, serverVs
<1>3. ASSUME NEW r \in Calls, WriteReturns(r) PROVE MarketTypeOK' /\ TokensIssued'
  BY <1>3 DEF WriteReturns, Goes, Invalidated, Empty, serverVs
<1>4. ASSUME NEW r \in Calls, Rejected(r) PROVE MarketTypeOK' /\ TokensIssued'
  BY <1>4 DEF Rejected, Carries, Goes, serverVs
<1>5. ASSUME NEW r \in Calls, TokensArrive(r) PROVE MarketTypeOK' /\ TokensIssued'
  BY <1>5 DEF TokensArrive, StoredTokens, Goes, serverVs
<1>6. ASSUME NEW r \in Calls, MarketAnswers(r) PROVE MarketTypeOK' /\ TokensIssued'
  BY <1>0, <1>6 DEF MarketAnswers, Goes
<1>7. ASSUME NEW r \in Calls, MarketRejectsKey(r) \/ MarketRefuses(r) \/ NetworkFails(r)
      PROVE  MarketTypeOK' /\ TokensIssued'
  <2>1. /\ UNCHANGED <<cred, retried, got, tokens, cache, clock, version, applied, honoured, issued, acked>>
        /\ \E place \in {"rejected", "auth_failed", "failed"} : at' = [at EXCEPT ![r] = place]
        /\ faults' \subseteq {"raced", "lost", "revoked"}
    BY <1>7 DEF MarketRejectsKey, MarketRefuses, NetworkFails, Lost, Goes, serverVs
  <2> QED
    BY <2>1
<1>8. ASSUME NEW r \in Calls, MarketGrants(r) PROVE MarketTypeOK' /\ TokensIssued'
  BY <1>8 DEF MarketGrants, Carries, Goes
<1>9. ASSUME TokensExpire \/ MarketRevokes PROVE MarketTypeOK' /\ TokensIssued'
  <2>1. /\ UNCHANGED <<at, cred, retried, got, cache, clock, version, applied, issued, acked>>
        /\ faults' \subseteq {"raced", "lost", "revoked"}
    BY <1>9 DEF TokensExpire, MarketRevokes, requestVs
  <2>2. honoured' \in [access : SUBSET (1..MaxTokens), refresh : SUBSET (1..MaxTokens)]
    BY <1>9 DEF TokensExpire, MarketRevokes
  <2>3. /\ tokens' \in [access : 0..MaxTokens, refresh : 0..MaxTokens, fresh : BOOLEAN]
        /\ tokens'.access = tokens.access /\ tokens'.refresh = tokens.refresh
    BY <1>9 DEF TokensExpire, MarketRevokes
  <2> QED
    BY <2>1, <2>2, <2>3
<1>10. ASSUME MarketTick \/ UNCHANGED marketVars PROVE MarketTypeOK' /\ TokensIssued'
  <2>1. UNCHANGED <<at, cred, retried, got, tokens, cache, version, applied, honoured, issued, acked, faults>>
    BY <1>10 DEF MarketTick, marketVars, requestVs, serverVs
  <2>2. clock' \in Nat
    BY <1>10 DEF MarketTick, marketVars
  <2> QED
    BY <2>1, <2>2
<1> QED
  BY <1>1, <1>2, <1>3, <1>4, <1>5, <1>6, <1>7, <1>8, <1>9, <1>10 DEF MarketNext, CallSteps

\* A write moves on; the market does it once.
LEMMA WritesStep ==
  ASSUME MarketTypeOK, WritesPlaced, [MarketNext]_marketVars
  PROVE  WritesPlaced'
<1> USE MarketAssumption DEF MarketTypeOK, WritesPlaced, Calls
<1>1. ASSUME NEW r \in Calls, UNCHANGED applied,
             \E place \in {"idle", "asking", "rejected", "renewing", "granted", "auth_failed"} :
               Goes(r, place),
             at[r] \in {"idle", "asking", "rejected", "renewing", "granted"} \/ r \notin Writes
      PROVE  WritesPlaced'
  BY <1>1 DEF Goes
<1>2. ASSUME NEW r \in Calls, UNCHANGED applied, Goes(r, "failed") PROVE WritesPlaced'
  BY <1>2 DEF Goes
<1>3. ASSUME NEW r \in Calls, UNCHANGED applied, Goes(r, "ok"), at[r] = "answered" \/ r \notin Writes
      PROVE  WritesPlaced'
  BY <1>3 DEF Goes
<1>4. ASSUME NEW r \in Calls, Call(r) PROVE WritesPlaced'
  BY <1>1, <1>3, <1>4 DEF Call, Sends, Carries, serverVs
<1>5. ASSUME NEW r \in Calls, ReadReturns(r) \/ WriteReturns(r) PROVE WritesPlaced'
  BY <1>3, <1>5 DEF ReadReturns, WriteReturns, serverVs
<1>6. ASSUME NEW r \in Calls, Rejected(r) PROVE WritesPlaced'
  BY <1>1, <1>2, <1>6 DEF Rejected, Carries, serverVs
<1>7. ASSUME NEW r \in Calls,
             TokensArrive(r) \/ MarketRejectsKey(r) \/ MarketRefuses(r) \/ MarketGrants(r)
      PROVE  WritesPlaced'
  BY <1>1, <1>7 DEF TokensArrive, MarketRejectsKey, MarketRefuses, MarketGrants, Carries, serverVs
<1>8. ASSUME NEW r \in Calls, MarketAnswers(r) PROVE WritesPlaced'
  <2>1. CASE ~Honours(r)
    BY <1>1, <1>8, <2>1 DEF MarketAnswers
  <2>2. CASE Honours(r) /\ r \in Writes
    <3>1. /\ \A w \in Writes : applied'[w] = IF w = r THEN applied[w] + 1 ELSE applied[w]
          /\ \A w \in Writes : at'[w] = IF w = r THEN "answered" ELSE at[w]
          /\ at[r] = "asking"
      BY <1>8, <2>2 DEF MarketAnswers, Goes
    <3> QED
      BY <2>2, <3>1
  <2>3. CASE Honours(r) /\ r \notin Writes
    BY <1>8, <2>3 DEF MarketAnswers, Goes
  <2> QED
    BY <2>1, <2>2, <2>3
<1>9. ASSUME NEW r \in Calls, NetworkFails(r) PROVE WritesPlaced'
  BY <1>1, <1>2, <1>9 DEF NetworkFails, Lost, serverVs
<1>10. ASSUME TokensExpire \/ MarketRevokes \/ MarketTick \/ UNCHANGED marketVars
       PROVE  WritesPlaced'
  BY <1>10 DEF TokensExpire, MarketRevokes, MarketTick, marketVars, requestVs, serverVs
<1> QED
  BY <1>4, <1>5, <1>6, <1>7, <1>8, <1>9, <1>10 DEF MarketNext, CallSteps

\* Refreshes that overlap hand out tokens that differ, and use up none that is in
\* memory but one whose successor is on its way.
LEMMA RefreshStep ==
  ASSUME MarketTypeOK, TokensIssued, [MarketNext]_marketVars,
         faults' \cap {"revoked", "lost"} = {},
         RefreshTokens
  PROVE  RefreshTokens'
<1> USE MarketAssumption
\* A step of a call that neither gets nor brings tokens.
<1>1. ASSUME NEW r \in Calls, UNCHANGED tokens, honoured'.refresh = honoured.refresh,
             at[r] # "granted",
             \E place \in {"asking", "rejected", "renewing", "answered", "ok", "failed", "auth_failed"} :
               Goes(r, place) /\ (place = "renewing" => cred'[r] = tokens.refresh),
             \A q \in Calls \ {r} : cred'[q] = cred[q] /\ got'[q] = got[q]
      PROVE  RefreshTokens'
  <2>1. /\ at'[r] # "granted"
        /\ at'[r] = "renewing" => cred'[r] = tokens.refresh
        /\ \A q \in Calls \ {r} : at'[q] = at[q]
    BY <1>1 DEF Goes, MarketTypeOK
  <2>2. \A q \in Calls : (Brings(q)' => q # r /\ Brings(q)) /\ (Brings(q) => Brings(q)')
    BY <1>1, <2>1 DEF Brings
  <2> QED
    BY <1>1, <2>1, <2>2 DEF RefreshTokens
<1>2. ASSUME NEW r \in Calls, Call(r) \/ ReadReturns(r) \/ WriteReturns(r) \/ Rejected(r)
      PROVE  RefreshTokens'
  <2>1. UNCHANGED <<tokens, honoured>>
    BY <1>2 DEF Call, ReadReturns, WriteReturns, Rejected, serverVs
  <2>2. /\ at[r] # "granted"
        /\ \A q \in Calls \ {r} : cred'[q] = cred[q] /\ got'[q] = got[q]
        /\ \E place \in {"asking", "renewing", "ok", "failed"} :
             Goes(r, place) /\ (place = "renewing" => cred'[r] = tokens.refresh)
    BY <1>2 DEF Call, Sends, ReadReturns, WriteReturns, Rejected, Carries, MarketTypeOK
  <2> QED
    BY <1>1, <2>1, <2>2
<1>3. ASSUME NEW r \in Calls, MarketAnswers(r) \/ MarketRejectsKey(r) \/ MarketRefuses(r)
      PROVE  RefreshTokens'
  <2>1. UNCHANGED <<tokens, honoured>>
    BY <1>3 DEF MarketAnswers, MarketRejectsKey, MarketRefuses, serverVs
  <2>2. /\ at[r] # "granted"
        /\ \A q \in Calls \ {r} : cred'[q] = cred[q] /\ got'[q] = got[q]
        /\ \E place \in {"rejected", "answered", "auth_failed"} : Goes(r, place)
    BY <1>3 DEF MarketAnswers, MarketRejectsKey, MarketRefuses, MarketTypeOK
  <2> QED
    BY <1>1, <2>1, <2>2
\* What would have lost an answer is counted.
<1>4. ASSUME NEW r \in Calls, NetworkFails(r) PROVE RefreshTokens'
  <2>1. at[r] # "granted" /\ UNCHANGED <<tokens, honoured, cred, got>>
    BY <1>4 DEF NetworkFails, serverVs
  <2>2. \E place \in {"failed", "auth_failed"} : Goes(r, place)
    BY <1>4 DEF NetworkFails, Lost
  <2> QED
    BY <1>1, <2>1, <2>2
<1>5. ASSUME NEW r \in Calls, TokensArrive(r) PROVE RefreshTokens'
  <2>1. /\ at[r] = "granted" /\ UNCHANGED <<honoured, cred, got>>
        /\ \A q \in Calls : at'[q] = IF q = r THEN "asking" ELSE at[q]
        /\ tokens'.refresh = IF got[r] # 0 THEN got[r] ELSE tokens.refresh
    BY <1>5 DEF TokensArrive, Goes, StoredTokens, serverVs, MarketTypeOK
  <2>2. \A q \in Calls : Brings(q)' <=> q # r /\ Brings(q)
    BY <2>1 DEF Brings
  <2>3. CASE got[r] # 0
    BY <2>1, <2>2, <2>3 DEF RefreshTokens, Brings
  <2>4. CASE got[r] = 0
    <3>1. \A q \in Calls : Brings(q)' <=> Brings(q)
      BY <2>2, <2>4 DEF Brings
    <3> QED
      BY <2>1, <2>4, <3>1 DEF RefreshTokens
  <2> QED
    BY <2>3, <2>4
<1>6. ASSUME NEW r \in Calls, MarketGrants(r) PROVE RefreshTokens'
  <2>0. PICK new \in BOOLEAN :
          /\ cred[r] = 0 => new
          /\ got' = [got EXCEPT ![r] = IF new THEN issued' ELSE 0]
          /\ honoured' = [access |-> honoured.access \cup {issued'},
                          refresh |-> IF new THEN (honoured.refresh \ {cred[r]}) \cup {issued'}
                                      ELSE honoured.refresh]
    BY <1>6 DEF MarketGrants
  <2>1. /\ at[r] = "renewing" /\ UNCHANGED tokens
          /\ \A q \in Calls : /\ at'[q] = IF q = r THEN "granted" ELSE at[q]
                              /\ cred'[q] = IF q = r THEN issued + 1 ELSE cred[q]
                              /\ got'[q] = IF q = r THEN IF new THEN issued + 1 ELSE 0 ELSE got[q]
          /\ honoured'.refresh = IF new THEN (honoured.refresh \ {cred[r]}) \cup {issued + 1}
                                 ELSE honoured.refresh
    <3>1. /\ issued' = issued + 1
          /\ at' = [at EXCEPT ![r] = "granted"]
          /\ cred' = [cred EXCEPT ![r] = issued']
          /\ at[r] = "renewing" /\ UNCHANGED tokens
      BY <1>6 DEF MarketGrants, Carries, Goes
    <3> QED
      BY <2>0, <3>1 DEF MarketTypeOK
  <2>2. /\ issued + 1 # 0
        /\ issued + 1 # tokens.refresh
        /\ \A q \in Calls : cred[q] # issued + 1 /\ (Brings(q) => got[q] # issued + 1)
    BY DEF TokensIssued, MarketTypeOK, Brings
  <2>3. \A q \in Calls \ {r} : (Brings(q)' <=> Brings(q)) /\ at'[q] = at[q]
    BY <2>1 DEF Brings
  <2>4. ~Brings(r) /\ (new => Brings(r)')
    BY <2>1, <2>2 DEF Brings
  <2>5. CASE new
    <3>1. \A q \in Calls : Brings(q)' =>
            got'[q] \in honoured'.refresh /\ got'[q] # tokens'.refresh
      BY <2>1, <2>2, <2>3, <2>5 DEF RefreshTokens
    <3>2. \A q, p \in Calls : Brings(q)' /\ at'[p] = "renewing" => cred'[p] # got'[q]
      BY <2>1, <2>2, <2>3, <2>5 DEF RefreshTokens
    <3>3. \A q, p \in Calls : Brings(q)' /\ p # q /\ Brings(p)' => got'[p] # got'[q]
      BY <2>1, <2>2, <2>3, <2>5 DEF RefreshTokens
    <3> QED
      BY <2>4, <2>5, <3>1, <3>2, <3>3 DEF RefreshTokens
  <2>6. CASE ~new
    <3>1. \A q \in Calls : Brings(q)' <=> Brings(q) /\ q # r
      BY <2>1, <2>3, <2>6 DEF Brings
    <3>2. \A q \in Calls : Brings(q)' => Brings(q) /\ got'[q] = got[q]
      BY <2>1, <3>1
    <3>3. \A p \in Calls : at'[p] = "renewing" => at[p] = "renewing" /\ cred'[p] = cred[p]
      BY <2>1
    <3>4. \A q \in Calls : Brings(q) => Brings(q)'
      BY <2>3, <2>4
    <3> QED
      BY <2>1, <2>6, <3>2, <3>3, <3>4 DEF RefreshTokens
  <2> QED
    BY <2>5, <2>6
<1>7. ASSUME TokensExpire PROVE RefreshTokens'
  <2>1. honoured'.refresh = honoured.refresh /\ tokens'.refresh = tokens.refresh /\ UNCHANGED <<at, cred, got>>
    BY <1>7 DEF TokensExpire, requestVs, MarketTypeOK
  <2> QED
    BY <2>1 DEF RefreshTokens, Brings
<1>8. ASSUME MarketTick \/ UNCHANGED marketVars PROVE RefreshTokens'
  BY <1>8 DEF MarketTick, marketVars, requestVs, serverVs, RefreshTokens, Brings
<1>9. ~MarketRevokes
  BY DEF MarketRevokes
<1> QED
  BY <1>2, <1>3, <1>4, <1>5, <1>6, <1>7, <1>8, <1>9 DEF MarketNext, CallSteps

\* Lists are as old as the version they carry; a change that its caller is told of
\* while one is on its way is counted.
LEMMA ListsStep ==
  ASSUME MarketTypeOK, ListsFresh, [MarketNext]_marketVars
  PROVE  ListsFresh'
<1> USE MarketAssumption DEF MarketTypeOK, ListsFresh
<1>0. Reads \subseteq Calls
  BY DEF Calls
\* A step that puts nothing on its way to the cache or into it.
<1>1. ASSUME UNCHANGED <<version, acked, cache>>,
             \A r \in Calls : at'[r] = "answered" => at[r] = "answered" /\ got'[r] = got[r],
             "raced" \notin faults' => "raced" \notin faults
      PROVE  ListsFresh'
  BY <1>0, <1>1
<1>2. ASSUME NEW r \in Calls, Call(r) \/ Rejected(r) \/ TokensArrive(r) \/ MarketRejectsKey(r)
                              \/ MarketRefuses(r) \/ NetworkFails(r) \/ MarketGrants(r)
      PROVE  ListsFresh'
  <2> DEFINE Quiet ==
        /\ UNCHANGED <<version, acked, cache>> /\ faults \subseteq faults'
        /\ \A q \in Calls : at'[q] = "answered" => at[q] = "answered" /\ got'[q] = got[q]
  <2>1. Quiet
    <3>1. ASSUME Call(r) PROVE Quiet
      BY <3>1 DEF Call, Sends, Carries, Goes, serverVs
    <3>2. ASSUME Rejected(r) \/ TokensArrive(r) PROVE Quiet
      BY <3>2 DEF Rejected, TokensArrive, Carries, Goes, serverVs
    <3>3. ASSUME MarketRejectsKey(r) \/ MarketRefuses(r) PROVE Quiet
      BY <3>3 DEF MarketRejectsKey, MarketRefuses, Goes, serverVs
    <3>4. ASSUME NetworkFails(r) PROVE Quiet
      BY <3>4 DEF NetworkFails, Lost, Goes, serverVs
    <3>5. ASSUME MarketGrants(r) PROVE Quiet
      BY <3>5 DEF MarketGrants, Carries, Goes
    <3> QED
      BY <1>2, <3>1, <3>2, <3>3, <3>4, <3>5
  <2> QED
    BY <1>1, <2>1
<1>3. ASSUME NEW r \in Calls, ReadReturns(r) PROVE ListsFresh'
  BY <1>0, <1>3 DEF ReadReturns, Goes, serverVs
<1>4. ASSUME NEW r \in Calls, WriteReturns(r) PROVE ListsFresh'
  <2>1. /\ cache' = Empty /\ UNCHANGED <<version, got>>
        /\ acked' \in {acked, got[r]} /\ got[r] <= version
        /\ \A q \in Calls : at'[q] = "answered" => at[q] = "answered"
        /\ "raced" \notin faults' =>
             "raced" \notin faults /\ \A g \in Reads : at[g] # "answered"
    BY <1>4 DEF WriteReturns, Goes, Invalidated, serverVs
  <2> QED
    BY <1>0, <2>1
<1>5. ASSUME NEW r \in Calls, MarketAnswers(r) PROVE ListsFresh'
  <2>1. CASE ~Honours(r)
    BY <1>1, <1>5, <2>1 DEF MarketAnswers, Goes
  <2>2. CASE Honours(r)
    <3>1. /\ version' \in {version, version + 1} /\ UNCHANGED <<acked, cache, faults>>
          /\ \A q \in Calls : /\ at'[q] = IF q = r THEN "answered" ELSE at[q]
                              /\ got'[q] = IF q = r THEN version' ELSE got[q]
      BY <1>5, <2>2 DEF MarketAnswers, Goes
    <3> QED
      BY <1>0, <3>1
  <2> QED
    BY <2>1, <2>2
<1>6. ASSUME TokensExpire \/ MarketRevokes \/ MarketTick \/ UNCHANGED marketVars PROVE ListsFresh'
  <2>1. UNCHANGED <<version, acked, cache, at, got>> /\ faults \subseteq faults'
    BY <1>6 DEF TokensExpire, MarketRevokes, MarketTick, marketVars, requestVs, serverVs
  <2> QED
    BY <1>1, <2>1
<1> QED
  BY <1>2, <1>3, <1>4, <1>5, <1>6 DEF MarketNext, CallSteps

\* Faults are never forgotten.
LEMMA FaultsStay == [MarketNext]_marketVars => faults \subseteq faults'
  BY DEF MarketNext, CallSteps, marketVars, Call, ReadReturns, WriteReturns, Rejected, TokensArrive,
         MarketAnswers, MarketRejectsKey, MarketGrants, MarketRefuses, NetworkFails, TokensExpire,
         MarketRevokes, MarketTick

\* Every step keeps the invariant.
LEMMA MarketStep == MarketInv /\ [MarketNext]_marketVars => MarketInv'
<1> SUFFICES ASSUME MarketInv, [MarketNext]_marketVars PROVE MarketInv'
  OBVIOUS
<1>1. MarketTypeOK' /\ TokensIssued' /\ WritesPlaced' /\ ListsFresh'
  BY MarketTypeStep, WritesStep, ListsStep DEF MarketInv
<1>2. ASSUME faults' \cap {"revoked", "lost"} = {} PROVE RefreshTokens'
  <2>1. faults \cap {"revoked", "lost"} = {}
    BY <1>2, FaultsStay
  <2> QED
    BY <1>2, <2>1, RefreshStep DEF MarketInv
<1> QED
  BY <1>1, <1>2 DEF MarketInv

\* After any number of steps.
LEMMA MarketHolds == MarketSpec => []MarketInv
  BY MarketInitial, MarketStep, PTL DEF MarketSpec

(***************************************************************************)
(* The cache holds no list older than a change the user was told of,       *)
(* unless a read was on its way back at that moment.                       *)
(***************************************************************************)
THEOREM CacheStaysFresh == MarketSpec => []CacheFresh
<1>1. MarketInv => CacheFresh
  BY DEF MarketInv, ListsFresh, CacheFresh
<1> QED
  BY <1>1, MarketHolds, PTL

(***************************************************************************)
(* However many calls, retries after a 401 and refreshes overlap, the      *)
(* market does each change at most once, and once if the user was told so, *)
(* and the refresh token in memory is one the market still takes.          *)
(***************************************************************************)
THEOREM MarketStaysSafe == MarketSpec => []MarketSafe
<1>1. MarketInv => MarketTypeOK
  BY DEF MarketInv
<1>2. MarketInv => WritesOnce
  BY DEF MarketInv, WritesPlaced, WritesOnce
<1>3. MarketInv => RefreshTokenHonoured
  BY DEF MarketInv, RefreshTokens, RefreshTokenHonoured, Brings
<1> QED
  BY <1>1, <1>2, <1>3, MarketHolds, PTL DEF MarketSafe

-----------------------------------------------------------------------------
(* Assistant.                                                              *)

\* What a chat runs by itself needs no confirmation, and what waits for the user,
\* in a chat or in the cache, does; and of what was shown only what is not held
\* has been approved.
AssistantInv ==
  /\ AssistantTypeOK
  /\ held \in [ActionIds -> Actions \cup {Nothing}]
  /\ \A c \in Chats :
       /\ chat[c].pc \in {"next", "running"} =>
            chat[c].auto # << >> /\ chat[c].depth < MaxRounds - 1
       /\ \A k \in DOMAIN chat[c].auto : ~chat[c].auto[k].confirm
       /\ \A k \in DOMAIN chat[c].pending : chat[c].pending[k].confirm
  /\ \A i \in ActionIds : held[i] # Nothing => held[i].confirm
  /\ RunsAreAllowed
  /\ \A i \in ActionIds : confirms[i] + (IF held[i] = Nothing THEN 0 ELSE 1) <= shows[i]

\* The locals of a chat.
ChatType == [pc : {"idle", "context", "asked", "next", "running", "answered", "failed"},
             depth : 0..(MaxRounds - 1), allowed : SUBSET ToolNames,
             auto : Seq(Actions), pending : Seq(Actions)]

\* A chat that is over has nothing left.
LEMMA OverFacts ==
  ASSUME NEW pc \in {"answered", "failed"}
  PROVE  /\ [NewChat EXCEPT !.pc = pc] \in ChatType
         /\ [NewChat EXCEPT !.pc = pc].pc = pc
         /\ [NewChat EXCEPT !.pc = pc].auto = << >>
         /\ [NewChat EXCEPT !.pc = pc].pending = << >>
<1>1. [NewChat EXCEPT !.pc = pc] =
        [pc |-> pc, depth |-> 0, allowed |-> {}, auto |-> << >>, pending |-> << >>]
  BY DEF NewChat
<1>2. 0 \in 0..(MaxRounds - 1) /\ << >> \in Seq(Actions)
  BY AssistantAssumption
<1> QED
  BY <1>1, <1>2 DEF ChatType

\* At first no chat has begun.
LEMMA AssistantInitial == AssistantInit => AssistantInv
<1> SUFFICES ASSUME AssistantInit PROVE AssistantInv
  OBVIOUS
<1> USE AssistantAssumption DEF AssistantInit
<1>1. /\ NewChat \in ChatType
      /\ NewChat.auto = << >> /\ NewChat.pending = << >> /\ NewChat.pc = "idle"
  BY DEF NewChat, ChatType
<1>2. /\ chat \in [Chats -> ChatType]
      /\ \A c \in Chats : Len(chat[c].auto) + Len(chat[c].pending) <= MaxProposed
  <2>1. \A c \in Chats : chat[c] = NewChat
    BY DEF AssistantInit
  <2>2. Len(NewChat.auto) + Len(NewChat.pending) <= MaxProposed
    <3>1. Len(NewChat.auto) = 0 /\ Len(NewChat.pending) = 0 /\ MaxProposed \in Nat
      BY <1>1
    <3> QED
      BY <3>1
  <2>3. chat \in [Chats -> ChatType]
    BY <1>1
  <2>4. \A c \in Chats : Len(chat[c].auto) + Len(chat[c].pending) <= MaxProposed
    BY <2>1, <2>2, Zenon
  <2> QED
    BY <2>3, <2>4
<1>3. allowed \in AllowedSets
  <2>1. allowed \in SUBSET ToolNames /\ allowed # {}
    BY AssistantAssumption DEF AssistantInit
  <2> QED
    BY <2>1 DEF AllowedSets
<1>4. AssistantTypeOK
  BY <1>2, <1>3 DEF AssistantTypeOK, ChatType
<1> QED
  BY <1>1, <1>4 DEF AssistantInv, RunsAreAllowed

\* What the cache holds after an answer: of each id the last action that waits for
\* the user, and each such action has been shown.
LEMMA HoldsFacts ==
  ASSUME NEW pending \in Seq(Actions), NEW i \in ActionIds
  PROVE  /\ Cardinality(Under(pending, i)) \in Nat
         /\ Under(pending, i) = {} => Holds(pending)[i] = held[i]
         /\ Under(pending, i) # {} =>
              /\ \E k \in DOMAIN pending : Holds(pending)[i] = pending[k]
              /\ Cardinality(Under(pending, i)) >= 1
<1> USE DEF Under
<1> DEFINE of == Under(pending, i)
           last == CHOOSE k \in of : \A j \in of : j <= k
<1>1. DOMAIN pending = 1..Len(pending) /\ Len(pending) \in Nat
  BY LenProperties
<1>2. IsFiniteSet(of) /\ Cardinality(of) \in Nat
  <2>1. IsFiniteSet(1..Len(pending))
    BY <1>1, FS_Interval
  <2> QED
    BY <1>1, <2>1, FS_Subset, FS_CardinalityType
<1>3. Holds(pending)[i] = IF of = {} THEN held[i] ELSE pending[last]
  BY DEF Holds
<1>4. ASSUME of # {} PROVE last \in DOMAIN pending /\ Cardinality(of) >= 1
  <2>1. of \in SUBSET (0..Len(pending))
    BY <1>1
  <2>2. \E k \in of : \A j \in of : j <= k
    BY <1>1, <1>4, <2>1, GreatestElement
  <2>3. last \in of
    BY <2>2
  <2>4. Cardinality(of) # 0
    BY <1>2, <1>4, FS_EmptySet
  <2> QED
    BY <1>2, <2>3, <2>4
<1> QED
  BY <1>2, <1>3, <1>4

\* The end of a chat keeps the invariant.
LEMMA AnswersKeep ==
  ASSUME AssistantInv, NEW c \in Chats, NEW pending \in Seq(Actions),
         \A k \in DOMAIN pending : pending[k].confirm,
         Answers(c, pending), UNCHANGED <<allowed, ran, confirms>>
  PROVE  AssistantInv'
<1> USE AssistantAssumption DEF AssistantInv, AssistantTypeOK
<1>1. \A d \in Chats : chat'[d] = IF d = c THEN [NewChat EXCEPT !.pc = "answered"] ELSE chat[d]
  BY DEF Answers
<1>2. chat' \in [Chats -> ChatType]
  BY OverFacts DEF Answers, ChatType
<1>3. \A d \in Chats : /\ Len(chat'[d].auto) + Len(chat'[d].pending) <= MaxProposed
                       /\ chat'[d].pc \in {"next", "running"} =>
                            chat'[d].auto # << >> /\ chat'[d].depth < MaxRounds - 1
                       /\ \A k \in DOMAIN chat'[d].auto : ~chat'[d].auto[k].confirm
                       /\ \A k \in DOMAIN chat'[d].pending : chat'[d].pending[k].confirm
  <2> SUFFICES ASSUME NEW d \in Chats
               PROVE  /\ Len(chat'[d].auto) + Len(chat'[d].pending) <= MaxProposed
                      /\ chat'[d].pc \in {"next", "running"} =>
                            chat'[d].auto # << >> /\ chat'[d].depth < MaxRounds - 1
                      /\ \A k \in DOMAIN chat'[d].auto : ~chat'[d].auto[k].confirm
                      /\ \A k \in DOMAIN chat'[d].pending : chat'[d].pending[k].confirm
    OBVIOUS
  <2>1. CASE d = c
    <3>1. chat'[d].auto = << >> /\ chat'[d].pending = << >> /\ chat'[d].pc = "answered"
      BY <1>1, <2>1, OverFacts
    <3> QED
      BY <3>1
  <2>2. CASE d # c
    BY <1>1, <2>2
  <2> QED
    BY <2>1, <2>2
<1>4. /\ held' \in [ActionIds -> Actions \cup {Nothing}]
      /\ shows' \in [ActionIds -> Nat]
      /\ \A i \in ActionIds : held'[i] # Nothing => held'[i].confirm
      /\ \A i \in ActionIds : confirms[i] + (IF held'[i] = Nothing THEN 0 ELSE 1) <= shows'[i]
  <2>1. ASSUME NEW i \in ActionIds
        PROVE  /\ held'[i] \in Actions \cup {Nothing}
               /\ shows'[i] \in Nat
               /\ held'[i] # Nothing => held'[i].confirm
               /\ confirms[i] + (IF held'[i] = Nothing THEN 0 ELSE 1) <= shows'[i]
    <3> DEFINE of == Under(pending, i)
    <3>1. /\ Cardinality(of) \in Nat
          /\ of = {} => Holds(pending)[i] = held[i]
          /\ of # {} => /\ \E k \in DOMAIN pending : Holds(pending)[i] = pending[k]
                        /\ Cardinality(of) >= 1
      BY HoldsFacts
    <3>2. held'[i] = Holds(pending)[i] /\ shows'[i] = shows[i] + Cardinality(of)
      BY DEF Answers
    <3> HIDE DEF of
    <3>3. \A k \in DOMAIN pending : pending[k] \in Actions
      BY ElementOfSeq, LenProperties
    <3>4. CASE of = {}
      BY <3>1, <3>2, <3>4
    <3>5. CASE of # {}
      BY <3>1, <3>2, <3>3, <3>5
    <3> QED
      BY <3>4, <3>5
  <2>2. DOMAIN held' = ActionIds /\ held' = [i \in ActionIds |-> held'[i]]
    BY DEF Answers, Holds
  <2>3. shows' = [i \in ActionIds |-> shows'[i]]
    BY DEF Answers
  <2> QED
    BY <2>1, <2>2, <2>3
<1>5. RunsAreAllowed'
  BY DEF RunsAreAllowed
<1>6. AssistantTypeOK'
  <2>1. \A i \in ActionIds : held'[i] = Nothing \/ held'[i] \in Actions
    BY <1>4
  <2> QED
    BY <1>2, <1>3, <1>4, <2>1 DEF ChatType
<1> QED
  BY <1>3, <1>4, <1>5, <1>6

\* A list of at most MaxProposed actions is a sequence of them.
LEMMA ListFacts ==
  ASSUME NEW S, NEW list \in ListsOf(S)
  PROVE  list \in Seq(S) /\ \A k \in DOMAIN list : list[k] \in S
<1>1. PICK n \in 0..MaxProposed : list \in [1..n -> S]
  BY DEF ListsOf
<1>2. n \in Nat
  BY AssistantAssumption
<1> QED
  BY <1>1, <1>2

\* The actions that are to be confirmed are the same ones, marked.
LEMMA ToConfirmFacts ==
  ASSUME NEW list \in Seq(Actions)
  PROVE  /\ ToConfirm(list) \in Seq(Actions)
         /\ Len(ToConfirm(list)) = Len(list)
         /\ \A k \in DOMAIN ToConfirm(list) : ToConfirm(list)[k].confirm
<1>1. DOMAIN list = 1..Len(list) /\ Len(list) \in Nat /\ \A k \in DOMAIN list : list[k] \in Actions
  BY LenProperties, ElementOfSeq
<1>2. \A k \in DOMAIN list : /\ [list[k] EXCEPT !.confirm = TRUE] \in Actions
                             /\ [list[k] EXCEPT !.confirm = TRUE].confirm
  BY <1>1 DEF Actions
<1>3. ToConfirm(list) \in [1..Len(list) -> Actions]
  BY <1>1, <1>2 DEF ToConfirm
<1>4. \A k \in DOMAIN ToConfirm(list) : ToConfirm(list)[k].confirm
  BY <1>2 DEF ToConfirm
<1> QED
  BY <1>1, <1>3, <1>4

\* Two lists, one after the other, of actions that are to be confirmed.
LEMMA BothToConfirm ==
  ASSUME NEW a \in Seq(Actions), NEW b \in Seq(Actions),
         \A k \in DOMAIN a : a[k].confirm, \A k \in DOMAIN b : b[k].confirm
  PROVE  a \o b \in Seq(Actions) /\ \A k \in DOMAIN (a \o b) : (a \o b)[k].confirm
<1>1. /\ a \o b \in Seq(Actions) /\ Len(a \o b) = Len(a) + Len(b)
      /\ \A i \in 1..(Len(a) + Len(b)) :
           (a \o b)[i] = IF i <= Len(a) THEN a[i] ELSE b[i - Len(a)]
  BY ConcatProperties
<1>2. /\ DOMAIN (a \o b) = 1..(Len(a) + Len(b)) /\ DOMAIN a = 1..Len(a) /\ DOMAIN b = 1..Len(b)
      /\ Len(a) \in Nat /\ Len(b) \in Nat
  BY <1>1, LenProperties
<1> QED
  BY <1>1, <1>2

\* How lengths add up: none left, one fewer, and the first ones gone.
LEMMA LengthSums ==
  /\ \A a, b, m : a = 0 /\ b = 0 /\ m \in Nat => a + b <= m
  /\ \A a, b, d, m : a \in Nat /\ b \in Nat /\ m \in Nat /\ a + b <= m /\ d \in {0, a - 1} => d + b <= m
  /\ \A d, n : d \in 0..(n - 1) /\ d < n - 1 /\ n \in Nat => d + 1 \in 0..(n - 1)
  /\ \A d, n : d \in 0..(n - 1) /\ d # n - 1 /\ n \in Nat => d < n - 1
<1>1. \A a, b, m : a = 0 /\ b = 0 /\ m \in Nat => a + b <= m
  OBVIOUS
<1>2. \A a, b, d, m : a \in Nat /\ b \in Nat /\ m \in Nat /\ a + b <= m /\ d \in {0, a - 1} => d + b <= m
  OBVIOUS
<1>3. \A d, n : d \in 0..(n - 1) /\ d < n - 1 /\ n \in Nat => d + 1 \in 0..(n - 1)
  OBVIOUS
<1>4. \A d, n : d \in 0..(n - 1) /\ d # n - 1 /\ n \in Nat => d < n - 1
  OBVIOUS
<1> QED
  BY <1>1, <1>2, <1>3, <1>4

\* A step that changes only where a chat is.
LEMMA ChatKeeps ==
  ASSUME AssistantInv, NEW c \in Chats, NEW new \in ChatType, chat' = [chat EXCEPT ![c] = new],
         Len(new.auto) + Len(new.pending) <= MaxProposed,
         new.pc \in {"next", "running"} => new.auto # << >> /\ new.depth < MaxRounds - 1,
         \A k \in DOMAIN new.auto : ~new.auto[k].confirm,
         \A k \in DOMAIN new.pending : new.pending[k].confirm,
         UNCHANGED <<allowed, held, shows, confirms>>,
         RunsAreAllowed'
  PROVE  AssistantInv'
<1>1. /\ chat' \in [Chats -> ChatType]
      /\ \A d \in Chats : chat'[d] = IF d = c THEN new ELSE chat[d]
  BY DEF AssistantInv, AssistantTypeOK, ChatType
<1>2. \A d \in Chats : /\ Len(chat'[d].auto) + Len(chat'[d].pending) <= MaxProposed
                       /\ chat'[d].pc \in {"next", "running"} =>
                            chat'[d].auto # << >> /\ chat'[d].depth < MaxRounds - 1
                       /\ \A k \in DOMAIN chat'[d].auto : ~chat'[d].auto[k].confirm
                       /\ \A k \in DOMAIN chat'[d].pending : chat'[d].pending[k].confirm
  BY <1>1 DEF AssistantInv, AssistantTypeOK
<1>3. AssistantTypeOK'
  BY <1>1, <1>2 DEF AssistantInv, AssistantTypeOK, ChatType
<1> QED
  BY <1>2, <1>3 DEF AssistantInv

\* ... and leaves it what it had.
LEMMA PlaceKeeps ==
  ASSUME AssistantInv, NEW c \in Chats, NEW new \in ChatType, chat' = [chat EXCEPT ![c] = new],
         new.auto = chat[c].auto, new.pending = chat[c].pending,
         new.pc \notin {"next", "running"},
         UNCHANGED <<allowed, held, ran, shows, confirms>>
  PROVE  AssistantInv'
<1>1. /\ Len(new.auto) + Len(new.pending) <= MaxProposed
      /\ \A k \in DOMAIN new.auto : ~new.auto[k].confirm
      /\ \A k \in DOMAIN new.pending : new.pending[k].confirm
  BY DEF AssistantInv, AssistantTypeOK
<1>2. RunsAreAllowed'
  BY DEF AssistantInv, RunsAreAllowed
<1> QED
  BY <1>1, <1>2, ChatKeeps

\* Every step keeps the invariant.
LEMMA AssistantStep == AssistantInv /\ [AssistantNext]_assistantVars => AssistantInv'
<1> SUFFICES ASSUME AssistantInv, [AssistantNext]_assistantVars PROVE AssistantInv'
  OBVIOUS
<1>0. \A c \in Chats : /\ chat[c] \in ChatType
                       /\ chat[c].auto \in Seq(Actions) /\ chat[c].pending \in Seq(Actions)
                       /\ chat[c].depth \in 0..(MaxRounds - 1)
                       /\ Len(chat[c].auto) + Len(chat[c].pending) <= MaxProposed
                       /\ \A k \in DOMAIN chat[c].auto : ~chat[c].auto[k].confirm
                       /\ \A k \in DOMAIN chat[c].pending : chat[c].pending[k].confirm
                       /\ chat[c].pc \in {"next", "running"} =>
                            chat[c].auto # << >> /\ chat[c].depth < MaxRounds - 1
  BY DEF AssistantInv, AssistantTypeOK, ChatType
<1>1. ASSUME UNCHANGED ran PROVE RunsAreAllowed'
  BY <1>1 DEF AssistantInv, RunsAreAllowed
<1>2. ASSUME ConfigChanges PROVE AssistantInv'
  BY <1>2 DEF ConfigChanges, AssistantInv, AssistantTypeOK, RunsAreAllowed
<1>3. ASSUME NEW c \in Chats, ChatStarts(c) PROVE AssistantInv'
  <2> DEFINE new == [chat[c] EXCEPT !.pc = "context", !.allowed = allowed]
  <2>1. allowed \in SUBSET ToolNames
    BY DEF AssistantInv, AssistantTypeOK, AllowedSets
  <2>2. /\ new \in ChatType /\ new.auto = chat[c].auto /\ new.pending = chat[c].pending
        /\ new.pc = "context" /\ chat' = [chat EXCEPT ![c] = new]
    <3>1. chat' = [chat EXCEPT ![c] = new]
      BY <1>3 DEF ChatStarts
    <3>2. new \in ChatType /\ new.auto = chat[c].auto /\ new.pending = chat[c].pending /\ new.pc = "context"
      BY <1>0, <2>1 DEF ChatType
    <3> QED
      BY <3>1, <3>2
  <2> HIDE DEF new
  <2>3. UNCHANGED <<allowed, held, ran, shows, confirms>>
    BY <1>3 DEF ChatStarts
  <2> QED
    BY <2>2, <2>3, PlaceKeeps
<1>4. ASSUME NEW c \in Chats, ContextGathered(c) PROVE AssistantInv'
  <2> DEFINE new == [chat[c] EXCEPT !.pc = "asked"]
  <2>1. /\ new \in ChatType /\ new.auto = chat[c].auto /\ new.pending = chat[c].pending
        /\ new.pc = "asked" /\ chat' = [chat EXCEPT ![c] = new]
    BY <1>0, <1>4 DEF ContextGathered, ChatType
  <2> HIDE DEF new
  <2> QED
    BY <1>4, <2>1, PlaceKeeps DEF ContextGathered
\* A chat that fails loses what it had.
<1>5. ASSUME NEW c \in Chats, chat' = [chat EXCEPT ![c] = [NewChat EXCEPT !.pc = "failed"]],
             UNCHANGED <<allowed, held, ran, shows, confirms>>
      PROVE  AssistantInv'
  <2> DEFINE new == [NewChat EXCEPT !.pc = "failed"]
  <2>1. /\ new \in ChatType /\ new.auto = << >> /\ new.pending = << >> /\ new.pc = "failed"
    BY OverFacts
  <2>2. Len(new.auto) + Len(new.pending) <= MaxProposed
    <3>1. Len(new.auto) = 0 /\ Len(new.pending) = 0 /\ MaxProposed \in Nat
      BY <2>1, AssistantAssumption
    <3> QED
      BY <3>1, LengthSums, Zenon
  <2>3. /\ \A k \in DOMAIN new.auto : ~new.auto[k].confirm
        /\ \A k \in DOMAIN new.pending : new.pending[k].confirm
    BY <2>1
  <2>4. chat' = [chat EXCEPT ![c] = new]
    BY <1>5
  <2> HIDE DEF new
  <2> QED
    BY <1>1, <1>5, <2>1, <2>2, <2>3, <2>4, ChatKeeps
<1>6. ASSUME NEW c \in Chats, AssistantAnswers(c) PROVE AssistantInv'
  <2> DEFINE mine == {a \in Actions : RunsItself(c, a)}
  <2>1. PICK auto \in ListsOf(mine), others \in ListsOf(Actions \ mine) :
          /\ Len(auto) + Len(others) <= MaxProposed
          /\ \/ Answers(c, ToConfirm(others) \o ToConfirm(auto))
             \/ /\ auto # << >> /\ ~LastRound(c)
                /\ chat' = [chat EXCEPT ![c].pc = "next", ![c].auto = auto,
                                        ![c].pending = ToConfirm(others)]
                /\ UNCHANGED <<held, shows>>
    BY <1>6 DEF AssistantAnswers
  <2>2. /\ auto \in Seq(Actions) /\ others \in Seq(Actions)
        /\ \A k \in DOMAIN auto : ~auto[k].confirm
    <3>1. auto \in Seq(mine) /\ others \in Seq(Actions \ mine) /\ \A k \in DOMAIN auto : auto[k] \in mine
      BY ListFacts
    <3> QED
      BY <3>1 DEF RunsItself
  <2>3. /\ ToConfirm(others) \in Seq(Actions) /\ Len(ToConfirm(others)) = Len(others)
        /\ \A k \in DOMAIN ToConfirm(others) : ToConfirm(others)[k].confirm
        /\ ToConfirm(auto) \in Seq(Actions)
        /\ \A k \in DOMAIN ToConfirm(auto) : ToConfirm(auto)[k].confirm
    BY <2>2, ToConfirmFacts
  <2>4. UNCHANGED <<allowed, ran, confirms>>
    BY <1>6 DEF AssistantAnswers
  <2>5. CASE Answers(c, ToConfirm(others) \o ToConfirm(auto))
    BY <2>3, <2>4, <2>5, BothToConfirm, AnswersKeep
  <2>6. CASE /\ auto # << >> /\ ~LastRound(c)
             /\ chat' = [chat EXCEPT ![c].pc = "next", ![c].auto = auto,
                                     ![c].pending = ToConfirm(others)]
             /\ UNCHANGED <<held, shows>>
    <3> DEFINE new == [chat[c] EXCEPT !.pc = "next", !.auto = auto, !.pending = ToConfirm(others)]
    <3>1. /\ new \in ChatType /\ new.auto = auto /\ new.pending = ToConfirm(others)
          /\ new.pc = "next" /\ new.depth = chat[c].depth /\ chat' = [chat EXCEPT ![c] = new]
      BY <1>0, <2>2, <2>3, <2>6 DEF ChatType
    <3> HIDE DEF new
    <3>2. Len(new.auto) + Len(new.pending) <= MaxProposed
      BY <2>1, <2>3, <3>1
    <3>3. new.auto # << >> /\ new.depth < MaxRounds - 1
      <4>1. chat[c].depth \in 0..(MaxRounds - 1) /\ chat[c].depth # MaxRounds - 1 /\ MaxRounds \in Nat
        BY <1>0, <2>6, AssistantAssumption DEF LastRound
      <4>2. chat[c].depth < MaxRounds - 1
        BY <4>1, LengthSums, Zenon
      <4> QED
        BY <2>6, <3>1, <4>2
    <3>4. /\ \A k \in DOMAIN new.auto : ~new.auto[k].confirm
          /\ \A k \in DOMAIN new.pending : new.pending[k].confirm
      BY <2>2, <2>3, <3>1
    <3> QED
      BY <1>1, <2>4, <2>6, <3>1, <3>2, <3>3, <3>4, ChatKeeps
  <2> QED
    BY <2>1, <2>5, <2>6
<1>7. ASSUME NEW c \in Chats, RunsNext(c) PROVE AssistantInv'
  <2> DEFINE a == Head(chat[c].auto)
  <2>1. a \in Actions /\ ~a.confirm
    <3>1. chat[c].auto \in Seq(Actions) /\ chat[c].auto # << >>
      BY <1>0, <1>7 DEF RunsNext
    <3>2. 1 \in DOMAIN chat[c].auto /\ a = chat[c].auto[1] /\ a \in Actions
      BY <3>1
    <3> QED
      BY <1>0, <3>2
  <2>2. CASE ~MayExecute(a)
    BY <1>5, <1>7, <2>2 DEF RunsNext
  <2>3. CASE MayExecute(a)
    <3> DEFINE new == [chat[c] EXCEPT !.pc = "running"]
    <3>1. /\ new \in ChatType /\ new.auto = chat[c].auto /\ new.pending = chat[c].pending
          /\ new.pc = "running" /\ new.depth = chat[c].depth /\ chat' = [chat EXCEPT ![c] = new]
      BY <1>0, <1>7, <2>3 DEF RunsNext, ChatType
    <3>2. RunsAreAllowed'
      <4>1. ran' = ran \cup {[action |-> a, by |-> "chat", allowed |-> allowed]}
        BY <1>7, <2>3 DEF RunsNext
      <4>2. a.tool \in allowed
        BY <2>3 DEF MayExecute
      <4> HIDE DEF a
      <4> QED
        BY <2>1, <4>1, <4>2 DEF RunsAreAllowed, AssistantInv
    <3>3. new.auto # << >> /\ new.depth < MaxRounds - 1
      BY <1>0, <1>7, <3>1 DEF RunsNext
    <3> HIDE DEF new
    <3> QED
      BY <1>0, <1>7, <3>1, <3>2, <3>3, ChatKeeps DEF RunsNext
  <2> QED
    BY <2>2, <2>3
<1>8. ASSUME NEW c \in Chats, ToolReturns(c) PROVE AssistantInv'
  <2>1. UNCHANGED <<allowed, ran, confirms>>
    BY <1>8 DEF ToolReturns
  <2>2. CASE Answers(c, chat[c].pending)
    BY <1>0, <2>1, <2>2, AnswersKeep
  <2>3. CASE /\ Len(chat[c].auto) > 1
             /\ chat' = [chat EXCEPT ![c].pc = "next", ![c].auto = Tail(@)]
             /\ UNCHANGED <<held, shows>>
    <3> DEFINE rest == Tail(chat[c].auto)
               new == [chat[c] EXCEPT !.pc = "next", !.auto = rest]
    <3>1. /\ rest \in Seq(Actions) /\ Len(rest) = Len(chat[c].auto) - 1 /\ rest # << >>
          /\ \A k \in DOMAIN rest : ~rest[k].confirm
      <4>1. /\ rest \in Seq(Actions) /\ Len(rest) = Len(chat[c].auto) - 1
            /\ \A k \in 1..Len(rest) : rest[k] = chat[c].auto[k + 1]
        <5>1. chat[c].auto \in Seq(Actions) /\ chat[c].auto # << >>
          BY <1>0, <1>8 DEF ToolReturns
        <5> QED
          BY <5>1, HeadTailProperties
      <4>2. \A k \in 1..Len(rest) : k + 1 \in DOMAIN chat[c].auto
        BY <1>0, <4>1, LenProperties
      <4>3. DOMAIN rest = 1..Len(rest) /\ Len(chat[c].auto) \in Nat
        BY <1>0, <4>1, LenProperties
      <4> HIDE DEF rest
      <4>4. rest # << >>
        BY <2>3, <4>1, <4>3
      <4> QED
        BY <1>0, <4>1, <4>2, <4>3, <4>4
    <3>2. /\ new \in ChatType /\ new.auto = rest /\ new.pending = chat[c].pending
          /\ new.pc = "next" /\ new.depth = chat[c].depth /\ chat' = [chat EXCEPT ![c] = new]
      BY <1>0, <2>3, <3>1 DEF ChatType
    <3> HIDE DEF rest, new
    <3>3. Len(new.auto) + Len(new.pending) <= MaxProposed
      <4>1. Len(chat[c].auto) \in Nat /\ Len(chat[c].pending) \in Nat
        BY <1>0, LenProperties
      <4>2. /\ Len(new.auto) \in {0, Len(chat[c].auto) - 1}
            /\ Len(new.pending) = Len(chat[c].pending)
        BY <3>1, <3>2
      <4>3. Len(chat[c].auto) + Len(chat[c].pending) <= MaxProposed /\ MaxProposed \in Nat
        BY <1>0, AssistantAssumption
      <4> QED
        BY <4>1, <4>2, <4>3, LengthSums, Zenon
    <3>4. new.depth < MaxRounds - 1
      BY <1>0, <1>8, <3>2 DEF ToolReturns
    <3> QED
      BY <1>0, <1>1, <2>1, <2>3, <3>1, <3>2, <3>3, <3>4, ChatKeeps
  \* The assistant is asked again in a round before the last.
  <2>4. CASE chat' = GoesOn(c) /\ UNCHANGED <<held, shows>>
    <3> DEFINE new == [chat[c] EXCEPT !.pc = "asked", !.auto = << >>, !.depth = chat[c].depth + 1]
    <3>1. chat' = [chat EXCEPT ![c] = new]
      BY <2>4 DEF GoesOn
    <3>2. chat[c].depth + 1 \in 0..(MaxRounds - 1)
      <4>1. chat[c].depth \in 0..(MaxRounds - 1) /\ chat[c].depth < MaxRounds - 1 /\ MaxRounds \in Nat
        BY <1>0, <1>8, AssistantAssumption DEF ToolReturns
      <4> QED
        BY <4>1, LengthSums, Zenon
    <3>3. /\ new \in ChatType /\ new.auto = << >> /\ new.pending = chat[c].pending /\ new.pc = "asked"
      <4>1. chat[c] \in ChatType
        BY <1>0
      <4>2. << >> \in Seq(Actions)
        OBVIOUS
      <4> QED
        BY <3>2, <4>1, <4>2 DEF ChatType
    <3> HIDE DEF new
    <3>4. Len(new.auto) + Len(new.pending) <= MaxProposed
      <4>1. Len(chat[c].auto) \in Nat /\ Len(chat[c].pending) \in Nat
        BY <1>0, LenProperties
      <4>2. /\ Len(new.auto) \in {0, Len(chat[c].auto) - 1}
            /\ Len(new.pending) = Len(chat[c].pending)
        BY <3>3
      <4>3. Len(chat[c].auto) + Len(chat[c].pending) <= MaxProposed /\ MaxProposed \in Nat
        BY <1>0, AssistantAssumption
      <4> QED
        BY <4>1, <4>2, <4>3, LengthSums, Zenon
    <3>5. /\ \A k \in DOMAIN new.auto : ~new.auto[k].confirm
          /\ \A k \in DOMAIN new.pending : new.pending[k].confirm
      <4>1. DOMAIN new.auto = {}
        BY <3>3
      <4>2. \A k \in DOMAIN chat[c].pending : chat[c].pending[k].confirm
        BY <1>0
      <4> QED
        BY <3>3, <4>1, <4>2
    <3> QED
      BY <1>1, <2>1, <2>4, <3>1, <3>3, <3>4, <3>5, ChatKeeps
  <2> QED
    BY <1>8, <2>2, <2>3, <2>4 DEF ToolReturns
<1>9. ASSUME NEW c \in Chats, AskFails(c) \/ ToolRaises(c) PROVE AssistantInv'
  BY <1>5, <1>9 DEF AskFails, ToolRaises
\* What the user decides leaves the cache, whatever becomes of it.
<1>10. ASSUME NEW i \in ActionIds, NEW approved \in BOOLEAN, Confirm(i, approved) PROVE AssistantInv'
  <2>1. /\ held[i] \in Actions /\ held[i].confirm /\ held[i] # Nothing
        /\ UNCHANGED <<allowed, chat, shows>>
    BY <1>10 DEF Confirm, AssistantInv
  <2>2. /\ held' \in [ActionIds -> Actions \cup {Nothing}]
        /\ \A j \in ActionIds : held'[j] = IF j = i THEN Nothing ELSE held[j]
    BY <1>10 DEF Confirm, Taken, AssistantInv
  <2>3. /\ confirms' \in [ActionIds -> Nat]
        /\ \A j \in ActionIds : confirms'[j] \in {confirms[j], IF j = i THEN confirms[j] + 1 ELSE confirms[j]}
    BY <1>10 DEF Confirm, AssistantInv, AssistantTypeOK
  <2>4. \A j \in ActionIds : confirms'[j] + (IF held'[j] = Nothing THEN 0 ELSE 1) <= shows'[j]
    <3> SUFFICES ASSUME NEW j \in ActionIds
                 PROVE  confirms'[j] + (IF held'[j] = Nothing THEN 0 ELSE 1) <= shows'[j]
      OBVIOUS
    <3>1. /\ confirms[j] \in Nat /\ shows[j] \in Nat /\ shows'[j] = shows[j]
          /\ confirms[j] + (IF held[j] = Nothing THEN 0 ELSE 1) <= shows[j]
      BY <2>1 DEF AssistantInv, AssistantTypeOK
    <3>2. CASE j = i
      <4>1. held'[j] = Nothing /\ confirms[j] + 1 <= shows[j]
        BY <2>1, <2>2, <3>1, <3>2
      <4> QED
        BY <2>3, <3>1, <4>1
    <3>3. CASE j # i
      BY <2>2, <2>3, <3>1, <3>3
    <3> QED
      BY <3>2, <3>3
  <2>5. RunsAreAllowed'
    <3>1. CASE UNCHANGED ran
      BY <1>1, <3>1
    <3>2. CASE /\ MayExecute(held[i])
               /\ ran' = ran \cup {[action |-> held[i], by |-> "user", allowed |-> allowed]}
      BY <2>1, <3>2 DEF RunsAreAllowed, AssistantInv, MayExecute
    <3> QED
      BY <1>10, <3>1, <3>2 DEF Confirm
  <2>6. \A j \in ActionIds : held'[j] # Nothing => held'[j].confirm
    BY <2>2 DEF AssistantInv
  <2>7. AssistantTypeOK'
    BY <2>1, <2>2, <2>3 DEF AssistantInv, AssistantTypeOK
  <2> QED
    BY <2>1, <2>2, <2>4, <2>5, <2>6, <2>7 DEF AssistantInv
<1>11. ASSUME UNCHANGED assistantVars PROVE AssistantInv'
  BY <1>1, <1>11 DEF assistantVars, AssistantInv, AssistantTypeOK
<1> QED
  BY <1>2, <1>3, <1>4, <1>6, <1>7, <1>8, <1>9, <1>10, <1>11 DEF AssistantNext, ChatSteps

(***************************************************************************)
(* However chats and approvals overlap and whatever the configuration      *)
(* becomes meanwhile, the assistant's actions run only where the           *)
(* configuration allows their tool, those that need the user's consent     *)
(* only with it, and at most once for each time they were shown.           *)
(***************************************************************************)
THEOREM AssistantStaysSafe == AssistantSpec => []AssistantSafe
<1>1. AssistantInv => AssistantSafe
  <2> SUFFICES ASSUME AssistantInv, NEW i \in ActionIds PROVE confirms[i] <= shows[i]
    BY DEF AssistantSafe, AssistantInv, RunsOncePerShow
  <2>1. confirms[i] \in Nat /\ shows[i] \in Nat
    BY DEF AssistantInv, AssistantTypeOK
  <2>2. confirms[i] + (IF held[i] = Nothing THEN 0 ELSE 1) <= shows[i]
    BY DEF AssistantInv
  <2> QED
    BY <2>1, <2>2
<1> QED
  BY <1>1, AssistantInitial, AssistantStep, PTL DEF AssistantSpec

=============================================================================
