---------------------------- MODULE MeterBuffer -----------------------------
(***************************************************************************)
(* The gateway's local meter buffer: LocalMeterBuffer of gateway_v2/       *)
(* meter.py.  enqueue takes a meter event until the buffer is full, its    *)
(* drain deadline has passed, or it is degraded; drain sends the events    *)
(* one by one.                                                             *)
(*                                                                         *)
(* The buffer has no lock and may be called by any threads, so a step of a *)
(* thread is one access to what they share: a test, an append, a pop, a    *)
(* write of the state or of the deadline.  send is a call of the network.  *)
(* The metering service (external) records an event once per idempotency   *)
(* key, which record always sends, and its answer may be lost.  A caller   *)
(* whose enqueue was refused, or whose event was in a send that raised,    *)
(* may enqueue the event again.  The metrics and dropped_events are left   *)
(* out.                                                                    *)
(***************************************************************************)
EXTENDS Naturals, Sequences, FiniteSets

CONSTANTS
  Events,    \* meter events, each with an idempotency key of its own
  Threads,   \* callers of enqueue and drain
  Threshold, \* MeterBufferPolicy.threshold_events
  MaxEvents, \* MeterBufferPolicy.max_events
  Deadline,  \* MeterBufferPolicy.drain_deadline_seconds
  MaxNow,    \* bound: the time
  NoEvent    \* no event, and no time

ASSUME MeterAssumption ==
  /\ Threshold \in Nat \ {0} /\ MaxEvents \in Nat \ {0} /\ Threshold <= MaxEvents
  /\ Deadline \in Nat /\ MaxNow \in Nat
  /\ NoEvent \notin Events /\ NoEvent \notin Nat
  /\ IsFiniteSet(Threads)

VARIABLES
  buffered, \* _queue
  state,    \* _state
  since,    \* _deadline_started_at, or NoEvent
  now,      \* the time
  thread,   \* what a thread does next, the event of its call, its now_seconds
  \* history
  admitted, \* the events that enqueue has appended
  recorded, \* the events that the service has recorded
  fallen,   \* the events whose send has raised, and that did not come back
  raised,   \* the events whose send has ever raised
  met       \* the calls that have overlapped: two enqueues, an enqueue and a drain

queueVars == <<buffered, admitted, fallen>>
sendVars  == <<recorded, raised>>
meterVars == <<queueVars, sendVars, state, since, now, thread, met>>

Shut == {"degraded", "fail_closed"}

\* Where an enqueue is, before and after its append, and where a drain is.
Entering  == {"called", "date", "due", "depth", "append", "close"}
Enqueuing == Entering \cup {"length", "buffering", "started", "start"}
Moving    == {"loop", "pop", "open", "clear"}

Resting == [pc |-> "idle", event |-> NoEvent, at |-> NoEvent]

MeterTypeOK ==
  /\ buffered \in Seq(Events)
  /\ state \in {"open", "buffering"} \cup Shut
  /\ since \in Nat \cup {NoEvent}
  /\ now \in Nat
  /\ thread \in [Threads -> [pc : Enqueuing \cup Moving \cup {"idle", "send"},
                             event : Events \cup {NoEvent}, at : Nat \cup {NoEvent}]]
  /\ admitted \in SUBSET Events /\ recorded \in SUBSET Events
  /\ fallen \in SUBSET Events /\ raised \in SUBSET Events
  /\ met \in SUBSET {"enqueues", "drain"}

MeterInit ==
  /\ buffered = <<>> /\ state = "open" /\ since = NoEvent /\ now = 0
  /\ thread = [t \in Threads |-> Resting]
  /\ admitted = {} /\ recorded = {} /\ fallen = {} /\ raised = {} /\ met = {}

At(t, pc) == thread[t].pc = pc
Held      == {buffered[k] : k \in DOMAIN buffered}
Sent(t)   == At(t, "send")
InSend    == {thread[t].event : t \in {u \in Threads : Sent(u)}}
Quiet     == \A t \in Threads : At(t, "idle")

Goes(t, pc) == thread' = [thread EXCEPT ![t].pc = pc]
Exits(t)     == thread' = [thread EXCEPT ![t] = Resting]

-----------------------------------------------------------------------------
Tick ==
  /\ now < MaxNow
  /\ now' = now + 1
  /\ UNCHANGED <<queueVars, sendVars, state, since, thread>>

\* Mutant of TooLate: the deadline is looked at only while the state is open.
TooLateOpen(t) == state = "open" /\ thread[t].at > since + Deadline

TooLate(t) == thread[t].at > since + Deadline

Overfull == Len(buffered) >= MaxEvents

(***************************************************************************)
(* enqueue.  The event is new, or is one whose send has raised.            *)
(***************************************************************************)
EnqueueStarts(t, e) ==
  /\ At(t, "idle")
  /\ e \notin admitted \/ e \in fallen
  /\ \A u \in Threads : thread[u].pc \in Entering => thread[u].event # e
  /\ thread' = [thread EXCEPT ![t] = [pc |-> "called", event |-> e, at |-> now]]
  /\ UNCHANGED <<queueVars, sendVars, state, since, now>>

(***************************************************************************)
(* Its tests, each of what it finds then.  The deadline is read twice, and *)
(* a drain may have cleared it in between: the subtraction then raises.    *)
(***************************************************************************)
EnqueueTests(t) ==
  /\ \/ At(t, "called") /\ state \in Shut /\ Exits(t)
     \/ At(t, "called") /\ state \notin Shut /\ Goes(t, "date")
     \/ At(t, "date") /\ Goes(t, IF since = NoEvent THEN "depth" ELSE "due")
     \/ At(t, "due") /\ since = NoEvent /\ Exits(t)
     \/ At(t, "due") /\ since # NoEvent /\ Goes(t, IF TooLate(t) THEN "close" ELSE "depth")
     \/ At(t, "depth") /\ Goes(t, IF Overfull THEN "close" ELSE "append")
     \/ At(t, "length") /\ Len(buffered) >= Threshold /\ Goes(t, "buffering")
     \/ At(t, "length") /\ Len(buffered) < Threshold /\ Exits(t)
     \/ At(t, "started") /\ since = NoEvent /\ Goes(t, "start")
     \/ At(t, "started") /\ since # NoEvent /\ Exits(t)
  /\ UNCHANGED <<queueVars, sendVars, state, since, now>>

\* Its writes.
EnqueueAppends(t) ==
  /\ At(t, "append") /\ Goes(t, "length")
  /\ buffered' = Append(buffered, thread[t].event)
  /\ admitted' = admitted \cup {thread[t].event}
  /\ fallen' = fallen \ {thread[t].event}
  /\ UNCHANGED <<sendVars, state, since, now>>

EnqueueSetsState(t) ==
  /\ \/ At(t, "close") /\ state' = "fail_closed" /\ Exits(t)
     \/ At(t, "buffering") /\ state' = "buffering" /\ Goes(t, "started")
  /\ UNCHANGED <<queueVars, sendVars, since, now>>

EnqueueSetsDeadline(t) ==
  /\ At(t, "start") /\ since' = thread[t].at /\ Exits(t)
  /\ UNCHANGED <<queueVars, sendVars, state, now>>

MarkDegraded ==
  /\ state # "degraded"
  /\ state' = "degraded"
  /\ UNCHANGED <<queueVars, sendVars, since, now, thread>>

(***************************************************************************)
(* drain: refused at its start when the buffer is shut, then one event     *)
(* after another leaves the buffer before it is sent.                      *)
(***************************************************************************)
DrainStarts(t) ==
  /\ At(t, "idle") /\ state \notin Shut /\ Goes(t, "loop")
  /\ UNCHANGED <<queueVars, sendVars, state, since, now>>

DrainTests(t) ==
  /\ At(t, "loop") /\ Goes(t, IF buffered = <<>> THEN "open" ELSE "pop")
  /\ UNCHANGED <<queueVars, sendVars, state, since, now>>

\* Mutant of Remaining: the event stays in the buffer.
RemainingAll == buffered

Remaining == Tail(buffered)

\* Another drain may have taken the last event: pop raises, and drain with it.
DrainPops(t) ==
  /\ At(t, "pop")
  /\ IF buffered = <<>>
       THEN Exits(t) /\ UNCHANGED buffered
       ELSE /\ thread' = [thread EXCEPT ![t].pc = "send", ![t].event = Head(buffered)]
            /\ buffered' = Remaining
  /\ UNCHANGED <<admitted, fallen, sendVars, state, since, now>>

SendReturns(t) ==
  /\ Sent(t)
  /\ recorded' = recorded \cup {thread[t].event}
  /\ thread' = [thread EXCEPT ![t] = [Resting EXCEPT !.pc = "loop"]]
  /\ UNCHANGED <<queueVars, raised, state, since, now>>

\* send raises, before or after the service has recorded the event: drain
\* ends here, with its event, the state and the deadline as they are.
SendRaises(t) ==
  /\ Sent(t)
  /\ recorded' \in {recorded, recorded \cup {thread[t].event}}
  /\ fallen' = fallen \cup {thread[t].event}
  /\ raised' = raised \cup {thread[t].event}
  /\ Exits(t)
  /\ UNCHANGED <<buffered, admitted, state, since, now>>

\* The buffer was empty: whatever has become of it meanwhile, it is open.
DrainOpens(t) ==
  /\ At(t, "open") /\ state' = "open" /\ Goes(t, "clear")
  /\ UNCHANGED <<queueVars, sendVars, since, now>>

DrainClears(t) ==
  /\ At(t, "clear") /\ since' = NoEvent /\ Exits(t)
  /\ UNCHANGED <<queueVars, sendVars, state, now>>

EnqueueSteps(t) ==
  \/ EnqueueTests(t) \/ EnqueueAppends(t) \/ EnqueueSetsState(t) \/ EnqueueSetsDeadline(t)

Drain(t) ==
  \/ DrainStarts(t) \/ DrainTests(t) \/ DrainPops(t) \/ SendReturns(t) \/ SendRaises(t)
  \/ DrainOpens(t) \/ DrainClears(t)

\* An enqueue overlaps with another one, or with a drain outside of its send.
Meetings ==
  {m \in {"enqueues", "drain"} : \E t, u \in Threads :
     /\ t # u /\ thread[t].pc \in Enqueuing
     /\ thread[u].pc \in (IF m = "enqueues" THEN Enqueuing ELSE Moving)}

MeterNext ==
  /\ \/ Tick \/ MarkDegraded
     \/ \E t \in Threads : \/ \E e \in Events : EnqueueStarts(t, e)
                           \/ EnqueueSteps(t) \/ Drain(t)
  /\ met' = met \cup Meetings'

MeterSpec == MeterInit /\ [][MeterNext]_meterVars

-----------------------------------------------------------------------------
(***************************************************************************)
(* The buffer keeps its limit while no two enqueues overlap, also with     *)
(* events that come back after a failed send.  Enqueues that overlap have  *)
(* each found room, and exceed it by less than their number.               *)
(***************************************************************************)
DepthBounded ==
  /\ "enqueues" \notin met => Len(buffered) <= MaxEvents
  /\ Len(buffered) < MaxEvents + Cardinality(Threads)

(***************************************************************************)
(* An admitted event is waiting, being sent, recorded, or its send has     *)
(* raised: enqueues and drains in any threads lose none.  It waits or is   *)
(* sent in one place only, and one that is recorded does neither again,    *)
(* unless a send of it has raised: none is sent twice for the threads.     *)
(***************************************************************************)
EventsAccounted ==
  /\ admitted = Held \cup InSend \cup recorded \cup fallen
  /\ \A j, k \in DOMAIN buffered : buffered[j] = buffered[k] => j = k
  /\ \A t, u \in Threads : Sent(t) /\ Sent(u) /\ thread[t].event = thread[u].event => t = u
  /\ Held \cap InSend = {}
  /\ fallen \cap (Held \cup InSend) = {}
  /\ recorded \cap (Held \cup InSend) \subseteq raised

(***************************************************************************)
(* Between calls the state says how full the buffer is: a buffering buffer *)
(* has a deadline running and an open one has none, and while no send has  *)
(* raised, the deadline runs exactly while there are threshold_events.     *)
(* This needs that no enqueue has met a drain outside of its send: one     *)
(* that appends between the last test of a drain and its resets loses its  *)
(* deadline, and one that a drain empties under its hands starts one over  *)
(* an empty buffer, as a send that raises may leave one: the buffer is     *)
(* then shut for good by the next enqueue after it.                        *)
(***************************************************************************)
DeadlineRuns ==
  "drain" \notin met /\ Quiet =>
    /\ state = "open" => since = NoEvent
    /\ state = "buffering" => since # NoEvent
    /\ raised = {} => (since # NoEvent <=> Len(buffered) >= Threshold)

\* An admitted event is in one place, the buffer keeps its limit, and the
\* deadline runs as long as the buffer is at its threshold.
BufferSafe == MeterTypeOK /\ DepthBounded /\ EventsAccounted /\ DeadlineRuns

\* No call is past its test of the state.
NoneInside == \A t \in Threads : thread[t].pc \in {"idle", "called"}

(***************************************************************************)
(* A buffer that has shut stays shut, lets no event in and none out, and   *)
(* admits no call: only what was under way when it shut can open it again. *)
(***************************************************************************)
ShutStays ==
  [][NoneInside /\ state \in Shut =>
       NoneInside' /\ state' \in Shut /\ buffered' = buffered]_meterVars

(***************************************************************************)
(* While no two enqueues have overlapped, an event is let in only when the *)
(* buffer had not been over its threshold, undrained, for longer than the  *)
(* deadline at the time of its call.                                       *)
(***************************************************************************)
LateRefused ==
  [][\A t \in Threads :
       At(t, "append") /\ ~At(t, "append")' /\ "enqueues" \notin met /\ since # NoEvent =>
         thread[t].at <= since + Deadline]_meterVars

\* The buffer refuses: it takes nothing after the deadline, and once it is shut
\* nothing but what is under way opens it.
BufferRefuses == ShutStays /\ LateRefused
=============================================================================
