--------------------------- MODULE GatewayProofs ----------------------------
(***************************************************************************)
(* The gateway's meter buffer, connector runtime and calls, for any number *)
(* of events, threads, invokes, grants and requests and any limits.        *)
(***************************************************************************)
EXTENDS MeterBuffer, GrantRuntime, GatewayCalls, SequenceTheorems, FiniteSetTheorems, TLAPS

-----------------------------------------------------------------------------
(* The meter buffer.                                                       *)

\* The first event leaves a sequence without repetitions.
LEMMA TailOfDistinct ==
  ASSUME NEW S, NEW s \in Seq(S), s # << >>,
         \A j, k \in DOMAIN s : s[j] = s[k] => j = k
  PROVE  /\ Tail(s) \in Seq(S) /\ Len(Tail(s)) = Len(s) - 1
         /\ \A j, k \in DOMAIN Tail(s) : Tail(s)[j] = Tail(s)[k] => j = k
         /\ {Tail(s)[k] : k \in DOMAIN Tail(s)} = {s[k] : k \in DOMAIN s} \ {Head(s)}
         /\ Head(s) \in S /\ Head(s) \in {s[k] : k \in DOMAIN s}
<1>1. Len(s) \in Nat /\ Len(s) # 0 /\ DOMAIN s = 1..Len(s)
  OBVIOUS
<1>2. Tail(s) \in Seq(S) /\ Len(Tail(s)) = Len(s) - 1
      /\ \A k \in 1..(Len(s) - 1) : Tail(s)[k] = s[k + 1]
  BY <1>1
<1>3. DOMAIN Tail(s) = 1..(Len(s) - 1)
  BY <1>1, <1>2
<1>4. Head(s) = s[1] /\ 1 \in DOMAIN s
  BY <1>1
<1>5. \A j, k \in DOMAIN Tail(s) : Tail(s)[j] = Tail(s)[k] => j = k
  BY <1>1, <1>2, <1>3
<1>6. ASSUME NEW x \in {s[k] : k \in DOMAIN s} \ {Head(s)}
      PROVE  x \in {Tail(s)[k] : k \in DOMAIN Tail(s)}
  <2>1. PICK k \in 1..Len(s) : x = s[k]
    BY <1>1
  <2>2. k # 1
    BY <1>4, <1>6, <2>1
  <2>3. k - 1 \in DOMAIN Tail(s) /\ Tail(s)[k - 1] = s[k]
    BY <1>1, <1>2, <1>3, <2>1, <2>2
  <2> QED
    BY <2>1, <2>3
<1>7. ASSUME NEW k \in DOMAIN Tail(s)
      PROVE  Tail(s)[k] \in {s[j] : j \in DOMAIN s} \ {Head(s)}
  <2>1. k + 1 \in DOMAIN s /\ k + 1 # 1 /\ Tail(s)[k] = s[k + 1]
    BY <1>1, <1>2, <1>3
  <2>2. s[k + 1] # s[1]
    BY <1>4, <2>1
  <2> QED
    BY <1>4, <2>1, <2>2
<1>8. {Tail(s)[k] : k \in DOMAIN Tail(s)} = {s[k] : k \in DOMAIN s} \ {Head(s)}
  <2>1. {Tail(s)[k] : k \in DOMAIN Tail(s)} \subseteq {s[k] : k \in DOMAIN s} \ {Head(s)}
    BY <1>7
  <2> QED
    BY <1>6, <2>1
<1>9. Head(s) \in S /\ Head(s) \in {s[k] : k \in DOMAIN s}
  BY <1>1, <1>4
<1> QED
  BY <1>2, <1>5, <1>8, <1>9

\* An event that is not in a sequence without repetitions comes last in it.
LEMMA AppendDistinct ==
  ASSUME NEW S, NEW s \in Seq(S), NEW e \in S,
         e \notin {s[k] : k \in DOMAIN s},
         \A j, k \in DOMAIN s : s[j] = s[k] => j = k
  PROVE  /\ Append(s, e) \in Seq(S) /\ Len(Append(s, e)) = Len(s) + 1
         /\ \A j, k \in DOMAIN Append(s, e) : Append(s, e)[j] = Append(s, e)[k] => j = k
         /\ {Append(s, e)[k] : k \in DOMAIN Append(s, e)} = {s[k] : k \in DOMAIN s} \cup {e}
<1>1. Len(s) \in Nat /\ DOMAIN s = 1..Len(s)
  OBVIOUS
<1>2. /\ Append(s, e) \in Seq(S) /\ Len(Append(s, e)) = Len(s) + 1
      /\ DOMAIN Append(s, e) = 1..(Len(s) + 1)
      /\ Append(s, e)[Len(s) + 1] = e
      /\ \A k \in 1..Len(s) : Append(s, e)[k] = s[k]
  BY <1>1
<1>3. 1..(Len(s) + 1) = (1..Len(s)) \cup {Len(s) + 1}
  BY <1>1
<1>4. \A j, k \in DOMAIN Append(s, e) : Append(s, e)[j] = Append(s, e)[k] => j = k
  <2> SUFFICES ASSUME NEW j \in 1..(Len(s) + 1), NEW k \in 1..(Len(s) + 1),
                      Append(s, e)[j] = Append(s, e)[k]
               PROVE  j = k
    BY <1>2
  <2>1. CASE j \in 1..Len(s) /\ k \in 1..Len(s)
    BY <1>1, <1>2, <2>1
  <2>2. CASE j \in 1..Len(s) /\ k = Len(s) + 1
    BY <1>1, <1>2, <2>2
  <2>3. CASE j = Len(s) + 1 /\ k \in 1..Len(s)
    BY <1>1, <1>2, <2>3
  <2>4. CASE j = Len(s) + 1 /\ k = Len(s) + 1
    BY <2>4
  <2> QED
    BY <1>3, <2>1, <2>2, <2>3, <2>4
<1>5. {Append(s, e)[k] : k \in DOMAIN Append(s, e)} = {s[k] : k \in DOMAIN s} \cup {e}
  BY <1>1, <1>2, <1>3
<1> QED
  BY <1>2, <1>4, <1>5

(***************************************************************************)
(* What the events' account rests on: a call in an enqueue has an event    *)
(* that is nowhere in the buffer yet, and no other call before its append  *)
(* has the same.                                                           *)
(***************************************************************************)
CallsHaveTheirs ==
  /\ fallen \subseteq raised
  /\ \A t \in Threads : thread[t].pc \in Enqueuing => thread[t].at \in Nat /\ thread[t].event \in Events
  /\ \A t \in Threads : Sent(t) => thread[t].event \in Events
  /\ \A t \in Threads : thread[t].pc \in Entering =>
       thread[t].event \notin admitted \/ thread[t].event \in fallen
  /\ \A t, u \in Threads :
       thread[t].pc \in Entering /\ thread[u].pc \in Entering /\ thread[t].event = thread[u].event
         => t = u

\* The calls that have found room and not taken it yet.
Appending == {t \in Threads : At(t, "append")}

\* The limit, with the room that has been found.
RoomFound ==
  /\ "enqueues" \notin met =>
       /\ Len(buffered) <= MaxEvents
       /\ Appending # {} => Len(buffered) < MaxEvents
  /\ Len(buffered) + Cardinality(Appending) < MaxEvents + Cardinality(Threads)

\* A drain that will come to the end of the buffer, and to its resets.
WillReset == \E t \in Threads : \/ thread[t].pc \in {"loop", "send", "open", "clear"}
                                \/ At(t, "pop") /\ buffered # << >>

\* The deadline and the state, also while calls are on their way to set them.
DeadlineSet ==
  "drain" \notin met =>
    /\ state = "open" => since = NoEvent \/ \E t \in Threads : At(t, "clear")
    /\ state = "buffering" => since # NoEvent \/ \E t \in Threads : thread[t].pc \in {"started", "start"}
    /\ \A t \in Threads :
         /\ thread[t].pc \in {"open", "clear"} => buffered = << >>
         /\ At(t, "clear") => state # "buffering"
         /\ thread[t].pc \in {"buffering", "started", "start"} => Len(buffered) >= Threshold
         /\ thread[t].pc \in {"started", "start"} => state # "open"
    /\ Len(buffered) >= Threshold =>
         \/ since # NoEvent
         \/ \E t \in Threads : thread[t].pc \in {"length", "buffering", "started", "start"}
    /\ raised = {} /\ since # NoEvent /\ Len(buffered) < Threshold => WillReset

\* The calls that have passed the test of the deadline, while it is the same.
InTime ==
  \A t \in Threads :
    thread[t].pc \in {"depth", "append"} /\ "enqueues" \notin met /\ since # NoEvent =>
      thread[t].at <= since + Deadline

\* The inductive invariant of the meter buffer.
BufferInv ==
  /\ MeterTypeOK /\ Meetings \subseteq met
  /\ EventsAccounted /\ CallsHaveTheirs /\ RoomFound /\ DeadlineSet /\ InTime

-----------------------------------------------------------------------------
(* How a thread moves.                                                     *)

LEMMA ThreadMoves ==
  ASSUME MeterTypeOK, NEW t \in Threads, NEW pc
  PROVE  /\ Goes(t, pc) => /\ thread'[t].pc = pc /\ thread'[t].event = thread[t].event
                           /\ thread'[t].at = thread[t].at
                           /\ \A u \in Threads \ {t} : thread'[u] = thread[u]
         /\ Exits(t) => /\ thread'[t] = Resting /\ thread'[t].pc = "idle"
                       /\ \A u \in Threads \ {t} : thread'[u] = thread[u]
<1> DEFINE Calls == [pc : Enqueuing \cup Moving \cup {"idle", "send"},
                     event : Events \cup {NoEvent}, at : Nat \cup {NoEvent}]
<1>1. thread \in [Threads -> Calls] /\ thread[t] \in Calls
  BY DEF MeterTypeOK
<1>2. Resting.pc = "idle"
  BY DEF Resting
<1> QED
  BY <1>1, <1>2 DEF Goes, Exits

LEMMA ThreadTyped ==
  ASSUME MeterTypeOK, NEW t \in Threads, NEW pc \in Enqueuing \cup Moving
  PROVE  (Goes(t, pc) \/ Exits(t)) =>
           thread' \in [Threads -> [pc : Enqueuing \cup Moving \cup {"idle", "send"},
                                    event : Events \cup {NoEvent}, at : Nat \cup {NoEvent}]]
<1> DEFINE Calls == [pc : Enqueuing \cup Moving \cup {"idle", "send"},
                     event : Events \cup {NoEvent}, at : Nat \cup {NoEvent}]
<1>1. thread \in [Threads -> Calls] /\ thread[t] \in Calls
  BY DEF MeterTypeOK
<1>2. Resting \in Calls
  BY DEF Resting
<1>3. [thread[t] EXCEPT !.pc = pc] \in Calls
  BY <1>1
<1> QED
  BY <1>1, <1>2, <1>3 DEF Goes, Exits

LEMMA MeterTypeStep == MeterTypeOK /\ CallsHaveTheirs /\ [MeterNext]_meterVars => MeterTypeOK'
<1> SUFFICES ASSUME MeterTypeOK, CallsHaveTheirs, [MeterNext]_meterVars PROVE MeterTypeOK'
  OBVIOUS
<1> DEFINE Calls == [pc : Enqueuing \cup Moving \cup {"idle", "send"},
                     event : Events \cup {NoEvent}, at : Nat \cup {NoEvent}]
<1>t. thread \in [Threads -> Calls]
  BY DEF MeterTypeOK
<1>1. CASE UNCHANGED meterVars
  BY <1>1 DEF MeterTypeOK, meterVars, queueVars, sendVars
<1>2. CASE MeterNext
  <2>m. met' \in SUBSET {"enqueues", "drain"}
    BY <1>2 DEF MeterNext, MeterTypeOK, Meetings
  <2>1. CASE Tick \/ MarkDegraded
    BY <2>m, <2>1 DEF MeterTypeOK, Tick, MarkDegraded, Shut, queueVars, sendVars
  <2>2. ASSUME NEW t \in Threads, NEW e \in Events, EnqueueStarts(t, e) PROVE MeterTypeOK'
    <3>1. [pc |-> "called", event |-> e, at |-> now] \in Calls
      BY DEF MeterTypeOK, Enqueuing, Entering
    <3>2. thread' \in [Threads -> Calls]
      BY <1>t, <2>2, <3>1 DEF EnqueueStarts
    <3> QED
      BY <2>m, <2>2, <3>2 DEF MeterTypeOK, EnqueueStarts, queueVars, sendVars
  <2>3. ASSUME NEW t \in Threads, EnqueueTests(t) PROVE MeterTypeOK'
    <3>1. Exits(t) \/ \E pc \in Enqueuing \cup Moving : Goes(t, pc)
      BY <2>3 DEF EnqueueTests, Enqueuing, Entering
    <3>2. thread' \in [Threads -> Calls]
      BY <3>1, ThreadTyped DEF Moving
    <3> QED
      BY <2>m, <2>3, <3>2 DEF MeterTypeOK, EnqueueTests, queueVars, sendVars
  <2>4. ASSUME NEW t \in Threads, EnqueueAppends(t) PROVE MeterTypeOK'
    <3>1. thread' \in [Threads -> Calls]
      BY <2>4, ThreadTyped DEF EnqueueAppends, Enqueuing
    <3>2. thread[t].event \in Events
      BY <2>4 DEF CallsHaveTheirs, EnqueueAppends, At, Enqueuing, Entering
    <3> QED
      BY <2>m, <2>4, <3>1, <3>2 DEF MeterTypeOK, EnqueueAppends, sendVars
  <2>5. ASSUME NEW t \in Threads, EnqueueSetsState(t) PROVE MeterTypeOK'
    <3>1. thread' \in [Threads -> Calls]
      BY <2>5, ThreadTyped DEF EnqueueSetsState, Enqueuing
    <3> QED
      BY <2>m, <2>5, <3>1 DEF MeterTypeOK, EnqueueSetsState, Shut, queueVars, sendVars
  <2>6. ASSUME NEW t \in Threads, EnqueueSetsDeadline(t) PROVE MeterTypeOK'
    <3>1. thread' \in [Threads -> Calls]
      BY <2>6, ThreadTyped DEF EnqueueSetsDeadline, Enqueuing
    <3>2. thread[t].at \in Nat
      BY <2>6 DEF CallsHaveTheirs, EnqueueSetsDeadline, At, Enqueuing
    <3> QED
      BY <2>m, <2>6, <3>1, <3>2 DEF MeterTypeOK, EnqueueSetsDeadline, queueVars, sendVars
  <2>7. ASSUME NEW t \in Threads, DrainStarts(t) \/ DrainTests(t) \/ DrainOpens(t) \/ DrainClears(t)
        PROVE  MeterTypeOK'
    <3>1. Exits(t) \/ \E pc \in Enqueuing \cup Moving : Goes(t, pc)
      BY <2>7 DEF DrainStarts, DrainTests, DrainOpens, DrainClears, Moving
    <3>2. thread' \in [Threads -> Calls]
      BY <3>1, ThreadTyped DEF Moving
    <3>3. UNCHANGED <<queueVars, sendVars, now>> /\ state' \in {state, "open"} /\ since' \in {since, NoEvent}
      BY <2>7 DEF DrainStarts, DrainTests, DrainOpens, DrainClears
    <3> QED
      BY <2>m, <3>2, <3>3 DEF MeterTypeOK, queueVars, sendVars
  <2>8. ASSUME NEW t \in Threads, DrainPops(t) PROVE MeterTypeOK'
    <3>1. CASE buffered = << >>
      <4>1. thread' \in [Threads -> Calls]
        BY <2>8, <3>1, ThreadTyped DEF DrainPops, Moving
      <4> QED
        BY <2>m, <2>8, <3>1, <4>1 DEF MeterTypeOK, DrainPops, sendVars
    <3>2. CASE buffered # << >>
      <4>0. buffered' = Tail(buffered) /\ buffered \in Seq(Events)
        BY <2>8, <3>2 DEF DrainPops, Remaining, MeterTypeOK
      <4>1. Head(buffered) \in Events /\ buffered' \in Seq(Events)
        BY <3>2, <4>0, HeadTailProperties
      <4>2. thread' = [thread EXCEPT ![t].pc = "send", ![t].event = Head(buffered)]
        BY <2>8, <3>2 DEF DrainPops
      <4>3. [thread[t] EXCEPT !.pc = "send", !.event = Head(buffered)] \in Calls
        BY <1>t, <4>1
      <4>4. thread' \in [Threads -> Calls]
        BY <1>t, <4>2, <4>3
      <4> QED
        BY <2>m, <2>8, <4>1, <4>4 DEF MeterTypeOK, DrainPops, sendVars
    <3> QED
      BY <3>1, <3>2
  <2>9. ASSUME NEW t \in Threads, SendReturns(t) \/ SendRaises(t) PROVE MeterTypeOK'
    <3>1. thread[t].event \in Events
      BY <2>9 DEF CallsHaveTheirs, SendReturns, SendRaises
    <3>2. [Resting EXCEPT !.pc = "loop"] \in Calls /\ Resting \in Calls
      BY DEF Resting, Moving
    <3>3. thread' \in [Threads -> Calls]
      BY <1>t, <2>9, <3>2 DEF SendReturns, SendRaises, Exits
    <3>4. UNCHANGED <<buffered, admitted, state, since, now>>
          /\ recorded' \in SUBSET Events /\ fallen' \in SUBSET Events /\ raised' \in SUBSET Events
      BY <2>9, <3>1 DEF SendReturns, SendRaises, MeterTypeOK, queueVars
    <3> QED
      BY <2>m, <3>3, <3>4 DEF MeterTypeOK
  <2> QED
    BY <1>2, <2>1, <2>2, <2>3, <2>4, <2>5, <2>6, <2>7, <2>8, <2>9
       DEF MeterNext, EnqueueSteps, Drain
<1> QED
  BY <1>1, <1>2

-----------------------------------------------------------------------------
(* The account of the events.                                              *)

Accounted == MeterTypeOK /\ EventsAccounted /\ CallsHaveTheirs

\* A thread that moves neither into nor out of a send, nor to another event.
LEMMA AccountKept ==
  ASSUME Accounted, UNCHANGED <<queueVars, sendVars>>, NEW t \in Threads,
         \A u \in Threads \ {t} : thread'[u] = thread[u],
         ~Sent(t), ~Sent(t)',
         thread'[t].pc \in Enqueuing =>
           /\ thread[t].pc \in Enqueuing /\ thread'[t].event = thread[t].event
           /\ thread'[t].at = thread[t].at
           /\ thread'[t].pc \in Entering => thread[t].pc \in Entering
  PROVE  EventsAccounted' /\ CallsHaveTheirs'
<1>1. /\ buffered' = buffered /\ admitted' = admitted /\ fallen' = fallen
      /\ recorded' = recorded /\ raised' = raised
  BY DEF queueVars, sendVars
<1>2. \A u \in Threads : Sent(u)' = Sent(u) /\ (Sent(u) => thread'[u].event = thread[u].event)
  BY DEF Sent, At
<1>3. InSend' = InSend /\ Held' = Held
  BY <1>1, <1>2 DEF InSend, Held
<1>4. EventsAccounted'
  BY <1>1, <1>2, <1>3 DEF Accounted, EventsAccounted
<1>5. \A u \in Threads : thread'[u].pc \in Enqueuing =>
        /\ thread[u].pc \in Enqueuing /\ thread'[u].event = thread[u].event
        /\ thread'[u].at = thread[u].at
        /\ thread'[u].pc \in Entering => thread[u].pc \in Entering
  OBVIOUS
<1>6. \A pc \in Entering : pc \in Enqueuing
  BY DEF Enqueuing
<1>7. \A t1, u1 \in Threads : thread'[t1].pc \in Entering /\ thread'[u1].pc \in Entering
                              /\ thread'[t1].event = thread'[u1].event => t1 = u1
  BY <1>5, <1>6 DEF Accounted, CallsHaveTheirs
<1>8. CallsHaveTheirs'
  BY <1>1, <1>2, <1>5, <1>6, <1>7 DEF Accounted, CallsHaveTheirs
<1> QED
  BY <1>4, <1>8

LEMMA AccountStep == Accounted /\ [MeterNext]_meterVars => EventsAccounted' /\ CallsHaveTheirs'
<1> SUFFICES ASSUME Accounted, [MeterNext]_meterVars PROVE EventsAccounted' /\ CallsHaveTheirs'
  OBVIOUS
<1> USE DEF Accounted
<1>p. \A pc : pc \in Entering => pc \in Enqueuing /\ pc # "send" /\ pc # "idle"
  BY DEF Entering, Enqueuing
<1>1. CASE UNCHANGED <<queueVars, sendVars, thread>>
  BY <1>1 DEF EventsAccounted, CallsHaveTheirs, Held, InSend, Sent, At, queueVars, sendVars
<1>2. ASSUME NEW t \in Threads, NEW e \in Events, EnqueueStarts(t, e)
      PROVE  EventsAccounted' /\ CallsHaveTheirs'
  <2>1. /\ UNCHANGED <<buffered, admitted, fallen, recorded, raised>> /\ thread[t].pc = "idle"
        /\ thread'[t] = [pc |-> "called", event |-> e, at |-> now]
        /\ \A u \in Threads \ {t} : thread'[u] = thread[u]
        /\ e \notin admitted \/ e \in fallen
        /\ \A u \in Threads : thread[u].pc \in Entering => thread[u].event # e
    BY <1>2 DEF EnqueueStarts, At, MeterTypeOK, queueVars, sendVars
  <2>2. thread'[t].pc = "called" /\ thread'[t].event = e /\ thread'[t].at \in Nat
    BY <2>1 DEF MeterTypeOK
  <2>3. \A u \in Threads : Sent(u)' = Sent(u) /\ (Sent(u) => thread'[u].event = thread[u].event)
    BY <2>1, <2>2 DEF Sent, At
  <2>4. InSend' = InSend /\ Held' = Held
    BY <2>1, <2>3 DEF InSend, Held
  <2>5. EventsAccounted'
    BY <2>1, <2>3, <2>4 DEF EventsAccounted
  <2>6. \A t1, u1 \in Threads : thread'[t1].pc \in Entering /\ thread'[u1].pc \in Entering
                                /\ thread'[t1].event = thread'[u1].event => t1 = u1
    BY <2>1, <2>2 DEF CallsHaveTheirs
  <2>7. \A u \in Threads : thread'[u].pc \in Enqueuing => thread'[u].at \in Nat /\ thread'[u].event \in Events
    BY <2>1, <2>2 DEF CallsHaveTheirs
  <2>8. \A u \in Threads : thread'[u].pc \in Entering =>
          thread'[u].event \notin admitted' \/ thread'[u].event \in fallen'
    BY <2>1, <2>2 DEF CallsHaveTheirs
  <2> QED
    BY <2>1, <2>3, <2>5, <2>6, <2>7, <2>8 DEF CallsHaveTheirs
<1>3. ASSUME NEW t \in Threads, EnqueueTests(t) PROVE EventsAccounted' /\ CallsHaveTheirs'
  <2>1. \/ Exits(t)
        \/ \E pc \in Entering \ {"called", "date"} : Goes(t, pc) /\ thread[t].pc \in Entering
        \/ Goes(t, "date") /\ thread[t].pc \in Entering
        \/ \E pc \in {"buffering", "start"} : Goes(t, pc) /\ thread[t].pc \in {"length", "started"}
    BY <1>3 DEF EnqueueTests, At, Entering
  <2>2. UNCHANGED <<queueVars, sendVars>> /\ thread[t].pc # "send"
    BY <1>3 DEF EnqueueTests, At
  <2>3. CASE Exits(t)
    BY <2>2, <2>3, ThreadMoves, AccountKept DEF Sent, At, Enqueuing, Entering
  <2>4. ASSUME NEW pc \in Entering, Goes(t, pc), thread[t].pc \in Entering
        PROVE  EventsAccounted' /\ CallsHaveTheirs'
    <3>1. /\ thread'[t].pc = pc /\ thread'[t].event = thread[t].event
          /\ thread'[t].at = thread[t].at
          /\ \A u \in Threads \ {t} : thread'[u] = thread[u]
      BY <2>4, ThreadMoves
    <3> QED
      BY <1>p, <2>2, <2>4, <3>1, AccountKept DEF Sent, At
  <2>5. ASSUME NEW pc \in {"buffering", "start"}, Goes(t, pc), thread[t].pc \in {"length", "started"}
        PROVE  EventsAccounted' /\ CallsHaveTheirs'
    <3>1. /\ thread'[t].pc = pc /\ thread'[t].event = thread[t].event
          /\ thread'[t].at = thread[t].at
          /\ \A u \in Threads \ {t} : thread'[u] = thread[u]
      BY <2>5, ThreadMoves
    <3> QED
      BY <2>2, <2>5, <3>1, AccountKept DEF Sent, At, Enqueuing, Entering
  <2>6. "date" \in Entering
    BY DEF Entering
  <2> QED
    BY <2>1, <2>3, <2>4, <2>5, <2>6
<1>4. ASSUME NEW t \in Threads, EnqueueAppends(t) PROVE EventsAccounted' /\ CallsHaveTheirs'
  <2> DEFINE e == thread[t].event
  <2>1. /\ buffered' = Append(buffered, e) /\ admitted' = admitted \cup {e} /\ fallen' = fallen \ {e}
        /\ recorded' = recorded /\ raised' = raised /\ thread[t].pc = "append"
        /\ Goes(t, "length")
    BY <1>4 DEF EnqueueAppends, At, sendVars
  <2>2. /\ thread'[t].pc = "length" /\ thread'[t].event = e /\ thread'[t].at = thread[t].at
        /\ \A u \in Threads \ {t} : thread'[u] = thread[u]
    BY <2>1, ThreadMoves
  <2>3. thread[t].pc \in Entering /\ "length" \notin Entering /\ "length" \in Enqueuing
    BY <2>1 DEF Entering, Enqueuing
  <2>4. e \in Events /\ (e \notin admitted \/ e \in fallen) /\ thread[t].at \in Nat
    BY <1>p, <2>3 DEF CallsHaveTheirs
  <2>5. e \notin Held /\ e \notin InSend /\ (e \in recorded => e \in raised)
    BY <2>4 DEF EventsAccounted, CallsHaveTheirs
  <2>6. /\ \A j, k \in DOMAIN buffered' : buffered'[j] = buffered'[k] => j = k
        /\ Held' = Held \cup {e}
    <3> HIDE DEF e
    <3> QED
      BY <2>1, <2>4, <2>5, AppendDistinct DEF MeterTypeOK, EventsAccounted, Held
  <2>7. \A u \in Threads : Sent(u)' = Sent(u) /\ (Sent(u) => thread'[u].event = thread[u].event)
    BY <2>1, <2>2 DEF Sent, At
  <2>8. InSend' = InSend
    BY <2>7 DEF InSend
  <2>9. EventsAccounted'
    <3>1. \A u, w \in Threads : Sent(u)' /\ Sent(w)' /\ thread'[u].event = thread'[w].event => u = w
      BY <2>7 DEF EventsAccounted
    <3>2. admitted' = Held' \cup InSend' \cup recorded' \cup fallen'
      BY <2>1, <2>6, <2>8 DEF EventsAccounted
    <3>3. Held' \cap InSend' = {} /\ fallen' \cap (Held' \cup InSend') = {}
          /\ recorded' \cap (Held' \cup InSend') \subseteq raised'
      BY <2>1, <2>5, <2>6, <2>8 DEF EventsAccounted
    <3> QED
      BY <2>6, <3>1, <3>2, <3>3 DEF EventsAccounted
  <2>10. \A u \in Threads : thread'[u].pc \in Entering => u # t /\ thread[u].event # e
    BY <2>2, <2>3 DEF CallsHaveTheirs
  <2>11. \A t1, u1 \in Threads : thread'[t1].pc \in Entering /\ thread'[u1].pc \in Entering
                                /\ thread'[t1].event = thread'[u1].event => t1 = u1
    BY <2>2, <2>10 DEF CallsHaveTheirs
  <2>12. \A u \in Threads : thread'[u].pc \in Enqueuing => thread'[u].at \in Nat /\ thread'[u].event \in Events
    BY <2>2, <2>4 DEF CallsHaveTheirs
  <2>13. \A u \in Threads : thread'[u].pc \in Entering =>
          thread'[u].event \notin admitted' \/ thread'[u].event \in fallen'
    BY <2>1, <2>2, <2>10 DEF CallsHaveTheirs
  <2>14. fallen' \subseteq raised' /\ \A u \in Threads : Sent(u)' => thread'[u].event \in Events
    BY <2>1, <2>7 DEF CallsHaveTheirs
  <2> QED
    BY <2>9, <2>11, <2>12, <2>13, <2>14 DEF CallsHaveTheirs
<1>5. ASSUME NEW t \in Threads, EnqueueSetsState(t) \/ EnqueueSetsDeadline(t)
      PROVE  EventsAccounted' /\ CallsHaveTheirs'
  <2>1. Exits(t) \/ (Goes(t, "started") /\ thread[t].pc = "buffering")
    BY <1>5 DEF EnqueueSetsState, EnqueueSetsDeadline, At
  <2>2. UNCHANGED <<queueVars, sendVars>> /\ thread[t].pc # "send"
    BY <1>5 DEF EnqueueSetsState, EnqueueSetsDeadline, At
  <2>3. CASE Exits(t)
    BY <2>2, <2>3, ThreadMoves, AccountKept DEF Sent, At, Enqueuing, Entering
  <2>4. CASE Goes(t, "started") /\ thread[t].pc = "buffering"
    <3>1. /\ thread'[t].pc = "started" /\ thread'[t].event = thread[t].event
          /\ thread'[t].at = thread[t].at
          /\ \A u \in Threads \ {t} : thread'[u] = thread[u]
      BY <2>4, ThreadMoves
    <3> QED
      BY <2>2, <2>4, <3>1, AccountKept DEF Sent, At, Enqueuing, Entering
  <2> QED
    BY <2>1, <2>3, <2>4
<1>6. ASSUME NEW t \in Threads,
             DrainStarts(t) \/ DrainTests(t) \/ DrainOpens(t) \/ DrainClears(t)
      PROVE  EventsAccounted' /\ CallsHaveTheirs'
  <2>1. Exits(t) \/ \E pc \in Moving : Goes(t, pc)
    BY <1>6 DEF DrainStarts, DrainTests, DrainOpens, DrainClears, Moving
  <2>2. UNCHANGED <<queueVars, sendVars>> /\ thread[t].pc # "send"
    BY <1>6 DEF DrainStarts, DrainTests, DrainOpens, DrainClears, At
  <2>3. /\ thread'[t].pc \in Moving \cup {"idle"}
        /\ \A u \in Threads \ {t} : thread'[u] = thread[u]
    BY <2>1, ThreadMoves
  <2>4. thread'[t].pc # "send" /\ thread'[t].pc \notin Enqueuing
    BY <2>3 DEF Moving, Enqueuing, Entering
  <2> QED
    BY <2>2, <2>3, <2>4, AccountKept DEF Sent, At
<1>7. ASSUME NEW t \in Threads, DrainPops(t) PROVE EventsAccounted' /\ CallsHaveTheirs'
  <2>1. CASE buffered = << >>
    <3>1. Exits(t) /\ UNCHANGED <<queueVars, sendVars>> /\ thread[t].pc # "send"
      BY <1>7, <2>1 DEF DrainPops, At, queueVars
    <3> QED
      BY <3>1, ThreadMoves, AccountKept DEF Sent, At, Enqueuing, Entering
  <2>2. CASE buffered # << >>
    <3> DEFINE e == Head(buffered)
    <3>1. /\ buffered' = Tail(buffered) /\ thread[t].pc = "pop"
          /\ UNCHANGED <<admitted, fallen, recorded, raised>>
          /\ thread'[t].pc = "send" /\ thread'[t].event = e
          /\ \A u \in Threads \ {t} : thread'[u] = thread[u]
      BY <1>7, <2>2 DEF DrainPops, Remaining, At, MeterTypeOK, sendVars
    <3>2. /\ \A j, k \in DOMAIN buffered' : buffered'[j] = buffered'[k] => j = k
          /\ Held' = Held \ {e} /\ e \in Events /\ e \in Held
      BY <2>2, <3>1, TailOfDistinct DEF MeterTypeOK, EventsAccounted, Held
    <3> HIDE DEF e
    <3>3. \A u \in Threads : IF u = t THEN Sent(u)' /\ ~Sent(u)
                             ELSE Sent(u)' = Sent(u) /\ thread'[u].event = thread[u].event
      BY <3>1 DEF Sent, At
    <3>4. InSend' = InSend \cup {e}
      BY <3>1, <3>3 DEF InSend
    <3>5. e \notin InSend /\ e \notin fallen /\ (e \in recorded => e \in raised)
      BY <3>2 DEF EventsAccounted
    <3>6. \A u, w \in Threads : Sent(u)' /\ Sent(w)' /\ thread'[u].event = thread'[w].event => u = w
      <4>1. \A u \in Threads : Sent(u) => thread[u].event # e
        BY <3>5 DEF InSend
      <4> QED
        BY <3>1, <3>3, <4>1 DEF EventsAccounted
    <3>7. EventsAccounted'
      <4>1. admitted' = Held' \cup InSend' \cup recorded' \cup fallen'
        BY <3>1, <3>2, <3>4 DEF EventsAccounted
      <4>2. Held' \cap InSend' = {} /\ fallen' \cap (Held' \cup InSend') = {}
            /\ recorded' \cap (Held' \cup InSend') \subseteq raised'
        BY <3>1, <3>2, <3>4, <3>5 DEF EventsAccounted
      <4> QED
        BY <3>2, <3>6, <4>1, <4>2 DEF EventsAccounted
    <3>8. \A u \in Threads : thread'[u].pc \in Enqueuing => thread'[u] = thread[u]
      BY <3>1 DEF Enqueuing, Entering
    <3>9. \A u \in Threads : Sent(u)' => thread'[u].event \in Events
      BY <3>1, <3>2, <3>3 DEF CallsHaveTheirs
    <3>10. CallsHaveTheirs'
      BY <1>p, <3>1, <3>8, <3>9 DEF CallsHaveTheirs
    <3> QED
      BY <3>7, <3>10
  <2> QED
    BY <2>1, <2>2
<1>8. ASSUME NEW t \in Threads, SendReturns(t) \/ SendRaises(t) PROVE EventsAccounted' /\ CallsHaveTheirs'
  <2> DEFINE e == thread[t].event
  <2>1. buffered' = buffered /\ admitted' = admitted /\ Sent(t)
    BY <1>8 DEF SendReturns, SendRaises, queueVars
  <2>2. thread'[t].pc \in {"loop", "idle"} /\ \A u \in Threads \ {t} : thread'[u] = thread[u]
    <3>1. CASE SendReturns(t)
      <4>1. [Resting EXCEPT !.pc = "loop"].pc = "loop"
        BY DEF Resting
      <4> QED
        BY <3>1, <4>1 DEF SendReturns, MeterTypeOK
    <3>2. CASE SendRaises(t)
      BY <3>2, ThreadMoves DEF SendRaises
    <3> QED
      BY <1>8, <3>1, <3>2
  <2>3. \/ /\ recorded' = recorded \cup {e} /\ fallen' = fallen /\ raised' = raised
        \/ /\ recorded' \in {recorded, recorded \cup {e}} /\ fallen' = fallen \cup {e}
           /\ raised' = raised \cup {e}
    BY <1>8 DEF SendReturns, SendRaises, queueVars
  <2>4. e \in InSend /\ e \in Events
    BY <2>1 DEF InSend, CallsHaveTheirs
  <2>5. \A u \in Threads : IF u = t THEN ~Sent(u)' /\ Sent(u)
                           ELSE Sent(u)' = Sent(u) /\ thread'[u].event = thread[u].event
    BY <2>1, <2>2 DEF Sent, At
  <2>6. Held' = Held /\ InSend' = InSend \ {e}
    BY <2>1, <2>5 DEF Held, InSend, EventsAccounted
  <2>7. e \notin Held /\ e \notin fallen
    BY <2>4 DEF EventsAccounted
  <2> HIDE DEF e
  <2>8. EventsAccounted'
    <3>1. admitted' = Held' \cup InSend' \cup recorded' \cup fallen'
      BY <2>1, <2>3, <2>4, <2>6 DEF EventsAccounted
    <3>2. Held' \cap InSend' = {} /\ fallen' \cap (Held' \cup InSend') = {}
          /\ recorded' \cap (Held' \cup InSend') \subseteq raised'
      BY <2>3, <2>4, <2>6, <2>7 DEF EventsAccounted
    <3>3. \A u, w \in Threads : Sent(u)' /\ Sent(w)' /\ thread'[u].event = thread'[w].event => u = w
      BY <2>5 DEF EventsAccounted
    <3> QED
      BY <2>1, <3>1, <3>2, <3>3 DEF EventsAccounted
  <2>9. \A u \in Threads : thread'[u].pc \in Enqueuing => thread'[u] = thread[u]
    BY <2>2 DEF Enqueuing, Entering
  <2>10. \A u \in Threads : Sent(u)' => thread'[u].event \in Events
    BY <2>5 DEF CallsHaveTheirs
  <2>11. fallen' \subseteq raised' /\ fallen \subseteq fallen'
    BY <2>3 DEF CallsHaveTheirs
  <2>12. CallsHaveTheirs'
    BY <1>p, <2>1, <2>9, <2>10, <2>11 DEF CallsHaveTheirs
  <2> QED
    BY <2>8, <2>12
<1> QED
  <2>1. UNCHANGED meterVars => UNCHANGED <<queueVars, sendVars, thread>>
    BY DEF meterVars
  <2>2. Tick \/ MarkDegraded => UNCHANGED <<queueVars, sendVars, thread>>
    BY DEF Tick, MarkDegraded
  <2> QED
    BY <1>1, <1>2, <1>3, <1>4, <1>5, <1>6, <1>7, <1>8, <2>1, <2>2 DEF MeterNext, EnqueueSteps, Drain

-----------------------------------------------------------------------------
(* The limit.                                                              *)

LEMMA AppendingCounts ==
  /\ IsFiniteSet(Appending) /\ Cardinality(Appending) \in Nat
  /\ Cardinality(Threads) \in Nat /\ Cardinality(Appending) <= Cardinality(Threads)
BY MeterAssumption, FS_Subset, FS_CardinalityType DEF Appending

\* Nobody finds room or takes it.
LEMMA RoomKept ==
  ASSUME MeterTypeOK, MeterTypeOK', RoomFound, Len(buffered') <= Len(buffered),
         Appending' = Appending, met \subseteq met'
  PROVE  RoomFound'
<1>1. Len(buffered) \in Nat /\ Len(buffered') \in Nat
  BY DEF MeterTypeOK
<1>2. "enqueues" \notin met' => "enqueues" \notin met
  OBVIOUS
<1>3. Cardinality(Appending') = Cardinality(Appending)
  OBVIOUS
<1> QED
  BY <1>1, <1>2, <1>3, AppendingCounts, MeterAssumption DEF RoomFound

LEMMA RoomStep ==
  ASSUME MeterTypeOK, MeterTypeOK', RoomFound, Meetings \subseteq met, [MeterNext]_meterVars
  PROVE  RoomFound'
<1>n. /\ Len(buffered) \in Nat /\ Len(buffered') \in Nat /\ MaxEvents \in Nat
      /\ met \subseteq met'
  <2>1. met \subseteq met'
    BY DEF MeterNext, meterVars
  <2> QED
    BY <2>1, MeterAssumption DEF MeterTypeOK
<1>1. CASE UNCHANGED <<buffered, thread>>
  BY <1>1, <1>n, RoomKept DEF Appending, At
<1>2. ASSUME NEW t \in Threads, thread[t].pc # "append", thread'[t].pc # "append",
             \A u \in Threads \ {t} : thread'[u] = thread[u], Len(buffered') <= Len(buffered)
      PROVE  RoomFound'
  <2>1. \A u \in Threads : At(u, "append")' = At(u, "append")
    BY <1>2 DEF At
  <2>2. Appending' = Appending
    BY <2>1 DEF Appending
  <2> QED
    BY <1>2, <1>n, <2>2, RoomKept
<1>3. ASSUME NEW t \in Threads, thread[t].pc = "depth", Goes(t, "append"), Len(buffered) < MaxEvents,
             buffered' = buffered
      PROVE  RoomFound'
  <2>1. thread'[t].pc = "append" /\ \A u \in Threads \ {t} : thread'[u] = thread[u]
    BY <1>3, ThreadMoves
  <2>2. Appending' = Appending \cup {t} /\ Appending' \subseteq Threads
    BY <2>1 DEF Appending, At
  <2>3. Cardinality(Appending') \in Nat /\ Cardinality(Appending') <= Cardinality(Threads)
    BY <2>2, MeterAssumption, FS_Subset, FS_CardinalityType
  <2> QED
    BY <1>3, <1>n, <2>3, AppendingCounts, MeterAssumption DEF RoomFound
<1>4. ASSUME NEW t \in Threads, EnqueueAppends(t) PROVE RoomFound'
  <2>1. thread[t].pc = "append" /\ Goes(t, "length") /\ buffered' = Append(buffered, thread[t].event)
    BY <1>4 DEF EnqueueAppends, At
  <2>2. thread'[t].pc = "length" /\ \A u \in Threads \ {t} : thread'[u] = thread[u]
    BY <2>1, ThreadMoves
  <2>3. t \in Appending /\ Appending' = Appending \ {t}
    BY <2>1, <2>2 DEF Appending, At
  <2>4. Cardinality(Appending') = Cardinality(Appending) - 1
    BY <2>3, AppendingCounts, FS_RemoveElement
  <2>5. Len(buffered') = Len(buffered) + 1
    BY <2>1 DEF MeterTypeOK
  <2>6. ASSUME "enqueues" \notin met PROVE Appending' = {}
    <3>1. ASSUME NEW u \in Threads, u # t, thread[u].pc = "append" PROVE FALSE
      <4>1. "enqueues" \in Meetings
        BY <2>1, <3>1 DEF Meetings, Enqueuing, Entering
      <4> QED
        BY <2>6, <4>1
    <3> QED
      BY <2>3, <3>1 DEF Appending, At
  <2>7. ASSUME "enqueues" \notin met' PROVE Len(buffered') <= MaxEvents /\ Appending' = {}
    BY <1>n, <2>3, <2>5, <2>6, <2>7 DEF RoomFound
  <2> QED
    BY <1>n, <2>4, <2>5, <2>7, AppendingCounts DEF RoomFound
<1>5. ASSUME NEW t \in Threads, NEW e \in Events, EnqueueStarts(t, e) PROVE RoomFound'
  <2>1. /\ buffered' = buffered /\ thread[t].pc = "idle"
        /\ thread'[t] = [pc |-> "called", event |-> e, at |-> now]
        /\ \A u \in Threads \ {t} : thread'[u] = thread[u]
    BY <1>5 DEF EnqueueStarts, At, MeterTypeOK, queueVars
  <2>2. thread'[t].pc = "called"
    BY <2>1
  <2> QED
    BY <1>2, <1>n, <2>1, <2>2
<1>6. ASSUME NEW t \in Threads, EnqueueTests(t) PROVE RoomFound'
  <2>1. buffered' = buffered /\ thread[t].pc # "append"
    BY <1>6 DEF EnqueueTests, At, queueVars
  <2>2. CASE thread[t].pc = "depth" /\ Goes(t, "append") /\ ~Overfull
    BY <1>3, <1>n, <2>1, <2>2, MeterAssumption DEF Overfull
  <2>3. CASE Exits(t) \/ \E pc \in Enqueuing \ {"append"} : Goes(t, pc)
    <3>1. thread'[t].pc # "append" /\ \A u \in Threads \ {t} : thread'[u] = thread[u]
      BY <2>3, ThreadMoves
    <3> QED
      BY <1>2, <1>n, <2>1, <3>1
  <2> QED
    BY <1>6, <2>2, <2>3 DEF EnqueueTests, At, Enqueuing, Entering
<1>7. ASSUME NEW t \in Threads, EnqueueSetsState(t) \/ EnqueueSetsDeadline(t) \/ DrainStarts(t)
                                \/ DrainTests(t) \/ DrainOpens(t) \/ DrainClears(t)
      PROVE  RoomFound'
  <2>1. Exits(t) \/ \E pc \in {"started", "loop", "open", "pop", "clear"} : Goes(t, pc)
    BY <1>7 DEF EnqueueSetsState, EnqueueSetsDeadline, DrainStarts, DrainTests, DrainOpens, DrainClears
  <2>2. thread'[t].pc # "append" /\ \A u \in Threads \ {t} : thread'[u] = thread[u]
    BY <2>1, ThreadMoves
  <2>3. buffered' = buffered /\ thread[t].pc # "append"
    BY <1>7 DEF EnqueueSetsState, EnqueueSetsDeadline, DrainStarts, DrainTests, DrainOpens,
                DrainClears, At, queueVars
  <2> QED
    BY <1>2, <1>n, <2>2, <2>3
<1>8. ASSUME NEW t \in Threads, DrainPops(t) PROVE RoomFound'
  <2>1. thread[t].pc = "pop"
    BY <1>8 DEF DrainPops, At
  <2>2. CASE buffered = << >>
    <3>1. Exits(t) /\ buffered' = buffered
      BY <1>8, <2>2 DEF DrainPops
    <3> QED
      BY <1>2, <1>n, <2>1, <3>1, ThreadMoves
  <2>3. CASE buffered # << >>
    <3>1. /\ thread'[t].pc = "send" /\ \A u \in Threads \ {t} : thread'[u] = thread[u]
          /\ buffered' = Tail(buffered)
      BY <1>8, <2>3 DEF DrainPops, Remaining, MeterTypeOK
    <3>2. Len(buffered') <= Len(buffered)
      BY <2>3, <3>1, HeadTailProperties DEF MeterTypeOK
    <3> QED
      BY <1>2, <2>1, <3>1, <3>2
  <2> QED
    BY <2>2, <2>3
<1>9. ASSUME NEW t \in Threads, SendReturns(t) \/ SendRaises(t) PROVE RoomFound'
  <2>1. buffered' = buffered /\ thread[t].pc = "send"
    BY <1>9 DEF SendReturns, SendRaises, Sent, At, queueVars
  <2>2. thread'[t].pc # "append" /\ \A u \in Threads \ {t} : thread'[u] = thread[u]
    <3>1. CASE SendReturns(t)
      <4>1. [Resting EXCEPT !.pc = "loop"].pc = "loop"
        BY DEF Resting
      <4> QED
        BY <3>1, <4>1 DEF SendReturns, MeterTypeOK
    <3>2. CASE SendRaises(t)
      BY <3>2, ThreadMoves DEF SendRaises
    <3> QED
      BY <1>9, <3>1, <3>2
  <2> QED
    BY <1>2, <1>n, <2>1, <2>2
<1> QED
  <2>1. UNCHANGED meterVars \/ Tick \/ MarkDegraded => UNCHANGED <<buffered, thread>>
    BY DEF Tick, MarkDegraded, meterVars, queueVars
  <2> QED
    BY <1>1, <1>4, <1>5, <1>6, <1>7, <1>8, <1>9, <2>1 DEF MeterNext, EnqueueSteps, Drain

-----------------------------------------------------------------------------
(* The deadline.                                                           *)

\* While no enqueue meets a drain outside of its send.
Apart(t) == thread[t].pc \in Enqueuing => \A u \in Threads : thread[u].pc \notin Moving

LEMMA ApartFromDrains ==
  ASSUME Meetings \subseteq met, "drain" \notin met, NEW t \in Threads
  PROVE  Apart(t)
<1>1. ASSUME thread[t].pc \in Enqueuing, NEW u \in Threads, thread[u].pc \in Moving PROVE FALSE
  <2>1. t # u
    BY <1>1 DEF Enqueuing, Entering, Moving
  <2>2. "drain" \in Meetings
    BY <1>1, <2>1 DEF Meetings
  <2> QED
    BY <2>2
<1> QED
  BY <1>1 DEF Apart

LEMMA DeadlineStep ==
  ASSUME MeterTypeOK, MeterTypeOK', CallsHaveTheirs, Meetings \subseteq met, DeadlineSet,
         MeterNext
  PROVE  DeadlineSet'
<1> SUFFICES ASSUME "drain" \notin met' PROVE DeadlineSet'
  BY DEF DeadlineSet
<1>m. "drain" \notin met /\ met \subseteq met' /\ Meetings' \subseteq met'
  BY DEF MeterNext
<1>p. /\ \A u \in Threads : Apart(u)
      /\ Threshold \in Nat \ {0} /\ Len(buffered) \in Nat /\ NoEvent \notin Nat
  BY <1>m, ApartFromDrains, MeterAssumption DEF MeterTypeOK
<1>d. /\ state = "open" => since = NoEvent \/ \E u \in Threads : At(u, "clear")
      /\ state = "buffering" => since # NoEvent \/ \E u \in Threads : thread[u].pc \in {"started", "start"}
      /\ \A u \in Threads :
           /\ thread[u].pc \in {"open", "clear"} => buffered = << >>
           /\ At(u, "clear") => state # "buffering"
           /\ thread[u].pc \in {"buffering", "started", "start"} => Len(buffered) >= Threshold
           /\ thread[u].pc \in {"started", "start"} => state # "open"
      /\ Len(buffered) >= Threshold =>
           \/ since # NoEvent
           \/ \E u \in Threads : thread[u].pc \in {"length", "buffering", "started", "start"}
      /\ raised = {} /\ since # NoEvent /\ Len(buffered) < Threshold => WillReset
  BY <1>m DEF DeadlineSet
<1>1. CASE Tick \/ MarkDegraded
  <2>1. /\ UNCHANGED <<buffered, since, thread, raised>> /\ state' \in {state, "degraded"}
        /\ WillReset' = WillReset
    BY <1>1 DEF Tick, MarkDegraded, queueVars, sendVars, WillReset, At
  <2> QED
    BY <1>d, <2>1 DEF DeadlineSet, At
<1>2. ASSUME NEW t \in Threads, NEW e \in Events, EnqueueStarts(t, e) PROVE DeadlineSet'
  <2>1. /\ UNCHANGED <<buffered, state, since, raised>> /\ thread[t].pc = "idle"
        /\ thread'[t] = [pc |-> "called", event |-> e, at |-> now]
        /\ \A u \in Threads \ {t} : thread'[u] = thread[u]
    BY <1>2 DEF EnqueueStarts, At, MeterTypeOK, queueVars, sendVars
  <2>2. thread'[t].pc = "called"
    BY <2>1
  <2>3. WillReset => WillReset'
    BY <2>1, <2>2 DEF WillReset, At
  <2> QED
    BY <1>d, <2>1, <2>2, <2>3 DEF DeadlineSet, At
<1>3. ASSUME NEW t \in Threads, EnqueueTests(t) PROVE DeadlineSet'
  <2>1. UNCHANGED <<buffered, state, since, raised>>
    BY <1>3 DEF EnqueueTests, queueVars, sendVars
  <2>2. thread[t].pc \in {"called", "date", "due", "depth", "length", "started"}
    BY <1>3 DEF EnqueueTests, At
  <2>3. /\ \A u \in Threads \ {t} : thread'[u] = thread[u]
        /\ thread'[t].pc \in {"idle", "date", "due", "depth", "close", "append", "buffering", "start"}
    BY <1>3, ThreadMoves DEF EnqueueTests
  <2>4. thread'[t].pc = "buffering" => Len(buffered) >= Threshold
    BY <1>3, ThreadMoves DEF EnqueueTests, At
  <2>5. thread'[t].pc = "start" => thread[t].pc = "started"
    BY <1>3, ThreadMoves DEF EnqueueTests, At
  <2>6. thread[t].pc = "started" => since # NoEvent \/ thread'[t].pc = "start"
    BY <1>3, ThreadMoves DEF EnqueueTests, At
  <2>7. thread[t].pc = "length" => Len(buffered) < Threshold \/ thread'[t].pc = "buffering"
    BY <1>3, ThreadMoves DEF EnqueueTests, At
  <2>8. WillReset => WillReset'
    BY <2>1, <2>2, <2>3 DEF WillReset, At
  <2>9. state = "open" => since = NoEvent \/ \E u \in Threads : At(u, "clear")'
    BY <1>d, <2>2, <2>3 DEF At
  <2>10. state = "buffering" => since # NoEvent \/ \E u \in Threads : thread'[u].pc \in {"started", "start"}
    BY <1>d, <2>2, <2>3, <2>6
  <2>11. \A u \in Threads :
           /\ thread'[u].pc \in {"open", "clear"} => buffered = << >>
           /\ At(u, "clear")' => state # "buffering"
           /\ thread'[u].pc \in {"buffering", "started", "start"} => Len(buffered) >= Threshold
           /\ thread'[u].pc \in {"started", "start"} => state # "open"
    BY <1>d, <2>3, <2>4, <2>5 DEF At
  <2>12. Len(buffered) >= Threshold =>
           \/ since # NoEvent
           \/ \E u \in Threads : thread'[u].pc \in {"length", "buffering", "started", "start"}
    BY <1>d, <1>p, <2>2, <2>3, <2>6, <2>7
  <2>13. raised = {} /\ since # NoEvent /\ Len(buffered) < Threshold => WillReset'
    BY <1>d, <2>8
  <2> QED
    BY <2>1, <2>9, <2>10, <2>11, <2>12, <2>13 DEF DeadlineSet
<1>4. ASSUME NEW t \in Threads, EnqueueAppends(t) PROVE DeadlineSet'
  <2>1. /\ thread[t].pc = "append" /\ Goes(t, "length") /\ UNCHANGED <<state, since, raised>>
        /\ buffered' = Append(buffered, thread[t].event)
    BY <1>4 DEF EnqueueAppends, At, sendVars
  <2>2. thread'[t].pc = "length" /\ \A u \in Threads \ {t} : thread'[u] = thread[u]
    BY <2>1, ThreadMoves
  <2>3. \A u \in Threads : thread[u].pc \notin Moving /\ thread'[u].pc \notin Moving
    BY <1>p, <2>1, <2>2 DEF Apart, Enqueuing, Entering, Moving
  <2>4. Len(buffered') = Len(buffered) + 1
    BY <2>1 DEF MeterTypeOK
  <2>5. WillReset => WillReset'
    BY <2>1, <2>2, <2>3 DEF WillReset, At, Moving
  <2>6. /\ state = "open" => since = NoEvent
        /\ state = "buffering" => since # NoEvent \/ \E u \in Threads : thread'[u].pc \in {"started", "start"}
    BY <1>d, <2>1, <2>2, <2>3 DEF At, Moving
  <2>7. \A u \in Threads :
           /\ thread'[u].pc \notin {"open", "clear"} /\ ~At(u, "clear")'
           /\ thread'[u].pc \in {"buffering", "started", "start"} => Len(buffered') >= Threshold
           /\ thread'[u].pc \in {"started", "start"} => state # "open"
    BY <1>d, <1>p, <2>2, <2>3, <2>4 DEF At, Moving
  <2>8. raised = {} /\ since # NoEvent /\ Len(buffered') < Threshold => WillReset'
    BY <1>d, <1>p, <2>4, <2>5
  <2> QED
    BY <2>1, <2>2, <2>6, <2>7, <2>8 DEF DeadlineSet
<1>5. ASSUME NEW t \in Threads, EnqueueSetsState(t) PROVE DeadlineSet'
  <2>1. UNCHANGED <<buffered, since, raised>>
    BY <1>5 DEF EnqueueSetsState, queueVars, sendVars
  <2>2. \/ thread[t].pc = "close" /\ state' = "fail_closed" /\ thread'[t].pc = "idle"
        \/ thread[t].pc = "buffering" /\ state' = "buffering" /\ thread'[t].pc = "started"
    BY <1>5, ThreadMoves DEF EnqueueSetsState, At
  <2>3. \A u \in Threads \ {t} : thread'[u] = thread[u]
    BY <1>5, ThreadMoves DEF EnqueueSetsState
  <2>4. \A u \in Threads : thread[u].pc \notin Moving /\ thread'[u].pc \notin Moving
    BY <1>p, <2>2, <2>3 DEF Apart, Enqueuing, Entering, Moving
  <2>5. WillReset => WillReset'
    BY <2>1, <2>2, <2>3 DEF WillReset, At
  <2>6. \A u \in Threads :
           /\ thread'[u].pc \notin {"open", "clear"} /\ ~At(u, "clear")'
           /\ thread'[u].pc \in {"buffering", "started", "start"} => Len(buffered) >= Threshold
           /\ state' # "open"
    BY <1>d, <2>2, <2>3, <2>4 DEF At, Moving
  <2>7. state' = "buffering" => \E u \in Threads : thread'[u].pc \in {"started", "start"}
    BY <2>2
  <2>8. Len(buffered) >= Threshold =>
           \/ since # NoEvent
           \/ \E u \in Threads : thread'[u].pc \in {"length", "buffering", "started", "start"}
    BY <1>d, <2>2, <2>3
  <2>9. state' # "open"
    BY <2>2
  <2> QED
    BY <1>d, <2>1, <2>5, <2>6, <2>7, <2>8, <2>9 DEF DeadlineSet
<1>6. ASSUME NEW t \in Threads, EnqueueSetsDeadline(t) PROVE DeadlineSet'
  <2>1. /\ UNCHANGED <<buffered, state, raised>> /\ thread[t].pc = "start"
        /\ since' = thread[t].at /\ Exits(t)
    BY <1>6 DEF EnqueueSetsDeadline, At, queueVars, sendVars
  <2>2. since' # NoEvent
    BY <1>p, <2>1 DEF CallsHaveTheirs, Enqueuing
  <2>3. thread'[t].pc = "idle" /\ \A u \in Threads \ {t} : thread'[u] = thread[u]
    BY <2>1, ThreadMoves
  <2>4. Len(buffered) >= Threshold /\ state # "open"
    BY <1>d, <2>1
  <2>5. \A u \in Threads :
           /\ thread'[u].pc \in {"open", "clear"} => buffered = << >>
           /\ At(u, "clear")' => state # "buffering"
           /\ thread'[u].pc \in {"buffering", "started", "start"} => Len(buffered) >= Threshold
           /\ thread'[u].pc \in {"started", "start"} => state # "open"
    BY <1>d, <2>3 DEF At
  <2> QED
    BY <1>p, <2>1, <2>2, <2>4, <2>5 DEF DeadlineSet
<1>7. ASSUME NEW t \in Threads, DrainStarts(t) \/ DrainTests(t) PROVE DeadlineSet'
  <2>1. UNCHANGED <<buffered, state, since, raised>>
    BY <1>7 DEF DrainStarts, DrainTests, queueVars, sendVars
  <2>2. /\ \A u \in Threads \ {t} : thread'[u] = thread[u]
        /\ thread[t].pc \in {"idle", "loop"}
        /\ \/ thread'[t].pc = "loop"
           \/ thread'[t].pc = "open" /\ buffered = << >>
           \/ thread'[t].pc = "pop" /\ buffered # << >>
    BY <1>7, ThreadMoves DEF DrainStarts, DrainTests, At
  <2>3. WillReset'
    BY <2>1, <2>2 DEF WillReset, At
  <2>4. \A u \in Threads :
           /\ thread'[u].pc \in {"open", "clear"} => buffered = << >>
           /\ At(u, "clear")' => state # "buffering"
           /\ thread'[u].pc \in {"buffering", "started", "start"} => Len(buffered) >= Threshold
           /\ thread'[u].pc \in {"started", "start"} => state # "open"
    BY <1>d, <2>2 DEF At
  <2>5. state = "open" => since = NoEvent \/ \E u \in Threads : At(u, "clear")'
    BY <1>d, <2>2 DEF At
  <2>6. /\ state = "buffering" => since # NoEvent \/ \E u \in Threads : thread'[u].pc \in {"started", "start"}
        /\ Len(buffered) >= Threshold =>
             \/ since # NoEvent
             \/ \E u \in Threads : thread'[u].pc \in {"length", "buffering", "started", "start"}
    BY <1>d, <2>2
  <2> QED
    BY <2>1, <2>3, <2>4, <2>5, <2>6 DEF DeadlineSet
<1>8. ASSUME NEW t \in Threads, DrainPops(t) PROVE DeadlineSet'
  <2>0. thread[t].pc = "pop" /\ UNCHANGED <<state, since, raised>>
    BY <1>8 DEF DrainPops, At, sendVars
  <2>e. \A u \in Threads : thread[u].pc \notin Enqueuing
    BY <1>p, <2>0 DEF Apart, Moving
  <2>1. CASE buffered = << >>
    <3>1. buffered' = buffered /\ thread'[t].pc = "idle" /\ \A u \in Threads \ {t} : thread'[u] = thread[u]
      BY <1>8, <2>1, ThreadMoves DEF DrainPops
    <3>2. WillReset => WillReset'
      BY <2>0, <2>1, <3>1 DEF WillReset, At
    <3>3. \A u \in Threads :
             /\ thread'[u].pc \in {"open", "clear"} => buffered = << >>
             /\ At(u, "clear")' => state # "buffering"
             /\ thread'[u].pc \in {"buffering", "started", "start"} => Len(buffered) >= Threshold
             /\ thread'[u].pc \in {"started", "start"} => state # "open"
      BY <1>d, <3>1 DEF At
    <3>4. state = "open" => since = NoEvent \/ \E u \in Threads : At(u, "clear")'
      BY <1>d, <2>0, <3>1 DEF At
    <3>5. /\ state = "buffering" => since # NoEvent
          /\ Len(buffered) >= Threshold => since # NoEvent
      BY <1>d, <2>e DEF Enqueuing
    <3> QED
      BY <1>d, <2>0, <3>1, <3>2, <3>3, <3>4, <3>5 DEF DeadlineSet
  <2>2. CASE buffered # << >>
    <3>1. /\ buffered' = Tail(buffered) /\ thread'[t].pc = "send"
          /\ \A u \in Threads \ {t} : thread'[u] = thread[u]
      BY <1>8, <2>2 DEF DrainPops, Remaining, MeterTypeOK
    <3>2. WillReset'
      BY <3>1 DEF WillReset
    <3>3. \A u \in Threads : thread'[u].pc \notin {"open", "clear"} \cup Enqueuing
      BY <1>d, <2>2, <2>e, <3>1 DEF Enqueuing, Entering
    <3>4. state = "open" => since = NoEvent
      BY <1>d, <2>2 DEF At
    <3>5. /\ state = "buffering" => since # NoEvent
          /\ Len(buffered) >= Threshold => since # NoEvent
      BY <1>d, <2>e DEF Enqueuing
    <3>6. Len(buffered') = Len(buffered) - 1
      BY <2>2, <3>1, HeadTailProperties DEF MeterTypeOK
    <3>7. Len(buffered') >= Threshold => since # NoEvent
      BY <1>p, <3>5, <3>6
    <3> QED
      BY <2>0, <3>2, <3>3, <3>4, <3>5, <3>7 DEF DeadlineSet, At, Enqueuing
  <2> QED
    BY <2>1, <2>2
<1>9. ASSUME NEW t \in Threads, SendReturns(t) \/ SendRaises(t) PROVE DeadlineSet'
  <2>1. UNCHANGED <<buffered, state, since>> /\ thread[t].pc = "send"
    BY <1>9 DEF SendReturns, SendRaises, Sent, At, queueVars
  <2>2. \/ thread'[t].pc = "loop" /\ raised' = raised
        \/ thread'[t].pc = "idle" /\ raised' # {}
    <3>1. CASE SendReturns(t)
      <4>1. [Resting EXCEPT !.pc = "loop"].pc = "loop"
        BY DEF Resting
      <4> QED
        BY <3>1, <4>1 DEF SendReturns, MeterTypeOK
    <3>2. CASE SendRaises(t)
      BY <3>2, ThreadMoves DEF SendRaises
    <3> QED
      BY <1>9, <3>1, <3>2
  <2>3. \A u \in Threads \ {t} : thread'[u] = thread[u]
    BY <1>9, ThreadMoves DEF SendReturns, SendRaises, MeterTypeOK
  <2>4. raised' = {} => WillReset'
    BY <2>2 DEF WillReset
  <2>5. \A u \in Threads :
           /\ thread'[u].pc \in {"open", "clear"} => buffered = << >>
           /\ At(u, "clear")' => state # "buffering"
           /\ thread'[u].pc \in {"buffering", "started", "start"} => Len(buffered) >= Threshold
           /\ thread'[u].pc \in {"started", "start"} => state # "open"
    BY <1>d, <2>2, <2>3 DEF At
  <2>6. state = "open" => since = NoEvent \/ \E u \in Threads : At(u, "clear")'
    BY <1>d, <2>1, <2>3 DEF At
  <2>7. /\ state = "buffering" => since # NoEvent \/ \E u \in Threads : thread'[u].pc \in {"started", "start"}
        /\ Len(buffered) >= Threshold =>
             \/ since # NoEvent
             \/ \E u \in Threads : thread'[u].pc \in {"length", "buffering", "started", "start"}
    BY <1>d, <2>1, <2>3
  <2> QED
    BY <2>1, <2>4, <2>5, <2>6, <2>7 DEF DeadlineSet
<1>10. ASSUME NEW t \in Threads, DrainOpens(t) \/ DrainClears(t) PROVE DeadlineSet'
  <2>1. /\ UNCHANGED <<buffered, raised>> /\ thread[t].pc \in {"open", "clear"}
        /\ \A u \in Threads \ {t} : thread'[u] = thread[u]
        /\ \/ thread'[t].pc = "clear" /\ state' = "open" /\ since' = since
           \/ thread'[t].pc = "idle" /\ since' = NoEvent /\ state' = state /\ state # "buffering"
    BY <1>10, <1>d, ThreadMoves DEF DrainOpens, DrainClears, At, queueVars, sendVars
  <2>2. buffered = << >> /\ \A u \in Threads : thread[u].pc \notin Enqueuing
    BY <1>d, <1>p, <2>1 DEF Apart, Moving
  <2>3. Len(buffered) < Threshold
    BY <1>p, <2>2
  <2>4. /\ state' = "open" => since' = NoEvent \/ \E u \in Threads : At(u, "clear")'
        /\ state' # "buffering"
    BY <2>1 DEF At
  <2>5. \A u \in Threads : thread'[u].pc \notin {"buffering", "started", "start"}
    BY <2>1, <2>2 DEF Enqueuing
  <2>6. since' # NoEvent => WillReset'
    BY <2>1 DEF WillReset
  <2> QED
    BY <1>p, <2>1, <2>2, <2>3, <2>4, <2>5, <2>6 DEF DeadlineSet
<1> QED
  BY <1>1, <1>2, <1>3, <1>4, <1>5, <1>6, <1>7, <1>8, <1>9, <1>10 DEF MeterNext, EnqueueSteps, Drain

-----------------------------------------------------------------------------
(* What the buffer refuses.                                                *)

LEMMA InTimeStep ==
  ASSUME MeterTypeOK, CallsHaveTheirs, Meetings \subseteq met, InTime, [MeterNext]_meterVars
  PROVE  InTime'
<1> SUFFICES ASSUME NEW t \in Threads, thread'[t].pc \in {"depth", "append"},
                    "enqueues" \notin met', since' # NoEvent
             PROVE  thread'[t].at <= since' + Deadline
  BY DEF InTime
<1>m. "enqueues" \notin met
  BY DEF MeterNext, meterVars
<1>1. ASSUME NEW u \in Threads, EnqueueSetsDeadline(u) PROVE FALSE
  <2>1. /\ thread[u].pc = "start" /\ thread'[u].pc = "idle"
        /\ \A w \in Threads \ {u} : thread'[w] = thread[w]
    BY <1>1, ThreadMoves DEF EnqueueSetsDeadline, At
  <2>2. t # u /\ thread[t].pc \in Enqueuing /\ thread[u].pc \in Enqueuing
    BY <2>1 DEF Enqueuing, Entering
  <2>3. "enqueues" \in Meetings
    BY <2>2 DEF Meetings
  <2> QED
    BY <1>m, <2>3
<1>2. since' = since
  BY <1>1 DEF MeterNext, EnqueueSteps, Drain, Tick, MarkDegraded, EnqueueStarts, EnqueueTests,
     EnqueueAppends, EnqueueSetsState, DrainStarts, DrainTests, DrainPops, SendReturns,
     SendRaises, DrainOpens, DrainClears, meterVars
<1>3. CASE thread'[t] = thread[t]
  BY <1>m, <1>2, <1>3 DEF InTime
<1>4. CASE thread'[t] # thread[t]
  <2>1. PICK u \in Threads : (\E e \in Events : EnqueueStarts(u, e)) \/ EnqueueSteps(u) \/ Drain(u)
    BY <1>4 DEF MeterNext, Tick, MarkDegraded, meterVars
  <2>2. /\ \A w \in Threads \ {u} : thread'[w] = thread[w]
        /\ thread'[u].pc \in {"depth", "append"} => EnqueueTests(u)
    <3>1. CASE \E e \in Events : EnqueueStarts(u, e)
      <4>1. PICK e \in Events : thread' = [thread EXCEPT ![u] = [pc |-> "called", event |-> e, at |-> now]]
        BY <3>1 DEF EnqueueStarts
      <4>2. thread'[u] = [pc |-> "called", event |-> e, at |-> now]
        BY <4>1 DEF MeterTypeOK
      <4>3. thread'[u].pc = "called"
        BY <4>2
      <4> QED
        BY <4>1, <4>3 DEF MeterTypeOK
    <3>2. CASE EnqueueTests(u)
      BY <3>2, ThreadMoves DEF EnqueueTests
    <3>3. CASE EnqueueAppends(u) \/ EnqueueSetsState(u) \/ EnqueueSetsDeadline(u) \/ DrainStarts(u)
               \/ DrainTests(u) \/ DrainOpens(u) \/ DrainClears(u)
      <4>1. Exits(u) \/ \E pc \in {"length", "started", "loop", "open", "pop", "clear"} : Goes(u, pc)
        BY <3>3 DEF EnqueueAppends, EnqueueSetsState, EnqueueSetsDeadline, DrainStarts, DrainTests,
                    DrainOpens, DrainClears
      <4> QED
        BY <4>1, ThreadMoves
    <3>4. CASE DrainPops(u)
      <4>1. Exits(u) \/ thread' = [thread EXCEPT ![u].pc = "send", ![u].event = Head(buffered)]
        BY <3>4 DEF DrainPops
      <4>2. CASE Exits(u)
        BY <4>2, ThreadMoves
      <4>3. CASE thread' = [thread EXCEPT ![u].pc = "send", ![u].event = Head(buffered)]
        BY <4>3 DEF MeterTypeOK
      <4> QED
        BY <4>1, <4>2, <4>3
    <3>5. CASE SendReturns(u) \/ SendRaises(u)
      <4>1. [Resting EXCEPT !.pc = "loop"].pc = "loop"
        BY DEF Resting
      <4>2. CASE SendReturns(u)
        BY <4>1, <4>2 DEF SendReturns, MeterTypeOK
      <4>3. CASE SendRaises(u)
        BY <4>3, ThreadMoves DEF SendRaises
      <4> QED
        BY <3>5, <4>2, <4>3
    <3> QED
      BY <2>1, <3>1, <3>2, <3>3, <3>4, <3>5 DEF EnqueueSteps, Drain
  <2>3. u = t /\ EnqueueTests(t)
    BY <1>4, <2>2
  <2>4. thread'[t].at = thread[t].at
    BY <2>3, ThreadMoves DEF EnqueueTests
  <2>5. CASE thread[t].pc = "depth"
    BY <1>m, <1>2, <2>4, <2>5 DEF InTime
  <2>6. CASE thread[t].pc = "date" /\ thread'[t].pc = "depth"
    <3>1. since = NoEvent
      BY <2>3, <2>6, ThreadMoves DEF EnqueueTests, At
    <3> QED
      BY <1>2, <3>1
  <2>7. CASE thread[t].pc = "due" /\ since # NoEvent /\ ~TooLate(t)
    <3>1. thread[t].at <= since + Deadline \/ thread[t].at > since + Deadline
      <4>1. since \in Nat
        BY <2>7 DEF MeterTypeOK
      <4>2. thread[t].at \in Nat
        BY <2>7 DEF CallsHaveTheirs, Enqueuing, Entering
      <4> QED
        BY <4>1, <4>2, MeterAssumption
    <3> QED
      BY <1>2, <2>4, <2>7, <3>1 DEF TooLate
  <2>8. thread[t].pc = "depth" \/ (thread[t].pc = "date" /\ thread'[t].pc = "depth")
        \/ (thread[t].pc = "due" /\ since # NoEvent /\ ~TooLate(t))
    BY <2>3, ThreadMoves DEF EnqueueTests, At
  <2> QED
    BY <2>5, <2>6, <2>7, <2>8
<1> QED
  BY <1>3, <1>4

(***************************************************************************)
(* The inductive invariant holds of every behaviour of the buffer.         *)
(***************************************************************************)
THEOREM BufferInvariant == MeterSpec => []BufferInv
<1>1. MeterInit => BufferInv
  <2> SUFFICES ASSUME MeterInit PROVE BufferInv
    OBVIOUS
  <2>1. /\ buffered = << >> /\ Len(buffered) = 0 /\ DOMAIN buffered = {} /\ since = NoEvent
        /\ admitted = {} /\ recorded = {} /\ fallen = {} /\ raised = {} /\ met = {} /\ state = "open"
        /\ \A t \in Threads : thread[t] = Resting
    BY DEF MeterInit
  <2>2. \A t \in Threads : thread[t].pc = "idle"
    BY <2>1 DEF Resting
  <2>3. MeterTypeOK
    <3>1. thread \in [Threads -> [pc : Enqueuing \cup Moving \cup {"idle", "send"},
                                  event : Events \cup {NoEvent}, at : Nat \cup {NoEvent}]]
      BY DEF MeterInit, Resting
    <3> QED
      BY <2>1, <3>1 DEF MeterInit, MeterTypeOK
  <2>4. Held = {} /\ InSend = {} /\ Appending = {} /\ Meetings = {}
    BY <2>1, <2>2 DEF Held, InSend, Appending, Meetings, Sent, At, Enqueuing, Entering
  <2>5. EventsAccounted /\ CallsHaveTheirs
    BY <2>1, <2>2, <2>4 DEF EventsAccounted, CallsHaveTheirs, Sent, At, Enqueuing, Entering
  <2>6. RoomFound
    BY <2>1, <2>4, AppendingCounts, MeterAssumption, FS_EmptySet DEF RoomFound
  <2>7. DeadlineSet /\ InTime
    BY <2>1, <2>2, MeterAssumption DEF DeadlineSet, InTime, At
  <2> QED
    BY <2>3, <2>4, <2>5, <2>6, <2>7 DEF BufferInv
<1>2. BufferInv /\ [MeterNext]_meterVars => BufferInv'
  <2> SUFFICES ASSUME BufferInv, [MeterNext]_meterVars PROVE BufferInv'
    OBVIOUS
  <2>1. MeterTypeOK'
    BY MeterTypeStep DEF BufferInv
  <2>2. EventsAccounted' /\ CallsHaveTheirs'
    BY AccountStep DEF BufferInv, Accounted
  <2>3. RoomFound' /\ InTime'
    BY <2>1, RoomStep, InTimeStep DEF BufferInv
  <2>4. Meetings' \subseteq met' /\ DeadlineSet'
    <3>1. CASE MeterNext
      BY <2>1, <3>1, DeadlineStep DEF BufferInv, MeterNext
    <3>2. CASE UNCHANGED meterVars
      BY <3>2 DEF BufferInv, Meetings, DeadlineSet, WillReset, At, meterVars, queueVars, sendVars
    <3> QED
      BY <3>1, <3>2
  <2> QED
    BY <2>1, <2>2, <2>3, <2>4 DEF BufferInv
<1> QED
  BY <1>1, <1>2, PTL DEF MeterSpec

\* The buffer's state has its type.
THEOREM MeterTypeCorrect == MeterSpec => []MeterTypeOK
<1>1. BufferInv => MeterTypeOK
  BY DEF BufferInv
<1> QED
  BY <1>1, BufferInvariant, PTL

(***************************************************************************)
(* The buffer keeps max_events while no two enqueues overlap, and exceeds  *)
(* it by less than the number of threads, however drains fail, pop an      *)
(* empty buffer, and events come back.                                     *)
(***************************************************************************)
THEOREM BufferKeepsLimit == MeterSpec => []DepthBounded
<1>1. BufferInv => DepthBounded
  <2> SUFFICES ASSUME BufferInv PROVE DepthBounded
    OBVIOUS
  <2>1. Len(buffered) \in Nat /\ MaxEvents \in Nat
    BY MeterAssumption DEF BufferInv, MeterTypeOK
  <2> QED
    BY <2>1, AppendingCounts DEF BufferInv, RoomFound, DepthBounded
<1> QED
  BY <1>1, BufferInvariant, PTL

(***************************************************************************)
(* For any number of threads that enqueue and drain, with a step for each  *)
(* access to the queue: no admitted event is lost, none waits or is sent   *)
(* in two places, and one that is recorded waits or is sent again only if  *)
(* a send of it has raised.                                                *)
(***************************************************************************)
THEOREM NoEventLost == MeterSpec => []EventsAccounted
<1>1. BufferInv => EventsAccounted
  BY DEF BufferInv
<1> QED
  BY <1>1, BufferInvariant, PTL

(***************************************************************************)
(* Between calls the deadline runs while the buffer is at its threshold,   *)
(* until a send raises or an enqueue meets a drain outside of its send.    *)
(***************************************************************************)
THEOREM DeadlineIsRight == MeterSpec => []DeadlineRuns
<1>1. BufferInv => DeadlineRuns
  <2> SUFFICES ASSUME BufferInv, "drain" \notin met, Quiet
               PROVE  /\ state = "open" => since = NoEvent
                      /\ state = "buffering" => since # NoEvent
                      /\ raised = {} => (since # NoEvent <=> Len(buffered) >= Threshold)
    BY DEF DeadlineRuns
  <2>1. \A t \in Threads : thread[t].pc = "idle"
    BY DEF Quiet, At
  <2>2. ~WillReset
    BY <2>1 DEF WillReset, At
  <2>3. Len(buffered) \in Nat /\ Threshold \in Nat
    BY MeterAssumption DEF BufferInv, MeterTypeOK
  <2> QED
    BY <2>1, <2>2, <2>3 DEF BufferInv, DeadlineSet, At
<1> QED
  BY <1>1, BufferInvariant, PTL

\* A buffer that has shut stays shut and lets nothing in once no call is inside.
THEOREM BufferStaysShut == MeterSpec => ShutStays
<1>1. MeterTypeOK /\ [MeterNext]_meterVars =>
        [NoneInside /\ state \in Shut =>
           NoneInside' /\ state' \in Shut /\ buffered' = buffered]_meterVars
  <2> SUFFICES ASSUME MeterTypeOK, MeterNext, NoneInside, state \in Shut
               PROVE  NoneInside' /\ state' \in Shut /\ buffered' = buffered
    OBVIOUS
  <2>1. \A t \in Threads : thread[t].pc \in {"idle", "called"}
    BY DEF NoneInside
  <2>2. ASSUME NEW t \in Threads PROVE ~Drain(t)
    BY <2>1 DEF Drain, DrainStarts, DrainTests, DrainPops, SendReturns, SendRaises, DrainOpens,
                DrainClears, Sent, At
  <2>3. ASSUME NEW t \in Threads, EnqueueSteps(t)
        PROVE  NoneInside' /\ state' \in Shut /\ buffered' = buffered
    <3>1. Exits(t) /\ state' = state /\ buffered' = buffered
      BY <2>1, <2>3 DEF EnqueueSteps, EnqueueTests, EnqueueAppends, EnqueueSetsState,
                        EnqueueSetsDeadline, At, queueVars
    <3> QED
      BY <2>1, <3>1, ThreadMoves DEF NoneInside
  <2>4. ASSUME NEW t \in Threads, NEW e \in Events, EnqueueStarts(t, e)
        PROVE  NoneInside' /\ state' \in Shut /\ buffered' = buffered
    <3>1. /\ thread'[t] = [pc |-> "called", event |-> e, at |-> now]
          /\ \A u \in Threads \ {t} : thread'[u] = thread[u]
      BY <2>4 DEF EnqueueStarts, MeterTypeOK
    <3>2. thread'[t].pc = "called"
      BY <3>1
    <3> QED
      BY <2>1, <2>4, <3>1, <3>2 DEF NoneInside, EnqueueStarts, queueVars
  <2>5. Tick \/ MarkDegraded => NoneInside' /\ state' \in Shut /\ buffered' = buffered
    BY <2>1 DEF Tick, MarkDegraded, NoneInside, Shut, queueVars
  <2> QED
    BY <2>2, <2>3, <2>4, <2>5 DEF MeterNext
<1> QED
  BY <1>1, MeterTypeCorrect, PTL DEF MeterSpec, ShutStays

(***************************************************************************)
(* While no two enqueues have overlapped, no event is let in whose call    *)
(* came after the deadline.                                                *)
(***************************************************************************)
THEOREM LateEventsRefused == MeterSpec => LateRefused
<1>1. BufferInv /\ [MeterNext]_meterVars =>
        [\A t \in Threads :
           At(t, "append") /\ ~At(t, "append")' /\ "enqueues" \notin met /\ since # NoEvent =>
             thread[t].at <= since + Deadline]_meterVars
  BY DEF BufferInv, InTime, At
<1> QED
  BY <1>1, BufferInvariant, PTL DEF MeterSpec, LateRefused

\* All that the buffer promises of the events that it has let in.
THEOREM BufferIsSafe == MeterSpec => []BufferSafe
  BY MeterTypeCorrect, BufferKeepsLimit, NoEventLost, DeadlineIsRight, PTL DEF BufferSafe

\* What the buffer refuses, in every step.
THEOREM BufferKeepsOut == MeterSpec => BufferRefuses
  BY BufferStaysShut, LateEventsRefused, PTL DEF BufferRefuses

-----------------------------------------------------------------------------
(* The gateway's calls.                                                    *)

\* A call that has a key and changes something is seen by its key once effected,
\* and a listing with a payload is never posted.
CallsInv ==
  /\ ask \in [Requests -> Asks]
  /\ client \in [Requests -> {"idle", "posted", "effected", "answered", "lost", "raised"}]
  /\ effects \in [Requests -> Nat]
  /\ \A r \in Requests :
       /\ ask[r].surface \notin Writes => effects[r] = 0
       /\ ask[r].key => effects[r] = 0 \/ (effects[r] = 1 /\ r \in keys)
       /\ ask[r].nested /\ ask[r].surface \in {"publish", "patch_listing"} =>
            client[r] \in {"idle", "raised"} /\ r \notin drafts /\ effects[r] = 0

LEMMA CallsInvStep == CallsInv /\ [CallsNext]_callsVars => CallsInv'
<1> SUFFICES ASSUME CallsInv, [CallsNext]_callsVars PROVE CallsInv'
  OBVIOUS
<1> USE DEF CallsInv
<1>1. ASSUME NEW r \in Requests, SaveDraft(r) PROVE CallsInv'
  BY <1>1 DEF SaveDraft, Raises, ChecksNested
<1>2. ASSUME NEW r \in Requests, DeleteDraft(r) PROVE CallsInv'
  BY <1>2 DEF DeleteDraft
<1>3. ASSUME NEW r \in Requests, Call(r) PROVE CallsInv'
  BY <1>3 DEF Call, Raises, ChecksNested
<1>4. ASSUME NEW r \in Requests, Handled(r) PROVE CallsInv'
  <2>1. UNCHANGED <<ask, drafts>> /\ client[r] = "posted"
        /\ client' = [client EXCEPT ![r] = "effected"] /\ keys \subseteq keys'
    BY <1>4 DEF Handled
  <2>2. CASE ask[r].surface \in Writes /\ ~(SendsKey(r) /\ r \in keys)
    <3>1. effects' = [effects EXCEPT ![r] = @ + 1]
      BY <1>4, <2>2 DEF Handled
    <3>2. ask[r].key => effects[r] = 0 /\ r \in keys'
      BY <1>4, <2>2 DEF Handled, SendsKey
    <3> QED
      BY <2>1, <2>2, <3>1, <3>2
  <2>3. CASE ~(ask[r].surface \in Writes /\ ~(SendsKey(r) /\ r \in keys))
    <3>1. effects' = effects
      BY <1>4, <2>3 DEF Handled
    <3> QED
      BY <2>1, <3>1
  <2> QED
    BY <2>2, <2>3
<1>5. ASSUME NEW r \in Requests, Returns(r) PROVE CallsInv'
  BY <1>5 DEF Returns
<1>6. ASSUME NEW r \in Requests, Breaks(r) PROVE CallsInv'
  BY <1>6 DEF Breaks
<1>7. CASE UNCHANGED callsVars
  BY <1>7 DEF callsVars
<1> QED
  BY <1>1, <1>2, <1>3, <1>4, <1>5, <1>6, <1>7 DEF CallsNext

LEMMA CallsInvariant == CallsSpec => []CallsInv
<1>1. CallsInit => CallsInv
  BY DEF CallsInit, CallsInv
<1> QED
  BY <1>1, CallsInvStep, PTL DEF CallsSpec

\* A call with a key takes effect once, for any number of repetitions.
THEOREM KeysMakeOnce == CallsSpec => []KeyedOnce
<1>1. CallsInv => KeyedOnce
  BY DEF CallsInv, KeyedOnce
<1> QED
  BY <1>1, CallsInvariant, PTL

\* No payload nested in a listing reaches the draft cache or the backend.
THEOREM NoPayloadListed == CallsSpec => []ListingsCarryNoPayload
<1>1. CallsInv => ListingsCarryNoPayload
  BY DEF CallsInv, ListingsCarryNoPayload
<1> QED
  BY <1>1, CallsInvariant, PTL

\* Each call of a client is behind at most one effect, so their number is bounded.
CallsTyped ==
  /\ ask \in [Requests -> Asks]
  /\ client \in [Requests -> {"idle", "posted", "effected", "answered", "lost", "raised"}]
  /\ tries \in [Requests -> 0..MaxTries] /\ effects \in [Requests -> Nat]
  /\ keys \in SUBSET Requests /\ drafts \in SUBSET Requests
  /\ \A r \in Requests : /\ effects[r] <= tries[r]
                         /\ client[r] = "posted" => effects[r] + 1 <= tries[r]

LEMMA CallsTypedStep == CallsTyped /\ [CallsNext]_callsVars => CallsTyped'
<1> SUFFICES ASSUME CallsTyped, [CallsNext]_callsVars PROVE CallsTyped'
  OBVIOUS
<1> USE CallsAssumption DEF CallsTyped
<1>1. ASSUME NEW r \in Requests, SaveDraft(r) PROVE CallsTyped'
  BY <1>1 DEF SaveDraft
<1>2. ASSUME NEW r \in Requests, DeleteDraft(r) PROVE CallsTyped'
  BY <1>2 DEF DeleteDraft
<1>3. ASSUME NEW r \in Requests, Call(r) PROVE CallsTyped'
  BY <1>3 DEF Call
<1>4. ASSUME NEW r \in Requests, Handled(r) PROVE CallsTyped'
  <2>1. /\ UNCHANGED <<ask, tries, drafts>> /\ client[r] = "posted"
        /\ client' = [client EXCEPT ![r] = "effected"] /\ keys' \in SUBSET Requests
    BY <1>4 DEF Handled
  <2>2. effects' = effects \/ effects' = [effects EXCEPT ![r] = @ + 1]
    BY <1>4 DEF Handled
  <2> QED
    BY <2>1, <2>2
<1>5. ASSUME NEW r \in Requests, Returns(r) PROVE CallsTyped'
  BY <1>5 DEF Returns
<1>6. ASSUME NEW r \in Requests, Breaks(r) PROVE CallsTyped'
  BY <1>6 DEF Breaks
<1>7. CASE UNCHANGED callsVars
  BY <1>7 DEF callsVars
<1> QED
  BY <1>1, <1>2, <1>3, <1>4, <1>5, <1>6, <1>7 DEF CallsNext

\* The clients' state has its type, and a request no more effects than calls.
THEOREM CallsTypeCorrect == CallsSpec => []CallsTypeOK
<1>1. CallsInit => CallsTyped
  BY CallsAssumption DEF CallsInit, CallsTyped
<1>2. CallsTyped => CallsTypeOK
  BY CallsAssumption DEF CallsTyped, CallsTypeOK
<1> QED
  BY <1>1, <1>2, CallsTypedStep, PTL DEF CallsSpec

\* All that holds of the gateway's calls, for any requests and repetitions.
THEOREM CallsAreSafe == CallsSpec => []CallsSafe
  BY CallsTypeCorrect, KeysMakeOnce, NoPayloadListed, PTL DEF CallsSafe

-----------------------------------------------------------------------------
(* The connector runtime.                                                  *)

\* The calls between their count and their end, the last one last.
Counted == {order[i] : i \in DOMAIN order}

\* A count of n has been written by n calls that read different numbers.
Earned(n) == \A k \in 0..(n - 1) : \E c \in Invokes : invoke[c].pc # "idle" /\ invoke[c].active = k

RuntimeShape ==
  /\ counted \in [Grants -> Nat]
  /\ invoke \in [Invokes -> [pc : {"idle", "read", "running", "completed", "refused",
                                   "timed out", "partial"},
                             grant : Grants, active : Nat, records : 0..MaxChunks]]
  /\ order \in Seq(Invokes) /\ crossed \in BOOLEAN
  /\ \A g \in Grants : Earned(counted[g])
  /\ \A c \in Invokes : IF invoke[c].pc = "idle" THEN invoke[c].active = 0 ELSE Earned(invoke[c].active)

\* Counted once each, and not before they have read the count.
OrderOnce ==
  /\ \A i, j \in DOMAIN order : order[i] = order[j] => i = j
  /\ \A c \in Counted : invoke[c].pc \notin {"idle", "read"}
  /\ \A c \in Invokes : invoke[c].pc = "running" => c \in Counted

\* What a call read is the number of the calls that its grant had then.
ReadsRight ==
  /\ \A c \in Counted : invoke[c].pc = "running"
  /\ \A i \in DOMAIN order : invoke[order[i]].active = Cardinality(Mates(i))
  /\ \A g \in Grants : counted[g] = Cardinality(Of(g))
  /\ \A c \in Invokes : invoke[c].pc = "read" =>
       /\ invoke[c].active = counted[invoke[c].grant]
       /\ \A d \in Invokes : invoke[d].pc = "read" => d = c

\* A call that was let in read less than its own limit.
LetIn == \A c \in Invokes : invoke[c].pc \in {"read", "running"} => invoke[c].active < GrantLimit[c]

RuntimeInv == RuntimeShape /\ OrderOnce /\ LetIn /\ (~crossed => ReadsRight)

\* No count exceeds the number of calls.
LEMMA EarnedIsBounded ==
  ASSUME NEW n \in Nat, Earned(n) PROVE n <= Cardinality(Invokes) /\ Cardinality(Invokes) \in Nat
<1>1. IsFiniteSet(Invokes) /\ Cardinality(Invokes) \in Nat
  BY RuntimeAssumption, FS_CardinalityType
<1> DEFINE f == [k \in 0..(n - 1) |-> CHOOSE c \in Invokes : invoke[c].pc # "idle" /\ invoke[c].active = k]
<1>2. \A k \in 0..(n - 1) : f[k] \in Invokes /\ invoke[f[k]].active = k
  BY DEF Earned
<1>3. f \in Injection(0..(n - 1), Invokes)
  <2>1. f \in [0..(n - 1) -> Invokes]
    BY <1>2
  <2>2. \A a, b \in 0..(n - 1) : f[a] = f[b] => a = b
    BY <1>2
  <2> HIDE DEF f
  <2> QED
    BY <2>1, <2>2 DEF Injection, IsInjective
<1> HIDE DEF f
<1>4. Cardinality(0..(n - 1)) <= Cardinality(Invokes)
  BY <1>1, <1>3, FS_Injection
<1>5. Cardinality(0..(n - 1)) = n
  <2>1. 0 \in Int /\ n - 1 \in Int
    OBVIOUS
  <2>2. Cardinality(0..(n - 1)) = IF 0 > n - 1 THEN 0 ELSE n - 1 - 0 + 1
    BY <2>1, FS_Interval
  <2> QED
    BY <2>2
<1> QED
  BY <1>1, <1>4, <1>5

\* The last call leaves a sequence without repetitions.
LEMMA LastOfDistinct ==
  ASSUME NEW S, NEW s \in Seq(S), NEW n \in Nat, Len(s) = n + 1,
         \A i, j \in DOMAIN s : s[i] = s[j] => i = j
  PROVE  LET u == SubSeq(s, 1, n) IN
         /\ u \in Seq(S) /\ DOMAIN u = 1..n /\ DOMAIN s = 1..(n + 1)
         /\ \A i \in 1..n : u[i] = s[i] /\ i \in DOMAIN s
         /\ {u[i] : i \in DOMAIN u} = {s[i] : i \in DOMAIN s} \ {s[n + 1]}
<1> DEFINE u == SubSeq(s, 1, n)
<1>1. DOMAIN s = 1..(n + 1) /\ \A i \in 1..(n + 1) : s[i] \in S
  OBVIOUS
<1>2. \A i \in 1..n : i \in 1..(n + 1) /\ i # n + 1
  OBVIOUS
<1>3. \A i \in 1..(n + 1) : i # n + 1 => i \in 1..n
  OBVIOUS
<1>4. n + 1 \in 1..(n + 1)
  OBVIOUS
<1>5. /\ u \in Seq(S)
      /\ Len(u) = IF 1 <= n THEN n - 1 + 1 ELSE 0
      /\ \A i \in 1..(n - 1 + 1) : u[i] = s[1 + i - 1]
  BY <1>1, <1>2, SubSeqProperties
<1> HIDE DEF u
<1>6. DOMAIN u = 1..n /\ \A i \in 1..n : u[i] = s[i]
  <2>1. Len(u) = n
    BY <1>5
  <2>2. DOMAIN u = 1..Len(u)
    BY <1>5
  <2>3. \A i \in 1..n : i \in 1..(n - 1 + 1) /\ 1 + i - 1 = i
    OBVIOUS
  <2> QED
    BY <1>5, <2>1, <2>2, <2>3
<1>7. {u[i] : i \in DOMAIN u} = {s[i] : i \in DOMAIN s} \ {s[n + 1]}
  <2> DEFINE d == 1..n
             e == 1..(n + 1)
  <2>1. /\ \A i \in d : i \in e /\ i # n + 1
        /\ \A i \in e : i # n + 1 => i \in d
        /\ n + 1 \in e
    BY <1>2, <1>3, <1>4
  <2>2. DOMAIN s = e /\ DOMAIN u = d /\ \A i \in d : u[i] = s[i]
    BY <1>1, <1>6
  <2> HIDE DEF d, e
  <2> QED
    BY <2>1, <2>2
<1> QED
  BY <1>1, <1>2, <1>5, <1>6, <1>7 DEF u

\* An end puts the call's number back, and takes it off the order if it is the last.
LEMMA EndEffect ==
  ASSUME RuntimeShape, NEW c \in Invokes, NEW how, Ends(c, how), invoke[c].pc = "running"
  PROVE  /\ invoke' = [invoke EXCEPT ![c].pc = how]
         /\ counted' = [counted EXCEPT ![invoke[c].grant] = invoke[c].active]
         /\ order' \in Seq(Invokes) /\ crossed' \in BOOLEAN /\ (~crossed' => ~crossed)
<1>1. crossed' = (crossed \/ Reading \/ order[Len(order)] # c)
  BY DEF Ends
<1>2. crossed' \in BOOLEAN /\ (~crossed' => ~crossed)
  BY <1>1, Zenon DEF RuntimeShape
<1>3. order' \in Seq(Invokes)
  <2>1. SubSeq(order, 1, Len(order) - 1) \in Seq(Invokes)
    <3>1. Len(order) \in Nat /\ \A i \in 1..Len(order) : order[i] \in Invokes
      BY LenProperties, ElementOfSeq DEF RuntimeShape
    <3>2. Len(order) - 1 \in Int /\ \A i \in 1..(Len(order) - 1) : i \in 1..Len(order)
      BY <3>1
    <3> QED
      BY <3>1, <3>2, SubSeqProperties
  <2>2. order' = SubSeq(order, 1, Len(order) - 1) \/ order' = order
    BY DEF Ends
  <2> QED
    BY <2>1, <2>2 DEF RuntimeShape
<1> QED
  BY <1>2, <1>3 DEF Ends, Uncounts

\* Every step keeps the types and what the counts are earned by.
LEMMA RuntimeShapeStep == RuntimeShape /\ [RuntimeNext]_runtimeVars => RuntimeShape'
<1> SUFFICES ASSUME RuntimeShape, [RuntimeNext]_runtimeVars PROVE RuntimeShape'
  OBVIOUS
<1> DEFINE Pcs == {"idle", "read", "running", "completed", "refused", "timed out", "partial"}
           Calls == [pc : Pcs, grant : Grants, active : Nat, records : 0..MaxChunks]
<1>t. /\ counted \in [Grants -> Nat] /\ invoke \in [Invokes -> Calls]
      /\ order \in Seq(Invokes) /\ crossed \in BOOLEAN
      /\ \A g \in Grants : counted[g] \in Nat /\ Earned(counted[g])
      /\ \A c \in Invokes :
           IF invoke[c].pc = "idle" THEN invoke[c].active = 0 ELSE Earned(invoke[c].active)
      /\ \A c \in Invokes : invoke[c].grant \in Grants /\ invoke[c].active \in Nat
                            /\ invoke[c].records \in 0..MaxChunks
      /\ MaxChunks \in Nat
  BY RuntimeAssumption DEF RuntimeShape
\* A step that keeps the types, and in which only a call that starts reads a number.
<1>k. ASSUME counted' \in [Grants -> Nat], invoke' \in [Invokes -> Calls],
             order' \in Seq(Invokes), crossed' \in BOOLEAN,
             \A c \in Invokes : IF invoke[c].pc = "idle" /\ invoke'[c].pc # "idle"
                                THEN Earned(invoke'[c].active)
                                ELSE /\ invoke'[c].active = invoke[c].active
                                     /\ invoke'[c].pc = "idle" <=> invoke[c].pc = "idle",
             \A g \in Grants : \/ Earned(counted'[g])
                               \/ \E c \in Invokes : /\ invoke[c].pc # "idle"
                                                     /\ counted'[g] = invoke[c].active + 1
      PROVE  RuntimeShape'
  <2> DEFINE EarnedNow(n) == \A k \in 0..(n - 1) :
                               \E c \in Invokes : invoke'[c].pc # "idle" /\ invoke'[c].active = k
  <2>1. \A n : Earned(n) => EarnedNow(n)
    BY <1>k DEF Earned
  <2>2. ASSUME NEW c \in Invokes, invoke[c].pc # "idle" PROVE EarnedNow(invoke[c].active + 1)
    <3> DEFINE m == invoke[c].active
    <3>1. m \in Nat
      BY <1>t
    <3>2. EarnedNow(m)
      BY <1>t, <2>1, <2>2
    <3>3. invoke'[c].pc # "idle" /\ invoke'[c].active = m
      BY <1>k, <2>2
    <3> HIDE DEF m
    <3>4. \A k \in 0..(m + 1 - 1) : k = m \/ k \in 0..(m - 1)
      BY <3>1
    <3>5. ASSUME NEW k \in 0..(m + 1 - 1)
          PROVE  \E d \in Invokes : invoke'[d].pc # "idle" /\ invoke'[d].active = k
      <4>1. CASE k = m
        BY <3>3, <4>1
      <4>2. CASE k \in 0..(m - 1)
        BY <3>2, <4>2
      <4> QED
        BY <3>4, <4>1, <4>2
    <3>6. EarnedNow(m + 1)
      BY <3>1, <3>5
    <3> HIDE DEF EarnedNow
    <3> QED
      BY <3>6 DEF m
  <2>3. \A g \in Grants : EarnedNow(counted'[g])
    <3> HIDE DEF EarnedNow
    <3> QED
      BY <1>k, <2>1, <2>2
  <2>4. \A c \in Invokes : IF invoke'[c].pc = "idle" THEN invoke'[c].active = 0
                           ELSE EarnedNow(invoke'[c].active)
    <3> HIDE DEF EarnedNow
    <3> QED
      BY <1>k, <1>t, <2>1
  <2> QED
    BY <1>k, <2>3, <2>4 DEF RuntimeShape, Earned
<1> HIDE DEF Calls
<1>i. ASSUME NEW c \in Invokes, NEW pc \in Pcs PROVE [invoke EXCEPT ![c].pc = pc] \in [Invokes -> Calls]
  BY <1>i, <1>t DEF Calls
<1>1. ASSUME NEW c \in Invokes, NotBound(c) PROVE RuntimeShape'
  <2>1. invoke' = [invoke EXCEPT ![c].pc = "refused"] /\ UNCHANGED <<counted, order, crossed>>
        /\ invoke[c].pc = "idle"
    BY <1>1 DEF NotBound
  <2>2. invoke' \in [Invokes -> Calls]
    BY <1>i, <2>1
  <2>3. invoke'[c].active = 0 /\ \A d \in Invokes \ {c} : invoke'[d] = invoke[d]
    BY <1>t, <2>1 DEF Calls
  <2>4. Earned(0)
    BY DEF Earned
  <2> QED
    BY <1>k, <1>t, <2>1, <2>2, <2>3, <2>4
<1>2. ASSUME NEW c \in Invokes, ReadsCount(c) PROVE RuntimeShape'
  <2>1. PICK pc \in {"refused", "read"} :
          invoke' = [invoke EXCEPT ![c].pc = pc, ![c].active = counted[invoke[c].grant]]
    BY <1>2 DEF ReadsCount
  <2>2. UNCHANGED <<counted, order>> /\ invoke[c].pc = "idle" /\ crossed' = (crossed \/ Reading)
    BY <1>2 DEF ReadsCount
  <2>3. crossed' \in BOOLEAN
    BY <2>2, Zenon
  <2>4. /\ invoke' \in [Invokes -> Calls]
        /\ invoke'[c].active = counted[invoke[c].grant] /\ invoke'[c].pc = pc
        /\ \A d \in Invokes \ {c} : invoke'[d] = invoke[d]
    BY <1>t, <2>1 DEF Calls
  <2> QED
    BY <1>k, <1>t, <2>2, <2>3, <2>4
<1>3. ASSUME NEW c \in Invokes, Counts(c) PROVE RuntimeShape'
  <2>1. /\ invoke[c].pc = "read" /\ UNCHANGED crossed
        /\ counted' = [counted EXCEPT ![invoke[c].grant] = invoke[c].active + 1]
        /\ invoke' = [invoke EXCEPT ![c].pc = "running"] /\ order' = Append(order, c)
    BY <1>3 DEF Counts
  <2>2. invoke' \in [Invokes -> Calls] /\ order' \in Seq(Invokes) /\ counted' \in [Grants -> Nat]
    <3>1. invoke' \in [Invokes -> Calls]
      BY <1>i, <2>1
    <3>2. invoke[c].active + 1 \in Nat
      BY <1>t
    <3>3. order' \in Seq(Invokes)
      BY <1>t, <2>1, AppendProperties
    <3> QED
      BY <1>t, <2>1, <3>1, <3>2, <3>3
  <2>3. \A d \in Invokes : /\ invoke'[d].active = invoke[d].active
                           /\ invoke'[d].pc = "idle" <=> invoke[d].pc = "idle"
    BY <1>t, <2>1 DEF Calls
  <2>4. \A g \in Grants : counted'[g] = counted[g] \/ counted'[g] = invoke[c].active + 1
    BY <1>t, <2>1
  <2> QED
    BY <1>k, <1>t, <2>1, <2>2, <2>3, <2>4
<1>4. ASSUME NEW c \in Invokes, NEW how \in Pcs \ {"idle", "read", "running"}, Ends(c, how), invoke[c].pc = "running"
      PROVE  RuntimeShape'
  <2>1. /\ invoke' = [invoke EXCEPT ![c].pc = how]
        /\ counted' = [counted EXCEPT ![invoke[c].grant] = invoke[c].active]
        /\ order' \in Seq(Invokes) /\ crossed' \in BOOLEAN
    BY <1>4, EndEffect
  <2>2. invoke' \in [Invokes -> Calls] /\ counted' \in [Grants -> Nat]
    BY <1>i, <1>t, <2>1
  <2>3. \A d \in Invokes : /\ invoke'[d].active = invoke[d].active
                           /\ invoke'[d].pc = "idle" <=> invoke[d].pc = "idle"
    BY <1>4, <1>t, <2>1 DEF Calls
  <2>4. \A g \in Grants : counted'[g] = counted[g] \/ counted'[g] = invoke[c].active
    BY <1>t, <2>1
  <2>5. Earned(invoke[c].active)
    BY <1>4, <1>t
  <2> QED
    BY <1>k, <1>t, <2>1, <2>2, <2>3, <2>4, <2>5
<1>5. ASSUME NEW c \in Invokes, Chunk(c) PROVE RuntimeShape'
  <2>1. CASE \E how \in {"timed out", "partial"} : Ends(c, how)
    BY <1>4, <1>5, <2>1 DEF Chunk
  <2>2. CASE invoke' = [invoke EXCEPT ![c].records = @ + 1] /\ UNCHANGED <<counted, order, crossed>>
    <3>1. invoke[c].records + 1 \in 0..MaxChunks
      <4>1. invoke[c].records \in 0..MaxChunks /\ invoke[c].records < MaxChunks
        BY <1>5, <1>t DEF Chunk
      <4>2. \A r \in 0..MaxChunks : r < MaxChunks => r + 1 \in 0..MaxChunks
        BY <1>t
      <4> QED
        BY <4>1, <4>2
    <3>2. invoke' \in [Invokes -> Calls]
      BY <1>t, <2>2, <3>1 DEF Calls
    <3>3. \A d \in Invokes : /\ invoke'[d].active = invoke[d].active
                             /\ invoke'[d].pc = "idle" <=> invoke[d].pc = "idle"
      BY <1>t, <2>2 DEF Calls
    <3> QED
      BY <1>k, <1>t, <2>2, <3>2, <3>3
  <2> QED
    BY <1>5, <2>1, <2>2 DEF Chunk
<1>6. ASSUME NEW c \in Invokes, ChunksEnd(c) PROVE RuntimeShape'
  BY <1>4, <1>6 DEF ChunksEnd
<1>7. CASE UNCHANGED runtimeVars
  BY <1>7 DEF runtimeVars, RuntimeShape, Earned
<1> QED
  BY <1>1, <1>2, <1>3, <1>5, <1>6, <1>7 DEF RuntimeNext

\* What a step does to the order: nothing, a call is counted, or the last call ends.
LEMMA CountedMoves ==
  ASSUME RuntimeShape, OrderOnce, NEW c \in Invokes
  PROVE  /\ Counts(c) =>
              /\ DOMAIN order = 1..Len(order) /\ DOMAIN order' = 1..(Len(order) + 1) /\ Len(order) \in Nat
              /\ \A i \in 1..Len(order) : order'[i] = order[i]
              /\ order'[Len(order) + 1] = c
              /\ \A i, j \in DOMAIN order' : order'[i] = order'[j] => i = j
              /\ Counted' = Counted \cup {c}
         /\ \A how : Ends(c, how) /\ invoke[c].pc = "running" =>
              \/ order' = order /\ crossed'
              \/ \E n \in Nat :
                   /\ DOMAIN order = 1..(n + 1) /\ DOMAIN order' = 1..n
                   /\ order[n + 1] = c
                   /\ \A i \in 1..n : order'[i] = order[i]
                   /\ \A i, j \in DOMAIN order' : order'[i] = order'[j] => i = j
                   /\ Counted' = Counted \ {c}
<1>t. order \in Seq(Invokes) /\ \A i, j \in DOMAIN order : order[i] = order[j] => i = j
  BY DEF RuntimeShape, OrderOnce
<1>1. ASSUME Counts(c)
      PROVE  /\ DOMAIN order = 1..Len(order) /\ DOMAIN order' = 1..(Len(order) + 1) /\ Len(order) \in Nat
             /\ \A i \in 1..Len(order) : order'[i] = order[i]
             /\ order'[Len(order) + 1] = c
             /\ \A i, j \in DOMAIN order' : order'[i] = order'[j] => i = j
             /\ Counted' = Counted \cup {c}
  <2>1. order' = Append(order, c) /\ invoke[c].pc = "read"
    BY <1>1 DEF Counts
  <2>2. c \notin {order[i] : i \in DOMAIN order}
    BY <2>1 DEF OrderOnce, Counted
  <2>3. /\ order' \in Seq(Invokes) /\ Len(order') = Len(order) + 1
        /\ \A i, j \in DOMAIN order' : order'[i] = order'[j] => i = j
        /\ Counted' = Counted \cup {c}
    BY <1>t, <2>1, <2>2, AppendDistinct DEF Counted
  <2>4. /\ \A i \in 1..Len(order) : order'[i] = order[i]
        /\ order'[Len(order) + 1] = c
    BY <1>t, <2>1, AppendProperties
  <2>5. DOMAIN order = 1..Len(order) /\ DOMAIN order' = 1..Len(order') /\ Len(order) \in Nat
    BY <1>t, <2>3, LenProperties
  <2> QED
    BY <2>3, <2>4, <2>5
<1>2. ASSUME NEW how, Ends(c, how), invoke[c].pc = "running"
      PROVE  \/ order' = order /\ crossed'
             \/ \E n \in Nat :
                  /\ DOMAIN order = 1..(n + 1) /\ DOMAIN order' = 1..n
                  /\ order[n + 1] = c
                  /\ \A i \in 1..n : order'[i] = order[i]
                  /\ \A i, j \in DOMAIN order' : order'[i] = order'[j] => i = j
                  /\ Counted' = Counted \ {c}
  <2>1. c \in Counted
    BY <1>2 DEF OrderOnce
  <2>2. DOMAIN order = 1..Len(order) /\ Len(order) \in Nat
    BY <1>t, LenProperties
  <2>3. Len(order) # 0
    BY <2>1, <2>2 DEF Counted
  <2>4. CASE order[Len(order)] # c
    BY <1>2, <2>4 DEF Ends
  <2>5. CASE order[Len(order)] = c
    <3> DEFINE n == Len(order) - 1
    <3>1. n \in Nat /\ Len(order) = n + 1
      BY <2>2, <2>3
    <3>2. order' = SubSeq(order, 1, n)
      BY <1>2, <2>5 DEF Ends
    <3> HIDE DEF n
    <3>3. /\ DOMAIN order' = 1..n /\ DOMAIN order = 1..(n + 1)
          /\ \A i \in 1..n : order'[i] = order[i] /\ i \in DOMAIN order
          /\ Counted' = Counted \ {order[n + 1]}
      <4>1. /\ SubSeq(order, 1, n) \in Seq(Invokes)
            /\ DOMAIN SubSeq(order, 1, n) = 1..n /\ DOMAIN order = 1..(n + 1)
            /\ \A i \in 1..n : SubSeq(order, 1, n)[i] = order[i] /\ i \in DOMAIN order
            /\ {SubSeq(order, 1, n)[i] : i \in DOMAIN SubSeq(order, 1, n)}
                 = {order[i] : i \in DOMAIN order} \ {order[n + 1]}
        BY <1>t, <3>1, LastOfDistinct
      <4> QED
        BY <3>2, <4>1 DEF Counted
    <3>4. order[n + 1] = c
      BY <2>5, <3>1
    <3>5. \A i, j \in DOMAIN order' : order'[i] = order'[j] => i = j
      BY <1>t, <3>3
    <3> QED
      BY <3>1, <3>3, <3>4, <3>5
  <2> QED
    BY <2>4, <2>5
<1> QED
  BY <1>1, <1>2

\* Every step keeps the order free of repetitions and of calls that have not counted.
LEMMA OrderOnceStep ==
  ASSUME RuntimeShape, OrderOnce, [RuntimeNext]_runtimeVars PROVE OrderOnce'
<1> DEFINE Pcs == {"idle", "read", "running", "completed", "refused", "timed out", "partial"}
           Calls == [pc : Pcs, grant : Grants, active : Nat, records : 0..MaxChunks]
<1>t. invoke \in [Invokes -> Calls]
  BY DEF RuntimeShape
<1>o. /\ \A i, j \in DOMAIN order : order[i] = order[j] => i = j
      /\ \A c \in Counted : invoke[c].pc \notin {"idle", "read"} /\ c \in Invokes
      /\ \A c \in Invokes : invoke[c].pc = "running" => c \in Counted
  <2>1. \A c \in Counted : c \in Invokes
    <3> SUFFICES ASSUME NEW c \in Counted PROVE c \in Invokes
      OBVIOUS
    <3>1. PICK i \in DOMAIN order : order[i] = c
      BY DEF Counted
    <3>2. order \in Seq(Invokes) /\ DOMAIN order = 1..Len(order)
      BY LenProperties DEF RuntimeShape
    <3> QED
      BY <3>1, <3>2, ElementOfSeq
  <2> QED
    BY <2>1 DEF OrderOnce
\* A step of a call that is not counted, and leaves the order alone.
<1>k. ASSUME UNCHANGED order,
             \A c \in Invokes : \/ invoke[c].pc \in {"idle", "read"} /\ invoke'[c].pc # "running"
                                \/ invoke'[c].pc = invoke[c].pc
                                \/ invoke[c].pc = "running" /\ invoke'[c].pc \notin {"idle", "read", "running"}
      PROVE  OrderOnce'
  <2>1. Counted' = Counted
    BY <1>k DEF Counted
  <2> QED
    BY <1>k, <1>o, <2>1 DEF OrderOnce
<1>1. ASSUME NEW c \in Invokes, NotBound(c) \/ ReadsCount(c) PROVE OrderOnce'
  <2>1. /\ UNCHANGED order /\ invoke[c].pc = "idle"
        /\ \A d \in Invokes \ {c} : invoke'[d] = invoke[d]
        /\ invoke'[c].pc \in {"refused", "read"}
    BY <1>1, <1>t DEF NotBound, ReadsCount
  <2> QED
    BY <1>k, <2>1
<1>2. ASSUME NEW c \in Invokes, Counts(c) PROVE OrderOnce'
  <2>1. /\ \A i, j \in DOMAIN order' : order'[i] = order'[j] => i = j
        /\ Counted' = Counted \cup {c}
    BY <1>2, CountedMoves
  <2>2. invoke'[c].pc = "running" /\ \A d \in Invokes \ {c} : invoke'[d] = invoke[d]
    BY <1>2, <1>t DEF Counts
  <2> QED
    BY <1>o, <2>1, <2>2 DEF OrderOnce
<1>3. ASSUME NEW c \in Invokes, NEW how \in Pcs \ {"idle", "read", "running"}, Ends(c, how), invoke[c].pc = "running"
      PROVE  OrderOnce'
  <2>1. invoke'[c].pc = how /\ \A d \in Invokes \ {c} : invoke'[d] = invoke[d]
    BY <1>3, <1>t DEF Ends
  <2>2. CASE order' = order
    BY <1>3, <1>k, <2>1, <2>2
  <2>3. CASE /\ \A i, j \in DOMAIN order' : order'[i] = order'[j] => i = j
             /\ Counted' = Counted \ {c}
    BY <1>3, <1>o, <2>1, <2>3 DEF OrderOnce
  <2> QED
    BY <1>3, <2>2, <2>3, CountedMoves
<1>4. ASSUME NEW c \in Invokes, Chunk(c) PROVE OrderOnce'
  <2>1. CASE \E how \in {"timed out", "partial"} : Ends(c, how)
    BY <1>3, <1>4, <2>1 DEF Chunk
  <2>2. CASE invoke' = [invoke EXCEPT ![c].records = @ + 1] /\ UNCHANGED order
    <3>1. \A d \in Invokes : invoke'[d].pc = invoke[d].pc
      BY <1>t, <2>2
    <3> QED
      BY <1>k, <2>2, <3>1
  <2> QED
    BY <1>4, <2>1, <2>2 DEF Chunk
<1>5. ASSUME NEW c \in Invokes, ChunksEnd(c) PROVE OrderOnce'
  BY <1>3, <1>5 DEF ChunksEnd
<1>6. CASE UNCHANGED runtimeVars
  BY <1>6, <1>k DEF runtimeVars
<1> QED
  BY <1>1, <1>2, <1>4, <1>5, <1>6 DEF RuntimeNext

\* The positions of a sequence of n + 1 items, for SMT.
LEMMA UpTo ==
  ASSUME NEW n \in Nat
  PROVE  /\ \A i \in 1..n : \A j \in 1..(i - 1) : j \in 1..n
         /\ \A i \in 1..(n + 1) : i \in 1..n \/ i = n + 1
         /\ \A i \in 1..(n + 1) : \A j \in 1..(i - 1) : j \in 1..n
         /\ n + 1 \in 1..(n + 1) /\ n + 1 \notin 1..n
         /\ \A i \in 1..n : i \in 1..(n + 1)
         /\ 1..((n + 1) - 1) = 1..n
<1>1. (n + 1) - 1 = n
  OBVIOUS
<1> QED
  BY <1>1

\* While calls nest, a call that counts joins the number it has read, and the last
\* one to have counted puts back the number of the others when it ends.
LEMMA ReadsRightStep ==
  ASSUME RuntimeShape, OrderOnce, ~crossed => ReadsRight, [RuntimeNext]_runtimeVars, ~crossed'
  PROVE  ReadsRight'
<1> DEFINE Pcs == {"idle", "read", "running", "completed", "refused", "timed out", "partial"}
           Calls == [pc : Pcs, grant : Grants, active : Nat, records : 0..MaxChunks]
           AloneReading == \A c \in Invokes : invoke[c].pc = "read" =>
                             /\ invoke[c].active = counted[invoke[c].grant]
                             /\ \A d \in Invokes : invoke[d].pc = "read" => d = c
<1>t. /\ invoke \in [Invokes -> Calls] /\ counted \in [Grants -> Nat]
      /\ order \in Seq(Invokes) /\ DOMAIN order = 1..Len(order) /\ Len(order) \in Nat
  BY LenProperties DEF RuntimeShape
<1>s. \A i \in DOMAIN order : order[i] \in Invokes /\ order[i] \in Counted
  BY <1>t, ElementOfSeq DEF Counted
<1>c. \A c \in Counted : c \in Invokes
  <2> SUFFICES ASSUME NEW c \in Counted PROVE c \in Invokes
    OBVIOUS
  <2>1. PICK i \in DOMAIN order : order[i] = c
    BY DEF Counted
  <2> QED
    BY <1>s, <2>1
<1>f. \A g \in Grants : IsFiniteSet(Of(g)) /\ Cardinality(Of(g)) \in Nat
  <2>1. \A g \in Grants : Of(g) \subseteq Invokes
    BY DEF Of
  <2> QED
    BY <2>1, RuntimeAssumption, FS_Subset, FS_CardinalityType
<1>o. /\ \A i, j \in DOMAIN order : order[i] = order[j] => i = j
      /\ \A c \in Invokes : invoke[c].pc = "running" => c \in Counted
      /\ \A c \in Counted : invoke[c].pc \notin {"idle", "read"}
  BY DEF OrderOnce
\* A step that neither counts nor uncounts a call.
<1>k. ASSUME UNCHANGED <<order, counted>>, ReadsRight, AloneReading',
             \A c \in Invokes :
               /\ invoke'[c].grant = invoke[c].grant
               /\ invoke'[c].pc = "running" <=> invoke[c].pc = "running"
               /\ invoke[c].pc = "running" => invoke'[c].active = invoke[c].active
      PROVE  ReadsRight'
  <2>1. Counted' = Counted /\ \A c \in Counted : c \in Invokes
    BY <1>k, <1>c DEF Counted
  <2>2. \A c \in Counted' : invoke'[c].pc = "running"
    BY <1>k, <2>1 DEF ReadsRight
  <2>3. ASSUME NEW i \in DOMAIN order PROVE invoke'[order[i]].active = Cardinality(Mates(i)')
    <3>1. \A j \in 1..(i - 1) : j \in DOMAIN order
      BY <1>t, UpTo
    <3>2. \A d \in {order[j] : j \in 1..(i - 1)} : invoke'[d].grant = invoke[d].grant
      BY <1>k, <1>s, <3>1
    <3>3. Mates(i)' = Mates(i)
      BY <1>k, <1>s, <3>2 DEF Mates
    <3>4. invoke'[order[i]].active = invoke[order[i]].active
      BY <1>k, <1>s DEF ReadsRight
    <3> QED
      BY <1>k, <3>3, <3>4 DEF ReadsRight
  <2>4. \A g \in Grants : Of(g)' = Of(g)
    BY <1>k DEF Of
  <2>5. \A g \in Grants : counted'[g] = Cardinality(Of(g)')
    BY <1>k, <2>4 DEF ReadsRight
  <2> QED
    BY <1>k, <2>2, <2>3, <2>5 DEF ReadsRight
<1>1. ASSUME NEW c \in Invokes, NotBound(c) PROVE ReadsRight'
  <2>1. /\ UNCHANGED <<order, counted, crossed>>
        /\ invoke' = [invoke EXCEPT ![c].pc = "refused"] /\ invoke[c].pc = "idle"
    BY <1>1 DEF NotBound
  <2>2. ReadsRight
    BY <2>1
  <2>3. AloneReading
    BY <2>2 DEF ReadsRight
  <2>4. \A d \in Invokes : /\ invoke'[d].grant = invoke[d].grant /\ invoke'[d].active = invoke[d].active
                           /\ invoke'[d].pc = "running" <=> invoke[d].pc = "running"
                           /\ invoke'[d].pc = "read" <=> invoke[d].pc = "read"
    BY <1>t, <2>1
  <2>5. AloneReading'
    BY <2>1, <2>3, <2>4
  <2> HIDE DEF AloneReading
  <2> QED
    BY <1>k, <2>1, <2>2, <2>4, <2>5
<1>2. ASSUME NEW c \in Invokes, ReadsCount(c) PROVE ReadsRight'
  <2>1. /\ UNCHANGED <<order, counted>> /\ ~crossed /\ ~Reading
        /\ invoke[c].pc = "idle"
        /\ invoke' = [invoke EXCEPT ![c].pc = IF AtLimit(c) THEN "refused" ELSE "read",
                                    ![c].active = counted[invoke[c].grant]]
    BY <1>2 DEF ReadsCount
  <2>2. ReadsRight
    BY <2>1
  <2>3. /\ invoke'[c].grant = invoke[c].grant /\ invoke'[c].active = counted[invoke[c].grant]
        /\ invoke'[c].pc \in {"refused", "read"}
        /\ \A d \in Invokes \ {c} : invoke'[d] = invoke[d]
    BY <1>t, <2>1
  <2>4. \A d \in Invokes \ {c} : invoke'[d].pc # "read"
    BY <2>1, <2>3 DEF Reading
  <2>5. AloneReading'
    BY <2>1, <2>3, <2>4
  <2> HIDE DEF AloneReading
  <2> QED
    BY <1>k, <2>1, <2>2, <2>3, <2>5
<1>3. ASSUME NEW c \in Invokes, Counts(c) PROVE ReadsRight'
  <2> DEFINE n == Len(order)
             g == invoke[c].grant
  <2>1. /\ invoke[c].pc = "read" /\ ~crossed
        /\ counted' = [counted EXCEPT ![g] = invoke[c].active + 1]
        /\ invoke' = [invoke EXCEPT ![c].pc = "running"]
    BY <1>3 DEF Counts
  <2>2. /\ DOMAIN order = 1..n /\ DOMAIN order' = 1..(n + 1) /\ n \in Nat
        /\ \A i \in 1..n : order'[i] = order[i]
        /\ order'[n + 1] = c
        /\ Counted' = Counted \cup {c}
    BY <1>3, CountedMoves
  <2>3. ReadsRight /\ g \in Grants
    BY <1>t, <2>1
  <2>4. /\ invoke'[c].pc = "running"
        /\ \A d \in Invokes : invoke'[d].grant = invoke[d].grant /\ invoke'[d].active = invoke[d].active
        /\ \A d \in Invokes \ {c} : invoke'[d].pc = invoke[d].pc
    BY <1>t, <2>1
  <2>5. invoke[c].active = counted[g] /\ counted[g] = Cardinality(Of(g))
    BY <2>1, <2>3 DEF ReadsRight
  <2> HIDE DEF n, g
  <2>6. \A d \in Counted' : invoke'[d].pc = "running"
    <3>1. \A d \in Counted : d \in Invokes /\ invoke[d].pc = "running"
      BY <1>c, <2>3 DEF ReadsRight
    <3> QED
      BY <2>2, <2>4, <3>1
  <2>7. ASSUME NEW i \in DOMAIN order' PROVE invoke'[order'[i]].active = Cardinality(Mates(i)')
    <3>1. \A j \in 1..(i - 1) : j \in 1..n /\ j \in DOMAIN order
      BY <2>2
    <3>2. {order'[j] : j \in 1..(i - 1)} = {order[j] : j \in 1..(i - 1)}
      BY <2>2, <3>1
    <3>3. \A d \in {order[j] : j \in 1..(i - 1)} : invoke'[d].grant = invoke[d].grant
      BY <1>s, <2>4, <3>1
    <3>4. CASE i \in 1..n
      <4>1. order'[i] = order[i] /\ order[i] \in Invokes /\ i \in DOMAIN order
        BY <1>s, <2>2, <3>4
      <4>2. Mates(i)' = Mates(i)
        BY <2>4, <3>2, <3>3, <4>1 DEF Mates
      <4> QED
        BY <2>3, <2>4, <4>1, <4>2 DEF ReadsRight
    <3>5. CASE i = n + 1
      <4>1. 1..(i - 1) = DOMAIN order
        BY <2>2, <3>5
      <4>2. Mates(i)' = {d \in Counted : invoke[d].grant = g}
        BY <2>2, <2>4, <3>2, <3>3, <3>5, <4>1 DEF Mates, Counted, g
      <4>3. {d \in Counted : invoke[d].grant = g} = Of(g)
        <5>1. \A d \in Counted : d \in Invokes /\ invoke[d].pc = "running"
          BY <1>c, <2>3 DEF ReadsRight
        <5> QED
          BY <1>o, <5>1 DEF Of
      <4> QED
        BY <2>2, <2>4, <2>5, <3>5, <4>2, <4>3
    <3> QED
      BY <2>2, <3>4, <3>5
  <2>8. ASSUME NEW h \in Grants PROVE counted'[h] = Cardinality(Of(h)')
    <3>1. CASE h = g
      <4>1. Of(h)' = Of(h) \cup {c} /\ c \notin Of(h)
        BY <2>1, <2>4, <3>1 DEF Of, g
      <4>2. Cardinality(Of(h)') = Cardinality(Of(h)) + 1
        BY <1>f, <4>1, FS_AddElement
      <4>3. counted'[h] = counted[h] + 1 /\ counted[h] = Cardinality(Of(h))
        BY <1>t, <2>1, <2>5, <3>1
      <4> QED
        BY <4>2, <4>3
    <3>2. CASE h # g
      <4>1. Of(h)' = Of(h)
        BY <2>1, <2>4, <3>2 DEF Of, g
      <4> QED
        BY <1>t, <2>1, <2>3, <3>2, <4>1 DEF ReadsRight
    <3> QED
      BY <3>1, <3>2
  <2>9. \A d \in Invokes : invoke'[d].pc # "read"
    BY <2>1, <2>3, <2>4 DEF ReadsRight
  <2> QED
    BY <2>6, <2>7, <2>8, <2>9 DEF ReadsRight
<1>4. ASSUME NEW c \in Invokes, NEW how \in Pcs \ {"idle", "read", "running"}, Ends(c, how), invoke[c].pc = "running"
      PROVE  ReadsRight'
  <2> DEFINE g == invoke[c].grant
  <2>1. /\ invoke' = [invoke EXCEPT ![c].pc = how]
        /\ counted' = [counted EXCEPT ![g] = invoke[c].active]
        /\ ~crossed
    BY <1>4, EndEffect
  <2>2. ~Reading
    BY <1>4 DEF Ends
  <2>3. PICK n \in Nat : /\ DOMAIN order = 1..(n + 1) /\ DOMAIN order' = 1..n
                         /\ order[n + 1] = c
                         /\ \A i \in 1..n : order'[i] = order[i]
                         /\ Counted' = Counted \ {c}
    BY <1>4, CountedMoves
  <2>4. ReadsRight /\ g \in Grants
    BY <1>t, <2>1
  <2>5. /\ invoke'[c].pc \notin {"read", "running"}
        /\ \A d \in Invokes : invoke'[d].grant = invoke[d].grant /\ invoke'[d].active = invoke[d].active
        /\ \A d \in Invokes \ {c} : invoke'[d].pc = invoke[d].pc
    BY <1>t, <2>1
  <2> HIDE DEF g
  <2>6. \A d \in Counted : d \in Invokes /\ invoke[d].pc = "running"
    BY <1>c, <2>4 DEF ReadsRight
  <2>7. ASSUME NEW i \in DOMAIN order' PROVE invoke'[order'[i]].active = Cardinality(Mates(i)')
    <3>1. i \in 1..n /\ i \in DOMAIN order /\ \A j \in 1..(i - 1) : j \in 1..n /\ j \in DOMAIN order
      BY <2>3, UpTo
    <3>2. {order'[j] : j \in 1..(i - 1)} = {order[j] : j \in 1..(i - 1)}
      BY <2>3, <3>1
    <3>3. \A d \in {order[j] : j \in 1..(i - 1)} : invoke'[d].grant = invoke[d].grant
      BY <1>s, <2>5, <3>1
    <3>4. order'[i] = order[i] /\ order[i] \in Invokes
      BY <1>s, <2>3, <3>1
    <3>5. Mates(i)' = Mates(i)
      BY <2>5, <3>2, <3>3, <3>4 DEF Mates
    <3>6. invoke[order[i]].active = Cardinality(Mates(i))
      BY <2>4, <3>1 DEF ReadsRight
    <3> QED
      BY <2>5, <3>4, <3>5, <3>6
  <2>8. ASSUME NEW h \in Grants PROVE counted'[h] = Cardinality(Of(h)')
    <3>1. CASE h = g
      <4>1. Of(h)' = Of(h) \ {c} /\ c \in Of(h)
        BY <1>4, <2>5, <3>1 DEF Of, g
      <4>2. Mates(n + 1) = Of(h) \ {c}
        <5>1. /\ 1..((n + 1) - 1) = 1..n /\ n + 1 \in DOMAIN order
              /\ \A j \in 1..n : j \in DOMAIN order /\ j # n + 1
              /\ \A j \in DOMAIN order : j \in 1..n \/ j = n + 1
          BY <2>3, UpTo
        <5>2. {order[j] : j \in 1..((n + 1) - 1)} = Counted \ {c}
          <6>1. {order[j] : j \in 1..n} = {order[j] : j \in DOMAIN order} \ {order[n + 1]}
            BY <1>o, <5>1
          <6> QED
            BY <2>3, <5>1, <6>1 DEF Counted
        <5>3. Mates(n + 1) = {d \in Counted \ {c} : invoke[d].grant = h}
          BY <2>3, <3>1, <5>2 DEF Mates, g
        <5> QED
          BY <1>o, <2>6, <5>3 DEF Of
      <4>3. invoke[c].active = Cardinality(Mates(n + 1))
        <5>1. n + 1 \in DOMAIN order
          BY <2>3, UpTo
        <5> QED
          BY <2>3, <2>4, <5>1 DEF ReadsRight
      <4>4. counted'[h] = invoke[c].active
        <5>1. counted' = [counted EXCEPT ![h] = invoke[c].active]
          BY <2>1, <3>1
        <5>2. h \in DOMAIN counted
          BY DEF RuntimeShape
        <5> QED
          BY <5>1, <5>2
      <4> QED
        BY <4>1, <4>2, <4>3, <4>4
    <3>2. CASE h # g
      <4>1. Of(h)' = Of(h)
        BY <2>5, <3>2 DEF Of, g
      <4> QED
        BY <1>t, <2>1, <2>4, <3>2, <4>1 DEF ReadsRight
    <3> QED
      BY <3>1, <3>2
  <2>9. \A d \in Invokes : invoke'[d].pc # "read"
    BY <2>2, <2>5 DEF Reading
  <2>10. \A d \in Counted' : invoke'[d].pc = "running"
    BY <2>3, <2>5, <2>6
  <2> QED
    BY <2>7, <2>8, <2>9, <2>10 DEF ReadsRight
<1>5. ASSUME NEW c \in Invokes, Chunk(c) PROVE ReadsRight'
  <2>1. CASE \E how \in {"timed out", "partial"} : Ends(c, how)
    BY <1>4, <1>5, <2>1 DEF Chunk
  <2>2. CASE invoke' = [invoke EXCEPT ![c].records = @ + 1] /\ UNCHANGED <<counted, order, crossed>>
    <3>1. ReadsRight
      BY <2>2
    <3>2. \A d \in Invokes : /\ invoke'[d].pc = invoke[d].pc /\ invoke'[d].grant = invoke[d].grant
                             /\ invoke'[d].active = invoke[d].active
      BY <1>t, <2>2
    <3>3. AloneReading
      BY <3>1 DEF ReadsRight
    <3>4. AloneReading'
      BY <2>2, <3>2, <3>3
    <3> HIDE DEF AloneReading
    <3> QED
      BY <1>k, <2>2, <3>1, <3>2, <3>4
  <2> QED
    BY <1>5, <2>1, <2>2 DEF Chunk
<1>6. ASSUME NEW c \in Invokes, ChunksEnd(c) PROVE ReadsRight'
  BY <1>4, <1>6 DEF ChunksEnd
<1>7. CASE UNCHANGED runtimeVars
  <2>1. /\ UNCHANGED <<order, counted, invoke>> /\ ReadsRight
    BY <1>7 DEF runtimeVars
  <2>2. AloneReading
    BY <2>1 DEF ReadsRight
  <2>3. AloneReading'
    BY <2>1, <2>2
  <2> HIDE DEF AloneReading
  <2> QED
    BY <1>k, <2>1, <2>3
<1> QED
  BY <1>1, <1>2, <1>3, <1>5, <1>6, <1>7 DEF RuntimeNext

\* A call is let in by its own limit, whatever the others do.
LEMMA LetInStep ==
  ASSUME RuntimeShape, LetIn, [RuntimeNext]_runtimeVars
  PROVE  LetIn'
<1> DEFINE Pcs == {"idle", "read", "running", "completed", "refused", "timed out", "partial"}
           Calls == [pc : Pcs, grant : Grants, active : Nat, records : 0..MaxChunks]
<1>t. /\ invoke \in [Invokes -> Calls] /\ counted \in [Grants -> Nat]
      /\ GrantLimit \in [Invokes -> Nat]
  BY RuntimeAssumption DEF RuntimeShape
\* A step that lets nobody in.
<1>k. ASSUME \A c \in Invokes : invoke'[c].pc \in {"read", "running"} =>
               invoke[c].pc \in {"read", "running"} /\ invoke'[c].active = invoke[c].active
      PROVE  LetIn'
  BY <1>k DEF LetIn
<1>1. ASSUME NEW c \in Invokes, NotBound(c) PROVE LetIn'
  BY <1>k, <1>t, <1>1 DEF NotBound
<1>2. ASSUME NEW c \in Invokes, ReadsCount(c) PROVE LetIn'
  <2>1. invoke' = [invoke EXCEPT ![c].pc = IF AtLimit(c) THEN "refused" ELSE "read",
                                 ![c].active = counted[invoke[c].grant]]
    BY <1>2 DEF ReadsCount
  <2>2. /\ invoke'[c].pc = IF AtLimit(c) THEN "refused" ELSE "read"
        /\ invoke'[c].active = counted[invoke[c].grant]
        /\ \A d \in Invokes \ {c} : invoke'[d] = invoke[d]
    BY <1>t, <2>1
  <2>3. counted[invoke[c].grant] \in Nat /\ GrantLimit[c] \in Nat
    <3>1. invoke[c].grant \in Grants
      BY <1>t
    <3> QED
      BY <1>t, <3>1
  <2>4. invoke'[c].pc = "read" => invoke'[c].active < GrantLimit[c]
    BY <2>2, <2>3 DEF AtLimit
  <2> QED
    BY <2>2, <2>4 DEF LetIn
<1>3. ASSUME NEW c \in Invokes, Counts(c) PROVE LetIn'
  BY <1>k, <1>t, <1>3 DEF Counts
<1>4. ASSUME NEW c \in Invokes, NEW how \in Pcs \ {"idle", "read", "running"}, Ends(c, how)
      PROVE  LetIn'
  BY <1>k, <1>t, <1>4 DEF Ends
<1>5. ASSUME NEW c \in Invokes, Chunk(c) PROVE LetIn'
  <2>1. CASE \E how \in {"timed out", "partial"} : Ends(c, how)
    BY <1>4, <2>1
  <2>2. CASE invoke' = [invoke EXCEPT ![c].records = @ + 1]
    BY <1>k, <1>t, <2>2
  <2> QED
    BY <1>5, <2>1, <2>2 DEF Chunk
<1>6. ASSUME NEW c \in Invokes, ChunksEnd(c) PROVE LetIn'
  BY <1>4, <1>6 DEF ChunksEnd
<1>7. CASE UNCHANGED runtimeVars
  BY <1>k, <1>7 DEF runtimeVars
<1> QED
  BY <1>1, <1>2, <1>3, <1>5, <1>6, <1>7 DEF RuntimeNext

\* At first no call has read or been counted.
LEMMA RuntimeStart == RuntimeInit => RuntimeInv
<1> SUFFICES ASSUME RuntimeInit PROVE RuntimeInv
  OBVIOUS
<1> DEFINE Pcs == {"idle", "read", "running", "completed", "refused", "timed out", "partial"}
           Calls == [pc : Pcs, grant : Grants, active : Nat, records : 0..MaxChunks]
<1>1. /\ counted \in [Grants -> Nat] /\ \A g \in Grants : counted[g] = 0
      /\ order = << >> /\ crossed = FALSE
  BY DEF RuntimeInit
<1>2. PICK r \in [Invokes -> {[pc |-> "idle", grant |-> g, active |-> 0, records |-> 0] : g \in Grants}] :
        invoke = r
  BY DEF RuntimeInit
<1>3. 0 \in 0..MaxChunks
  BY RuntimeAssumption
<1>4. invoke \in [Invokes -> Calls] /\ \A c \in Invokes : invoke[c].pc = "idle" /\ invoke[c].active = 0
  <2>1. \A c \in Invokes : \E g \in Grants : r[c] = [pc |-> "idle", grant |-> g, active |-> 0, records |-> 0]
    OBVIOUS
  <2>2. \A c \in Invokes : r[c] \in Calls /\ r[c].pc = "idle" /\ r[c].active = 0
    <3> SUFFICES ASSUME NEW c \in Invokes PROVE r[c] \in Calls /\ r[c].pc = "idle" /\ r[c].active = 0
      OBVIOUS
    <3>1. PICK g \in Grants : r[c] = [pc |-> "idle", grant |-> g, active |-> 0, records |-> 0]
      BY <2>1
    <3>2. "idle" \in Pcs /\ 0 \in Nat /\ 0 \in 0..MaxChunks
      BY <1>3
    <3> QED
      BY <3>1, <3>2
  <2> HIDE DEF Calls
  <2> QED
    BY <1>2, <2>2
<1>5. Earned(0)
  BY DEF Earned
<1>6. RuntimeShape
  <2>1. order \in Seq(Invokes)
    BY <1>1
  <2> QED
    BY <1>1, <1>4, <1>5, <2>1 DEF RuntimeShape
<1>7. DOMAIN order = {} /\ Counted = {}
  <2>1. DOMAIN << >> = {}
    OBVIOUS
  <2> QED
    BY <1>1, <2>1 DEF Counted
<1>8. OrderOnce
  BY <1>4, <1>7 DEF OrderOnce
<1>9. ReadsRight
  <2>1. \A g \in Grants : Of(g) = {}
    BY <1>4 DEF Of
  <2> QED
    <3>1. \A g \in Grants : counted[g] = Cardinality(Of(g))
      BY <1>1, <2>1, FS_EmptySet
    <3>2. /\ \A c \in Counted : invoke[c].pc = "running"
          /\ \A i \in DOMAIN order : invoke[order[i]].active = Cardinality(Mates(i))
      BY <1>7
    <3>3. \A c \in Invokes : invoke[c].pc # "read"
      BY <1>4
    <3> QED
      BY <3>1, <3>2, <3>3 DEF ReadsRight
<1>10. LetIn
  BY <1>4 DEF LetIn
<1> QED
  BY <1>6, <1>8, <1>9, <1>10 DEF RuntimeInv

\* ConnectorRuntime.invoke: every count is earned by calls that read the
\* smaller ones, no call is counted twice, and while calls nest each has read
\* the number of calls of its grant that were counted before it.
THEOREM RuntimeInvariant == RuntimeSpec => []RuntimeInv
<1>1. RuntimeInit => RuntimeInv
  BY RuntimeStart
<1>2. RuntimeInv /\ [RuntimeNext]_runtimeVars => RuntimeInv'
  <2> SUFFICES ASSUME RuntimeInv, [RuntimeNext]_runtimeVars PROVE RuntimeInv'
    OBVIOUS
  <2>1. RuntimeShape /\ OrderOnce /\ LetIn /\ (~crossed => ReadsRight)
    BY DEF RuntimeInv
  <2>2. RuntimeShape' /\ OrderOnce' /\ LetIn'
    BY <2>1, RuntimeShapeStep, OrderOnceStep, LetInStep
  <2>3. ~crossed' => ReadsRight'
    BY <2>1, ReadsRightStep
  <2> QED
    BY <2>2, <2>3 DEF RuntimeInv
<1> QED
  BY <1>1, <1>2, PTL DEF RuntimeSpec

\* ConnectorRuntime.invoke: no count is negative or above the number of calls,
\* whatever the threads do, and while calls nest active_per_grant is the number
\* of the grant's running calls, and each of them runs inside fewer calls of its
\* grant than its own request allows.
THEOREM RuntimeIsSafe == RuntimeSpec => []RuntimeSafe
<1>1. RuntimeInv => RuntimeSafe
  <2> SUFFICES ASSUME RuntimeInv PROVE RuntimeSafe
    OBVIOUS
  <2> DEFINE Pcs == {"idle", "read", "running", "completed", "refused", "timed out", "partial"}
             N == Cardinality(Invokes)
  <2>1. \A n \in Nat : Earned(n) => n \in 0..N
    <3>1. \A n \in Nat : Earned(n) => n <= N /\ N \in Nat
      BY EarnedIsBounded
    <3> QED
      BY <3>1
  <2>2. /\ counted \in [Grants -> Nat] /\ \A g \in Grants : Earned(counted[g])
        /\ invoke \in [Invokes -> [pc : Pcs, grant : Grants, active : Nat, records : 0..MaxChunks]]
        /\ \A c \in Invokes : IF invoke[c].pc = "idle" THEN invoke[c].active = 0 ELSE Earned(invoke[c].active)
        /\ order \in Seq(Invokes) /\ crossed \in BOOLEAN
    BY DEF RuntimeInv, RuntimeShape
  <2>3. 0 \in 0..N
    <3>1. N \in Nat
      BY RuntimeAssumption, FS_CardinalityType
    <3> QED
      BY <3>1
  <2> HIDE DEF N, Pcs
  <2>4. counted \in [Grants -> 0..N]
    BY <2>1, <2>2
  <2>5. \A c \in Invokes : invoke[c].active \in 0..N
    BY <2>1, <2>2, <2>3
  <2>6. invoke \in [Invokes -> [pc : Pcs, grant : Grants, active : 0..N, records : 0..MaxChunks]]
    BY <2>2, <2>5
  <2>7. RuntimeTypeOK
    BY <2>2, <2>4, <2>6 DEF RuntimeTypeOK, N, Pcs
  <2>8. NestedCountExact
    <3>1. ASSUME ~crossed, NEW g \in Grants PROVE counted[g] = Cardinality(Of(g))
      BY <3>1 DEF RuntimeInv, ReadsRight
    <3>2. ASSUME ~crossed, NEW i \in DOMAIN order
          PROVE  Cardinality(Mates(i)) < GrantLimit[order[i]]
      <4>1. order[i] \in Invokes /\ order[i] \in Counted
        BY <2>2, ElementOfSeq, LenProperties DEF Counted
      <4>2. invoke[order[i]].pc = "running" /\ invoke[order[i]].active = Cardinality(Mates(i))
        BY <3>2, <4>1 DEF RuntimeInv, ReadsRight
      <4>3. invoke[order[i]].active < GrantLimit[order[i]]
        BY <4>1, <4>2 DEF RuntimeInv, LetIn
      <4> QED
        BY <4>2, <4>3
    <3> QED
      BY <3>1, <3>2 DEF NestedCountExact
  <2> QED
    BY <2>7, <2>8 DEF RuntimeSafe
<1> QED
  BY <1>1, RuntimeInvariant, PTL
=============================================================================
