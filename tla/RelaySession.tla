---------------------------- MODULE RelaySession ----------------------------
(***************************************************************************)
(* One established relay session between a consumer node (buyer) and a     *)
(* provider node: RelayTransport on both sides, the provider's             *)
(* _process_session loop and the consumer's concurrent send_request calls. *)
(*                                                                         *)
(* Each node is one asyncio event loop; an action is what a task does from *)
(* one await to the next.  pc[k] names the await task k is at:             *)
(*   idle, slot      a request not made yet / waiting for a request slot   *)
(*   recv            ws.recv, inside send_request or _process_session      *)
(*   adapter         the provider's adapter.forward_request                *)
(*   sleep30, sleep5 the two sleeps of _heartbeat_loop                     *)
(*   stopHb          close() awaiting the heartbeat task it cancelled      *)
(*   ackwait         close() in recv_frame, waiting for CLOSE_ACK          *)
(*   wsClose         close() in its finally, awaiting ws.close()           *)
(*   done            the task has returned or raised                       *)
(* ws.recv refuses a second caller with an exception, so at most one task  *)
(* of a node is at recv or ackwait.  Frames are sent as FrameChannel says, *)
(* with no send suspended.                                                 *)
(***************************************************************************)
EXTENDS FrameChannel

CONSTANTS MaxConcurrent,  \* _max_concurrent request slots
          MissLimit,      \* missed heartbeats before close("error"): 3 in the code
          MaxBeats,       \* bound: heartbeats the two nodes send while all is well
          FaultBeats,     \* bound: heartbeats more that they send after each fault
          PatientTimers   \* timers fire only when no frame is there to be read

ASSUME RelaySessionAssumption ==
  /\ Backpressure = FALSE
  /\ MaxConcurrent \in Nat \ {0}
  /\ MissLimit \in Nat \ {0}
  /\ MaxBeats \in Nat
  /\ FaultBeats \in Nat
  /\ PatientTimers \in BOOLEAN
  /\ Payloads \cap {"closer", "proc", "hb_buyer", "hb_provider", "none"} = {}

VARIABLES state,     \* RelayTransport.state
          pc,        \* pc[k]: the await task k is at
          result,    \* result[t]: how the request t ended
          slots,     \* free places of _request_slots
          pending,   \* keys of _pending_requests
          job,       \* the request the provider's adapter works on
          awaiting,  \* _awaiting_heartbeat_ack
          missed,    \* _missed_heartbeats
          active,    \* active[p]: _last_activity moved since the 30 s sleep began
          beats      \* heartbeats sent, for the bound

sessVars == <<state, pc, result, slots, pending, job, awaiting, missed, active, beats>>

vars == <<chanVars, sessVars>>

Hb == [p \in Peers |-> IF p = "buyer" THEN "hb_buyer" ELSE "hb_provider"]

Actors == Payloads \cup {"closer", "proc", "hb_buyer", "hb_provider"}

Home(k) == IF k \in {"proc", "hb_provider"} THEN "provider" ELSE "buyer"

NoJob == "none"

Init ==
  /\ ChannelInit
  /\ state = [p \in Peers |-> "ESTABLISHED"]
  /\ pc = [k \in Actors |->
             IF k \in {"hb_buyer", "hb_provider"} THEN "sleep30"
             ELSE IF k = "proc" THEN "recv" ELSE "idle"]
  /\ result = [t \in Payloads |-> "none"]
  /\ slots = MaxConcurrent
  /\ pending = {}
  /\ job = NoJob
  /\ awaiting = [p \in Peers |-> FALSE]
  /\ missed = [p \in Peers |-> 0]
  /\ active = [p \in Peers |-> FALSE]
  /\ beats = 0

-----------------------------------------------------------------------------
(* Parts of a turn.                                                        *)

\* The tasks of p inside ws.recv.
Readers(p) == {k \in Actors : Home(k) = p /\ pc[k] \in {"recv", "ackwait"}}

\* The next frame for p.
Incoming(p) == Head(wire[Other(p)])

\* recv_frame raises: a frame that does not authenticate or is out of sequence,
\* or an acknowledgement that cannot be sent.
RecvRaises(p) ==
  \/ ~Accepts(p, Incoming(p))
  \/ (AckOf(p, Incoming(p)) # << >> /\ ~open[p])

\* recv_frame handles the frame itself and reads on.
RecvLoops(p) == ~RecvRaises(p) /\ Incoming(p).type \in {"HEARTBEAT", "HEARTBEAT_ACK"}

\* recv_frame returns this type of frame to its caller.
RecvReturns(p, types) == ~RecvRaises(p) /\ Incoming(p).type \in types

\* The channel's part of a turn of p; send_frame and recv_frame note the activity.
Exchange(p, take, out) ==
  /\ Turn(p, take, out)
  /\ active' = [active EXCEPT ![p] = @ \/ Taken(p, take) \/ out # << >>]

\* The turn of recv_frame itself, the acknowledgement it sends included.
Reads(p) ==
  /\ Exchange(p, TRUE, IF open[p] THEN AckOf(p, Incoming(p)) ELSE << >>)
  /\ LET acked == Accepts(p, Incoming(p)) /\ Incoming(p).type = "HEARTBEAT_ACK" IN
       /\ awaiting' = [awaiting EXCEPT ![p] = @ /\ ~acked]
       /\ missed' = [missed EXCEPT ![p] = IF acked THEN 0 ELSE @]

\* A task that reaches ws.close() closes the socket.
Sockets == open' = [p \in Peers |-> open[p] /\ \A k \in Actors : Home(k) = p => pc'[k] # "wsClose"]

\* Where a cancelled heartbeat task goes: its close() still runs its finally, but
\* a cancellation inside that finally ends it before state = CLOSED.
Cancelled(at) == IF at = "ackwait" THEN "wsClose" ELSE "done"

\* Where task k waits after close() has sent CLOSE (or failed to): a socket that
\* is closed, or that another task reads, makes it raise and run the finally.
AwaitAck(k) ==
  IF ~open[Home(k)] \/ Readers(Home(k)) \ {k} # {} THEN "wsClose" ELSE "ackwait"

CloseFrame(p) == IF open[p] THEN <<Encrypt(p, "CLOSE", Empty)>> ELSE << >>

\* Mutant of MustStopHb: close() leaves the heartbeat task alone.
NeverStopHb(k) == FALSE

\* close() first cancels a running heartbeat task other than the caller.
MustStopHb(k) == k # Hb[Home(k)] /\ pc[Hb[Home(k)]] # "done"

ClosePc(k) ==
  IF state[Home(k)] = "CLOSED" THEN "done"
  ELSE IF MustStopHb(k) THEN "stopHb" ELSE AwaitAck(k)

CloseOut(k) ==
  IF ClosePc(k) \in {"done", "stopHb"} THEN << >> ELSE CloseFrame(Home(k))

\* Mutant of BeginClose: close() does not return early on a closed transport.
BeginCloseAgain(k) ==
  /\ pc' = [pc EXCEPT ![k] = ClosePc(k),
                      ![Hb[Home(k)]] = IF ClosePc(k) = "stopHb" THEN Cancelled(@) ELSE @]
  /\ state' = [state EXCEPT ![Home(k)] = "CLOSING"]
  /\ Sockets

\* The task's part of close() up to its first await.
BeginClose(k) ==
  /\ pc' = [pc EXCEPT ![k] = ClosePc(k),
                      ![Hb[Home(k)]] = IF ClosePc(k) = "stopHb" THEN Cancelled(@) ELSE @]
  /\ state' = [state EXCEPT ![Home(k)] = IF @ = "CLOSED" THEN @ ELSE "CLOSING"]
  /\ Sockets

\* Timers of 5 s and more are slow against the network: no frame waits for a
\* reader and no task is about to move.
Quiet ==
  /\ \A p \in Peers : wire[Other(p)] = << >> \/ Readers(p) = {}
  /\ \A k \in Actors : pc[k] \notin {"adapter", "stopHb", "wsClose"}

TimerFires == PatientTimers => Quiet

-----------------------------------------------------------------------------
(* Consumer: send_request.                                                 *)

\* A request finds no free slot and waits for one.
WaitForSlot(t) ==
  /\ pc[t] = "idle" /\ pc["closer"] = "idle"
  /\ slots = 0
  /\ pc' = [pc EXCEPT ![t] = "slot"]
  /\ UNCHANGED <<chanVars, state, result, slots, pending, job, awaiting, missed, active, beats>>

\* A request gets a slot, sends REQUEST and starts to read; close_session forgets
\* the session first, so no request is made after it.
SendRequest(t) ==
  /\ pc[t] = "slot" \/ (pc[t] = "idle" /\ pc["closer"] = "idle")
  /\ slots > 0
  /\ Exchange("buyer", FALSE,
              IF open["buyer"] THEN <<Encrypt("buyer", "REQUEST", t)>> ELSE << >>)
  /\ IF open["buyer"] /\ Readers("buyer") = {}
       THEN /\ pc' = [pc EXCEPT ![t] = "recv"]
            /\ slots' = slots - 1
            /\ pending' = pending \cup {t}
            /\ UNCHANGED result
       ELSE /\ pc' = [pc EXCEPT ![t] = "done"]
            /\ result' = [result EXCEPT ![t] = "raised"]
            /\ UNCHANGED <<slots, pending>>
  /\ UNCHANGED <<open, state, job, awaiting, missed, beats>>

\* Mutant of FinishRequest: only the normal return releases the slot.
FinishRequestLeaks(t, r) ==
  /\ pc' = [pc EXCEPT ![t] = "done"]
  /\ result' = [result EXCEPT ![t] = r]
  /\ slots' = IF r = "response" THEN slots + 1 ELSE slots
  /\ pending' = pending \ {t}

\* The finally of send_request.
FinishRequest(t, r) ==
  /\ pc' = [pc EXCEPT ![t] = "done"]
  /\ result' = [result EXCEPT ![t] = r]
  /\ slots' = slots + 1
  /\ pending' = pending \ {t}

\* Mutant of RequestReads: the trace id of an answer is not compared.
RequestReadsAny(t) ==
  /\ pc[t] = "recv"
  /\ wire["provider"] # << >>
  /\ Reads("buyer")
  /\ \/ RecvRaises("buyer") /\ FinishRequest(t, "raised")
     \/ RecvReturns("buyer", {"RESPONSE"}) /\ FinishRequest(t, "response")
     \/ RecvReturns("buyer", {"ERROR"}) /\ FinishRequest(t, "error")
     \/ /\ RecvLoops("buyer") \/ RecvReturns("buyer", {"CLOSE", "CLOSE_ACK"})
        /\ UNCHANGED <<pc, result, slots, pending>>
  /\ UNCHANGED <<open, state, job, beats>>

RequestReads(t) ==
  /\ pc[t] = "recv"
  /\ wire["provider"] # << >>
  /\ Reads("buyer")
  /\ LET mine == Incoming("buyer").payload = t IN
       \/ RecvRaises("buyer") /\ FinishRequest(t, "raised")
       \/ RecvReturns("buyer", {"RESPONSE"}) /\ mine /\ FinishRequest(t, "response")
       \/ RecvReturns("buyer", {"ERROR"}) /\ mine /\ FinishRequest(t, "error")
       \/ /\ \/ RecvLoops("buyer")
             \/ RecvReturns("buyer", {"CLOSE", "CLOSE_ACK"})
             \/ RecvReturns("buyer", {"RESPONSE", "ERROR"}) /\ ~mine
          /\ UNCHANGED <<pc, result, slots, pending>>
  /\ UNCHANGED <<open, state, job, beats>>

\* ws.recv raises ConnectionClosed.
RequestLost(t) ==
  /\ pc[t] = "recv" /\ ~open["buyer"]
  /\ FinishRequest(t, "raised")
  /\ UNCHANGED <<chanVars, state, job, awaiting, missed, active, beats>>

-----------------------------------------------------------------------------
(* close(), called by the consumer's close_session, by the provider's      *)
(* _process_session when its loop ends, and by either heartbeat loop.      *)

CloseSession ==
  /\ pc["closer"] = "idle"
  /\ Exchange("buyer", FALSE, CloseOut("closer"))
  /\ BeginClose("closer")
  /\ UNCHANGED <<result, slots, pending, job, awaiting, missed, beats>>

HeartbeatStopped(k) ==
  /\ pc[k] = "stopHb" /\ pc[Hb[Home(k)]] = "done"
  /\ Exchange(Home(k), FALSE, CloseFrame(Home(k)))
  /\ pc' = [pc EXCEPT ![k] = AwaitAck(k)]
  /\ Sockets
  /\ UNCHANGED <<state, result, slots, pending, job, awaiting, missed, beats>>

\* Any frame recv_frame returns ends the wait: CLOSE_ACK well, another by raising.
CloseReads(k) ==
  /\ pc[k] = "ackwait"
  /\ wire[Other(Home(k))] # << >>
  /\ Reads(Home(k))
  /\ pc' = IF RecvLoops(Home(k)) THEN pc ELSE [pc EXCEPT ![k] = "wsClose"]
  /\ Sockets
  /\ UNCHANGED <<state, result, slots, pending, job, beats>>

\* The 5 s timeout of wait_for, or ConnectionClosed from ws.recv.
CloseGivesUp(k) ==
  /\ pc[k] = "ackwait"
  /\ ~open[Home(k)] \/ TimerFires
  /\ pc' = [pc EXCEPT ![k] = "wsClose"]
  /\ Sockets
  /\ UNCHANGED <<sent, wire, delivered, sendSeq, recvSeq, draining, faults,
                 state, result, slots, pending, job, awaiting, missed, active, beats>>

\* Mutant of SocketClosed: state = CLOSED is not in the finally.
SocketClosedOnly(k) ==
  /\ pc[k] = "wsClose"
  /\ pc' = [pc EXCEPT ![k] = "done"]
  /\ UNCHANGED <<chanVars, state, result, slots, pending, job, awaiting, missed, active, beats>>

SocketClosed(k) ==
  /\ pc[k] = "wsClose"
  /\ pc' = [pc EXCEPT ![k] = "done"]
  /\ state' = [state EXCEPT ![Home(k)] = "CLOSED"]
  /\ UNCHANGED <<chanVars, result, slots, pending, job, awaiting, missed, active, beats>>

-----------------------------------------------------------------------------
(* _heartbeat_loop.                                                        *)

\* The 30 s sleep ends.
HeartbeatWakes(p) ==
  /\ pc[Hb[p]] = "sleep30"
  /\ TimerFires
  /\ \/ /\ state[p] # "ESTABLISHED"
        /\ pc' = [pc EXCEPT ![Hb[p]] = "done"]
        /\ UNCHANGED <<chanVars, awaiting, active, beats>>
     \/ /\ state[p] = "ESTABLISHED" /\ active[p]
        /\ active' = [active EXCEPT ![p] = FALSE]
        /\ UNCHANGED <<chanVars, pc, awaiting, beats>>
     \/ /\ state[p] = "ESTABLISHED" /\ ~active[p]
        /\ beats < MaxBeats + faults * FaultBeats
        /\ beats' = beats + 1
        /\ awaiting' = [awaiting EXCEPT ![p] = TRUE]
        /\ Exchange(p, FALSE, IF open[p] THEN <<Encrypt(p, "HEARTBEAT", Empty)>> ELSE << >>)
        /\ pc' = [pc EXCEPT ![Hb[p]] = IF open[p] THEN "sleep5" ELSE "done"]
        /\ UNCHANGED open
  /\ UNCHANGED <<state, result, slots, pending, job, missed>>

\* The 5 s sleep ends: no acknowledgement was read meanwhile, or one was.
HeartbeatChecks(p) ==
  /\ pc[Hb[p]] = "sleep5"
  /\ TimerFires
  /\ \/ /\ state[p] # "ESTABLISHED"
        /\ pc' = [pc EXCEPT ![Hb[p]] = "done"]
        /\ UNCHANGED <<chanVars, state, awaiting, missed, active>>
     \/ /\ state[p] = "ESTABLISHED" /\ awaiting[p] /\ missed[p] + 1 >= MissLimit
        /\ missed' = [missed EXCEPT ![p] = @ + 1]
        /\ awaiting' = [awaiting EXCEPT ![p] = FALSE]
        /\ Exchange(p, FALSE, CloseOut(Hb[p]))
        /\ BeginClose(Hb[p])
     \/ /\ state[p] = "ESTABLISHED" /\ (awaiting[p] => missed[p] + 1 < MissLimit)
        /\ missed' = [missed EXCEPT ![p] = IF awaiting[p] THEN @ + 1 ELSE @]
        /\ awaiting' = [awaiting EXCEPT ![p] = FALSE]
        /\ active' = [active EXCEPT ![p] = FALSE]
        /\ pc' = [pc EXCEPT ![Hb[p]] = "sleep30"]
        /\ UNCHANGED <<chanVars, state>>
  /\ UNCHANGED <<result, slots, pending, job, beats>>

-----------------------------------------------------------------------------
(* Provider: _process_session.                                             *)

ProcessReads ==
  /\ pc["proc"] = "recv"
  /\ wire["buyer"] # << >>
  /\ \/ /\ RecvRaises("provider")
        /\ Exchange("provider", TRUE, CloseOut("proc"))
        /\ BeginClose("proc")
        /\ UNCHANGED <<job, awaiting, missed>>
     \/ /\ RecvReturns("provider", {"REQUEST"})
        /\ Reads("provider")
        /\ job' = Incoming("provider").payload
        /\ pc' = [pc EXCEPT !["proc"] = "adapter"]
        /\ UNCHANGED <<open, state>>
     \/ /\ ~RecvRaises("provider") /\ ~RecvReturns("provider", {"REQUEST"})
        /\ Reads("provider")
        /\ UNCHANGED <<open, state, job, pc>>
  /\ UNCHANGED <<result, slots, pending, beats>>

\* The adapter answers or raises AdapterError; RESPONSE or ERROR goes back and the
\* loop reads on, unless the socket is closed or close() is reading it.
AdapterReplies ==
  /\ pc["proc"] = "adapter"
  /\ job' = NoJob
  /\ \E type \in {"RESPONSE", "ERROR"} :
       Exchange("provider", FALSE,
                IF open["provider"] THEN <<Encrypt("provider", type, job)>> ELSE << >>)
  /\ IF open["provider"] /\ Readers("provider") = {}
       THEN pc' = [pc EXCEPT !["proc"] = "recv"] /\ UNCHANGED <<open, state>>
       ELSE BeginClose("proc")
  /\ UNCHANGED <<result, slots, pending, awaiting, missed, beats>>

\* ws.recv raises ConnectionClosed, or the handler's stop() cancels the task.
ProcessEnds ==
  /\ pc["proc"] \in {"recv", "adapter"}
  /\ job' = NoJob
  /\ Exchange("provider", FALSE, CloseOut("proc"))
  /\ BeginClose("proc")
  /\ UNCHANGED <<result, slots, pending, awaiting, missed, beats>>

\* Mutant of ProcessLost: the loop swallows ConnectionClosed and reads again.
ProcessLostIgnored == pc["proc"] = "recv" /\ ~open["provider"] /\ UNCHANGED vars

ProcessLost == pc["proc"] = "recv" /\ ~open["provider"] /\ ProcessEnds

StopProvider == ProcessEnds

-----------------------------------------------------------------------------
(* The network.                                                            *)

\* The relay closes the other leg when one leg is gone.
RelayHangsUp(p) ==
  /\ open[p] /\ ~open[Other(p)]
  /\ open' = [open EXCEPT ![p] = FALSE]
  /\ UNCHANGED <<sent, wire, delivered, sendSeq, recvSeq, draining, faults, sessVars>>

\* A leg of the session breaks.
LinkBreaks(p) ==
  /\ "break" \in FaultKinds
  /\ open[p]
  /\ faults < MaxFaults
  /\ faults' = faults + 1
  /\ open' = [open EXCEPT ![p] = FALSE]
  /\ UNCHANGED <<sent, wire, delivered, sendSeq, recvSeq, draining, sessVars>>

RelayMisbehaves(p) == (RelayDrops(p) \/ RelayInserts(p)) /\ UNCHANGED sessVars

-----------------------------------------------------------------------------
Closers == {"closer", "proc", "hb_buyer", "hb_provider"}

Next ==
  \/ \E t \in Payloads : WaitForSlot(t) \/ SendRequest(t) \/ RequestReads(t) \/ RequestLost(t)
  \/ CloseSession \/ ProcessReads \/ AdapterReplies \/ ProcessLost \/ StopProvider
  \/ \E k \in Closers : HeartbeatStopped(k) \/ CloseReads(k) \/ CloseGivesUp(k) \/ SocketClosed(k)
  \/ \E p \in Peers : HeartbeatWakes(p) \/ HeartbeatChecks(p) \/ RelayHangsUp(p)
                        \/ LinkBreaks(p) \/ RelayMisbehaves(p)

Spec == Init /\ [][Next]_vars

(***************************************************************************)
(* An event loop runs every task that can run, timers fire, the adapter's  *)
(* HTTP call returns or times out, and the relay forwards what it did not  *)
(* lose and hangs up when a leg is gone.  Nobody must make a request,      *)
(* close, stop, or break anything.                                         *)
(***************************************************************************)
TaskRuns(k) ==
  \/ k \in Payloads /\ ((pc[k] = "slot" /\ SendRequest(k)) \/ RequestReads(k) \/ RequestLost(k))
  \/ k = "proc" /\ (ProcessReads \/ AdapterReplies \/ ProcessLost)
  \/ \E p \in Peers : k = Hb[p] /\ (HeartbeatWakes(p) \/ HeartbeatChecks(p))
  \/ k \in Closers /\ (HeartbeatStopped(k) \/ CloseReads(k) \/ CloseGivesUp(k) \/ SocketClosed(k))

Fairness ==
  /\ \A k \in Actors : WF_vars(TaskRuns(k))
  /\ \A p \in Peers : WF_vars(RelayHangsUp(p))

FairSpec == Spec /\ Fairness

-----------------------------------------------------------------------------
(* Properties.                                                             *)

\* The session's state has its type.
SessionTypeOK ==
  /\ state \in [Peers -> {"ESTABLISHED", "CLOSING", "CLOSED"}]
  /\ pc \in [Actors -> {"idle", "slot", "recv", "adapter", "sleep30", "sleep5",
                        "stopHb", "ackwait", "wsClose", "done"}]
  /\ result \in [Payloads -> {"none", "raised", "response", "error"}]
  /\ slots \in 0..MaxConcurrent
  /\ pending \subseteq Payloads
  /\ job \in Payloads \cup {NoJob}
  /\ awaiting \in [Peers -> BOOLEAN]
  /\ missed \in [Peers -> 0..MissLimit]
  /\ active \in [Peers -> BOOLEAN]
  /\ beats \in 0..(MaxBeats + MaxFaults * FaultBeats)

\* How often a message is in a sequence of frames.
CountOf(s, type, payload) ==
  Cardinality({i \in 1..Len(s) : s[i].type = type /\ s[i].payload = payload})

Calls == INSTANCE RemoteCalls WITH
  Requests <- Payloads,
  asked <- [t \in Payloads |-> CountOf(sent["buyer"], "REQUEST", t)],
  taken <- [t \in Payloads |-> CountOf(delivered["provider"], "REQUEST", t)],
  answers <- [t \in Payloads |->
                [a \in {"response", "error"} |->
                   CountOf(sent["provider"], IF a = "response" THEN "RESPONSE" ELSE "ERROR", t)]]

(***************************************************************************)
(* The session implements RemoteCalls: however often the relay repeats a   *)
(* REQUEST, _process_session takes it on at most once, and send_request    *)
(* ends once, with the one answer to that request or by raising.           *)
(***************************************************************************)
ImplementsCalls == Calls!Spec

(***************************************************************************)
(* send_request returns a RESPONSE or raises an ERROR only for a request   *)
(* the provider handled, and with the answer the provider gave to it.      *)
(***************************************************************************)
ResultsGenuine ==
  \A t \in Payloads :
    LET answered(type) == \E i \in 1..Len(sent["provider"]) :
                             sent["provider"][i].type = type /\ sent["provider"][i].payload = t
    IN /\ result[t] = "response" => answered("RESPONSE") /\ CountOf(delivered["provider"], "REQUEST", t) = 1
       /\ result[t] = "error" => answered("ERROR") /\ CountOf(delivered["provider"], "REQUEST", t) = 1

(***************************************************************************)
(* Every path out of send_request gives its slot back and forgets its      *)
(* future: the slots in use are exactly the requests in flight.            *)
(***************************************************************************)
SlotsAccounted ==
  /\ slots + Cardinality(pending) = MaxConcurrent
  /\ pending = {t \in Payloads : pc[t] = "recv"}

(***************************************************************************)
(* A transport in CLOSING always has a task inside close() that will take  *)
(* it to CLOSED, although close() cancels a heartbeat task that may itself *)
(* be inside close().                                                      *)
(***************************************************************************)
ClosingIsOwned ==
  \A p \in Peers : state[p] = "CLOSING" =>
    \E k \in Closers : Home(k) = p /\ pc[k] \in {"stopHb", "ackwait", "wsClose"}

(***************************************************************************)
(* However many tasks run close() on a transport, at most one CLOSE frame  *)
(* leaves each node.                                                       *)
(***************************************************************************)
OneClose ==
  \A p \in Peers : \A i, j \in 1..Len(sent[p]) :
    sent[p][i].type = "CLOSE" /\ sent[p][j].type = "CLOSE" => i = j

\* A session is closed once: CLOSING is on its way to CLOSED in the hands of a
\* task, and a node sends one CLOSE however many of its tasks call close().
ClosesOnce == SessionTypeOK /\ ClosingIsOwned /\ OneClose

(***************************************************************************)
(* CLOSED is final: the state does not leave it and nothing is sent after, *)
(* although send_frame never looks at the state.                           *)
(***************************************************************************)
ClosedIsFinal ==
  [][\A p \in Peers : state[p] = "CLOSED" => state'[p] = "CLOSED" /\ sent'[p] = sent[p]]_vars

(***************************************************************************)
(* The requests in flight end, whatever the relay loses: the loss shows as *)
(* a gap in the sequence at the next heartbeat, or as missed heartbeats,   *)
(* and the slot goes to the request that waits for one.                    *)
(***************************************************************************)
RequestEnds ==
  (\E t \in Payloads : pc[t] \in {"slot", "recv"}) ~>
    (\A t \in Payloads : pc[t] \in {"idle", "done"})

\* close() always gets its transport to CLOSED.
CloseCompletes ==
  (\E p \in Peers : state[p] = "CLOSING") ~> (\A p \in Peers : state[p] # "CLOSING")

\* When the consumer's transport is closed the provider's transport closes too.
ProviderFollows == (state["buyer"] = "CLOSED") ~> (state["provider"] = "CLOSED")

(***************************************************************************)
(* What the tests say of the heartbeat: a transport is force-closed after  *)
(* MissLimit missed acknowledgements.  So when one is counted as missed    *)
(* the peer has not sent it: no HEARTBEAT_ACK is waiting to be read.       *)
(***************************************************************************)
MissedMeansUnanswered ==
  [][\A p \in Peers : missed'[p] > missed[p] =>
       \A i \in 1..Len(wire[Other(p)]) : wire[Other(p)][i].type # "HEARTBEAT_ACK"]_vars

(***************************************************************************)
(* send_request "waits for matching RESPONSE/ERROR": with a relay that     *)
(* loses nothing, it does not raise while both sockets are open.           *)
(***************************************************************************)
RequestWaitsForAnswer ==
  [][\A t \in Payloads : result'[t] = "raised" /\ result[t] = "none" =>
       \E p \in Peers : ~open'[p]]_vars
=============================================================================
