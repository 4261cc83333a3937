---------------------------- MODULE FrameChannel ----------------------------
(***************************************************************************)
(* The frame layer of a relay session: RelayTransport.send_frame and       *)
(* recv_frame with the SequenceTracker of each direction, over a relay     *)
(* that the nodes do not control.                                          *)
(*                                                                         *)
(* A frame is a record: the direction key it was sealed with (from), the   *)
(* frame type, the sequence number in its header and its payload.  The     *)
(* AEAD seals all four, so the relay cannot make a frame: it can lose      *)
(* frames, and put in anything it has seen, at any place, or noise.        *)
(*                                                                         *)
(* send_frame reads the sequence number, encrypts, awaits ws.send and only *)
(* then advances the tracker.  When the socket's write buffer is full that *)
(* await suspends the task (Backpressure), and other tasks of the node may *)
(* call send_frame before it resumes, or cancel it.                        *)
(***************************************************************************)
EXTENDS Naturals, Sequences, FiniteSets

CONSTANTS Payloads,      \* what REQUEST, RESPONSE and ERROR frames carry: trace ids
          SendTypes,     \* the frame types callers of send_frame use
          Tasks,         \* the tasks of a node that call send_frame
          Backpressure,  \* may ws.send suspend the calling task?
          MaxFrames,     \* bound: frames each node sends
          FaultKinds,    \* faults considered, of "drop", "insert", "break"
          MaxFaults      \* bound: faults of the relay

ASSUME FrameChannelAssumption ==
  /\ Backpressure \in BOOLEAN
  /\ MaxFrames \in Nat
  /\ MaxFaults \in Nat

VARIABLES open,       \* open[p]: p's socket is open
          sent,       \* sent[p]: every frame p wrote to its socket
          wire,       \* wire[p]: frames from p that its peer has not read
          delivered,  \* delivered[p]: the frames recv_frame of p accepted
          sendSeq,    \* _send_seq._next_expected of each node
          recvSeq,    \* _recv_seq._next_expected of each node
          draining,   \* draining[p]: <<task, sequence number>> awaiting ws.send
          faults      \* faults of the relay so far

chanVars == <<open, sent, wire, delivered, sendSeq, recvSeq, draining, faults>>

Peers == {"buyer", "provider"}

Other(p) == IF p = "buyer" THEN "provider" ELSE "buyer"

AppTypes == {"REQUEST", "RESPONSE", "ERROR"}

ControlTypes == {"HEARTBEAT", "HEARTBEAT_ACK", "CLOSE", "CLOSE_ACK"}

\* A control frame has an empty payload (a CLOSE's reason is not told apart).
Empty == "empty"

Noise == [from |-> "nobody", type |-> "NOISE", seq |-> 0, payload |-> Empty]

Frames ==
  [from : Peers, type : AppTypes, seq : Nat, payload : Payloads]
    \cup [from : Peers, type : ControlTypes, seq : Nat, payload : {Empty}]

\* encrypt_frame, under the sender's own direction key and next sequence number.
Encrypt(p, type, payload) ==
  [from |-> p, type |-> type, seq |-> sendSeq[p], payload |-> payload]

\* Mutant of Accepts: both directions share one key, so a reflected frame opens.
AcceptsAnyKey(p, f) == f.from \in Peers /\ f.seq = recvSeq[p]

\* Mutant of Accepts: the tracker refuses gaps but lets old frames through.
AcceptsReplays(p, f) == f.from = Other(p) /\ f.seq <= recvSeq[p]

\* Mutant of Accepts: the tracker refuses old frames but lets gaps through.
AcceptsGaps(p, f) == f.from = Other(p) /\ f.seq >= recvSeq[p]

\* decrypt_frame with the inbound key, then validate_and_advance.
Accepts(p, f) == f.from = Other(p) /\ f.seq = recvSeq[p]

ChannelInit ==
  /\ open = [p \in Peers |-> TRUE]
  /\ sent = [p \in Peers |-> << >>]
  /\ wire = [p \in Peers |-> << >>]
  /\ delivered = [p \in Peers |-> << >>]
  /\ sendSeq = [p \in Peers |-> 0]
  /\ recvSeq = [p \in Peers |-> 0]
  /\ draining = [p \in Peers |-> {}]
  /\ faults = 0

(***************************************************************************)
(* What a run of p's event loop between two awaits does to the channel:    *)
(* it takes the next frame or not (take), then sends the frames of out, of *)
(* which there is at most one.  A frame taken is delivered if recv_frame   *)
(* accepts it and is lost otherwise: the exception leaves the tracker as   *)
(* it was.                                                                 *)
(***************************************************************************)
Taken(p, take) == take /\ Accepts(p, Head(wire[Other(p)]))

Write(p, take, out) ==
  /\ take => wire[Other(p)] # << >>
  /\ out # << >> => open[p] /\ Len(sent[p]) < MaxFrames
  /\ sent' = [sent EXCEPT ![p] = @ \o out]
  /\ wire' = [q \in Peers |->
                IF q = p THEN wire[q] \o out
                ELSE IF take THEN Tail(wire[q]) ELSE wire[q]]
  /\ delivered' = IF Taken(p, take)
                    THEN [delivered EXCEPT ![p] = Append(@, Head(wire[Other(p)]))]
                    ELSE delivered
  /\ recvSeq' = IF Taken(p, take) THEN [recvSeq EXCEPT ![p] = @ + 1] ELSE recvSeq
  /\ UNCHANGED faults

\* The turn in which no ws.send suspends: the tracker advances with the write.
Turn(p, take, out) ==
  /\ Write(p, take, out)
  /\ sendSeq' = [sendSeq EXCEPT ![p] = @ + Len(out)]
  /\ UNCHANGED draining

\* The turn that ends suspended in ws.send: the tracker has not advanced yet.
TurnSuspended(p, k, take, f) ==
  /\ Backpressure
  /\ \A d \in draining[p] : d[1] # k
  /\ Write(p, take, <<f>>)
  /\ draining' = [draining EXCEPT ![p] = @ \cup {<<k, f.seq>>}]
  /\ UNCHANGED sendSeq

-----------------------------------------------------------------------------
(* The operations, with any task of a node calling send_frame at any time. *)

\* What the callers send: a request goes to the provider, its answer comes back;
\* acknowledgements are recv_frame's own.
Messages(p) ==
  {m \in (AppTypes \X Payloads) \cup ({"HEARTBEAT", "CLOSE"} \X {Empty}) :
     /\ m[1] \in SendTypes
     /\ m[1] = "REQUEST" => p = "buyer"
     /\ m[1] \in {"RESPONSE", "ERROR"} => p = "provider"}

SendFrame(p, k) ==
  /\ \A d \in draining[p] : d[1] # k
  /\ \E m \in Messages(p) :
       LET f == Encrypt(p, m[1], m[2]) IN
       \/ Turn(p, FALSE, <<f>>)
       \/ TurnSuspended(p, k, FALSE, f)
  /\ UNCHANGED open

\* ws.send returns: validate_and_advance, which raises if the tracker moved on.
SendResumes(p, k) ==
  /\ \E d \in draining[p] :
       /\ d[1] = k
       /\ sendSeq' = IF d[2] = sendSeq[p] THEN [sendSeq EXCEPT ![p] = @ + 1] ELSE sendSeq
       /\ draining' = [draining EXCEPT ![p] = @ \ {d}]
  /\ UNCHANGED <<open, sent, wire, delivered, recvSeq, faults>>

\* The task is cancelled inside ws.send: the frame is out, the tracker stays.
SendCancelled(p, k) ==
  /\ \E d \in draining[p] : d[1] = k /\ draining' = [draining EXCEPT ![p] = @ \ {d}]
  /\ UNCHANGED <<open, sent, wire, delivered, sendSeq, recvSeq, faults>>

\* recv_frame acknowledges HEARTBEAT and CLOSE before it returns or loops.
AckOf(p, f) ==
  IF ~Accepts(p, f) THEN << >>
  ELSE CASE f.type = "HEARTBEAT" -> <<Encrypt(p, "HEARTBEAT_ACK", Empty)>>
         [] f.type = "CLOSE"     -> <<Encrypt(p, "CLOSE_ACK", Empty)>>
         [] OTHER                -> << >>

\* One round of recv_frame by task k; on a closed socket the ACK is not sent.
RecvFrame(p, k) ==
  /\ \A d \in draining[p] : d[1] # k
  /\ wire[Other(p)] # << >>
  /\ LET ack == AckOf(p, Head(wire[Other(p)])) IN
       \/ Turn(p, TRUE, IF open[p] THEN ack ELSE << >>)
       \/ ack # << >> /\ TurnSuspended(p, k, TRUE, ack[1])
  /\ UNCHANGED open

CloseSocket(p) ==
  /\ open[p]
  /\ open' = [open EXCEPT ![p] = FALSE]
  /\ UNCHANGED <<sent, wire, delivered, sendSeq, recvSeq, draining, faults>>

-----------------------------------------------------------------------------
(* The relay.                                                              *)

RelayDrops(p) ==
  /\ "drop" \in FaultKinds
  /\ faults < MaxFaults
  /\ faults' = faults + 1
  /\ \E i \in 1..Len(wire[p]) :
       wire' = [wire EXCEPT ![p] = SubSeq(@, 1, i - 1) \o SubSeq(@, i + 1, Len(@))]
  /\ UNCHANGED <<open, sent, delivered, sendSeq, recvSeq, draining>>

\* Everything the relay can put on a wire: what either node ever sent, or noise.
Replayable ==
  {Noise} \cup (UNION {{sent[q][j] : j \in 1..Len(sent[q])} : q \in Peers})

RelayInserts(p) ==
  /\ "insert" \in FaultKinds
  /\ faults < MaxFaults
  /\ faults' = faults + 1
  /\ \E i \in 1..(Len(wire[p]) + 1), f \in Replayable :
       wire' = [wire EXCEPT ![p] = SubSeq(@, 1, i - 1) \o <<f>> \o SubSeq(@, i, Len(@))]
  /\ UNCHANGED <<open, sent, delivered, sendSeq, recvSeq, draining>>

ChannelNext ==
  \E p \in Peers :
    \/ \E k \in Tasks : SendFrame(p, k) \/ SendResumes(p, k) \/ SendCancelled(p, k) \/ RecvFrame(p, k)
    \/ CloseSocket(p)
    \/ RelayDrops(p)
    \/ RelayInserts(p)

ChannelSpec == ChannelInit /\ [][ChannelNext]_chanVars

-----------------------------------------------------------------------------
(* Properties.                                                             *)

\* The state has its type.
ChannelTypeOK ==
  /\ open \in [Peers -> BOOLEAN]
  /\ sent \in [Peers -> Seq(Frames)]
  /\ wire \in [Peers -> Seq(Frames \cup {Noise})]
  /\ delivered \in [Peers -> Seq(Frames)]
  /\ sendSeq \in [Peers -> Nat]
  /\ recvSeq \in [Peers -> Nat]
  /\ draining \in [Peers -> SUBSET (Tasks \X Nat)]
  /\ faults \in 0..MaxFaults

(***************************************************************************)
(* Per direction, no two frames carry the same sequence number (which is   *)
(* also the nonce): what "strict monotonic sequence enforcement" in        *)
(* relay_crypto.SequenceTracker is for.                                    *)
(***************************************************************************)
SequencesFresh ==
  \A p \in Peers : \A i, j \in 1..Len(sent[p]) :
    sent[p][i].seq = sent[p][j].seq => i = j

(***************************************************************************)
(* Whatever the relay loses, repeats, reorders, reflects or makes up, the  *)
(* frames recv_frame accepts are a prefix of the frames the peer's         *)
(* send_frame wrote.                                                       *)
(***************************************************************************)
DeliveredInOrder ==
  \A p \in Peers :
    /\ Len(delivered[p]) <= Len(sent[Other(p)])
    /\ \A i \in 1..Len(delivered[p]) : delivered[p][i] = sent[Other(p)][i]

(***************************************************************************)
(* Backpressure or not, the i-th frame a node accepts is one its peer      *)
(* sealed, with sequence number i - 1: nothing forged, reflected or        *)
(* repeated is ever accepted.                                              *)
(***************************************************************************)
AcceptedAreSent ==
  \A p \in Peers : \A i \in 1..Len(delivered[p]) :
    /\ delivered[p][i].seq = i - 1
    /\ \E j \in 1..Len(sent[Other(p)]) : delivered[p][i] = sent[Other(p)][j]

\* The frame layer implements the abstract first-in first-out stream.
Stream == INSTANCE FifoStream WITH sent <- sent, delivered <- delivered

ImplementsStream == Stream!Spec

-----------------------------------------------------------------------------
(* The inductive invariant behind both, when no send suspends.             *)

\* The send tracker counts the frames written, and each carries its index.
SendCounts ==
  \A p \in Peers :
    /\ sendSeq[p] = Len(sent[p])
    /\ \A i \in 1..Len(sent[p]) : sent[p][i].seq = i - 1 /\ sent[p][i].from = p

\* The receive tracker counts the frames accepted.
RecvCounts == \A p \in Peers : recvSeq[p] = Len(delivered[p])

\* Whatever is on a wire was sealed by one of the nodes, or is noise.
WireSeen ==
  \A p \in Peers : \A i \in 1..Len(wire[p]) :
    \/ wire[p][i] = Noise
    \/ \E q \in Peers : \E j \in 1..Len(sent[q]) : wire[p][i] = sent[q][j]

\* Nothing is suspended in ws.send.
NoneDraining == \A p \in Peers : draining[p] = {}

ChannelInv ==
  /\ ChannelTypeOK
  /\ NoneDraining
  /\ SendCounts
  /\ RecvCounts
  /\ WireSeen
  /\ DeliveredInOrder
=============================================================================
