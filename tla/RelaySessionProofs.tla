------------------------- MODULE RelaySessionProofs -------------------------
(***************************************************************************)
(* Proofs about RelaySession, for any number of requests and slots, any    *)
(* limits of the heartbeat, and all bounds: any number of frames, faults   *)
(* and heartbeats.                                                         *)
(***************************************************************************)
EXTENDS RelaySession, FrameChannelProofs, FiniteSetTheorems

\* What a frame says, its sequence number and sealing aside.
Message(f) == <<f.type, f.payload>>

\* The messages in a sequence of frames, and those that are there twice.
Spoken(s) == {Message(s[i]) : i \in 1..Len(s)}

Twice(s) == {m \in Spoken(s) : \E i, j \in 1..Len(s) : i # j /\ Message(s[i]) = m /\ Message(s[j]) = m}

\* What each node has sent, has sent twice, and has accepted.
Said == [p \in Peers |-> Spoken(sent[p])]

Repeated == [p \in Peers |-> Twice(sent[p])]

Heard == [p \in Peers |-> Spoken(delivered[p])]

CloseMessage == <<"CLOSE", Empty>>

\* The task of p other than the heartbeat's that calls close().
Main == [p \in Peers |-> IF p = "buyer" THEN "closer" ELSE "proc"]

\* The awaits that each kind of task can be at.
Places ==
  /\ \A t \in Payloads : pc[t] \in {"idle", "slot", "recv", "done"}
  /\ pc["closer"] \in {"idle", "stopHb", "ackwait", "wsClose", "done"}
  /\ pc["proc"] \in {"recv", "adapter", "stopHb", "ackwait", "wsClose", "done"}
  /\ \A p \in Peers : pc[Hb[p]] \in {"sleep30", "sleep5", "ackwait", "wsClose", "done"}

\* The heartbeat counts up to its limit while the transport is established.
BelowLimit == \A p \in Peers : state[p] = "ESTABLISHED" => missed[p] < MissLimit

\* One task of p is inside close() past its first await, and then the other is
\* out of it or on its way; who closes has left ESTABLISHED.
OneCloser ==
  \A p \in Peers :
    /\ pc[Main[p]] = "stopHb" => pc[Hb[p]] \in {"wsClose", "done"}
    /\ pc[Main[p]] \in {"ackwait", "wsClose"} => pc[Hb[p]] = "done"
    /\ \A k \in {Main[p], Hb[p]} :
         /\ pc[k] \in {"stopHb", "ackwait", "wsClose"} => state[p] # "ESTABLISHED"
         /\ pc[k] = "wsClose" => ~open[p]

\* After a CLOSE the socket is closed or its sender waits for the answer.
CloseWaits ==
  \A p \in Peers :
    /\ state[p] = "CLOSED" => ~open[p]
    /\ state[p] = "ESTABLISHED" => CloseMessage \notin Said[p]
    /\ CloseMessage \in Said[p] /\ open[p] => \E k \in {Main[p], Hb[p]} : pc[k] = "ackwait"
    /\ CloseMessage \notin Repeated[p]

CloseInv == OneCloser /\ CloseWaits /\ ClosingIsOwned

\* A request is sent by its task, once; the adapter's job, and an answer, is of a
\* request that the provider accepted; a result is an answer the provider sent.
AskInv ==
  /\ \A t \in Payloads :
       /\ <<"REQUEST", t>> \notin Repeated["buyer"]
       /\ pc[t] \in {"idle", "slot"} => <<"REQUEST", t>> \notin Said["buyer"]
       /\ \A type \in {"RESPONSE", "ERROR"} :
            <<type, t>> \in Said["provider"] => <<"REQUEST", t>> \in Heard["provider"]
       /\ result[t] = "response" => <<"RESPONSE", t>> \in Said["provider"]
       /\ result[t] = "error" => <<"ERROR", t>> \in Said["provider"]
  /\ pc["proc"] = "adapter" => <<"REQUEST", job>> \in Heard["provider"] /\ job \in Payloads

SlotInv == SlotsAccounted /\ IsFiniteSet(pending)

SessInv ==
  /\ ChannelInv
  /\ SessionTypeOK
  /\ Places
  /\ BelowLimit
  /\ CloseInv
  /\ SlotInv
  /\ AskInv
-----------------------------------------------------------------------------
(* What a turn says.                                                       *)

LEMMA SpokenAppended ==
  ASSUME NEW S, NEW s \in Seq(S), NEW f \in S
  PROVE  /\ Spoken(s \o <<f>>) = Spoken(s) \cup {Message(f)}
         /\ Twice(s \o <<f>>) \subseteq Twice(s) \cup (Spoken(s) \cap {Message(f)})
<1> DEFINE u == s \o <<f>>
<1>1. /\ Len(s) \in Nat /\ Len(u) = Len(s) + 1
      /\ \A i \in 1..Len(s) : u[i] = s[i]
      /\ u[Len(s) + 1] = f
  OBVIOUS
<1> HIDE DEF u
<1>2. 1..Len(u) = 1..Len(s) \cup {Len(s) + 1}
  BY <1>1
<1>3. Spoken(u) = Spoken(s) \cup {Message(f)}
  BY <1>1, <1>2 DEF Spoken
<1>4. ASSUME NEW m \in Twice(u) PROVE m \in Twice(s) \cup (Spoken(s) \cap {Message(f)})
  <2>1. PICK i \in 1..Len(u), j \in 1..Len(u) : i # j /\ Message(u[i]) = m /\ Message(u[j]) = m
    BY <1>4 DEF Twice
  <2>2. CASE i \in 1..Len(s) /\ j \in 1..Len(s)
    <3>1. Message(s[i]) = m /\ Message(s[j]) = m
      BY <1>1, <2>1, <2>2
    <3> QED
      BY <2>1, <2>2, <3>1 DEF Twice, Spoken
  <2>3. CASE i = Len(s) + 1 \/ j = Len(s) + 1
    <3>1. m = Message(f)
      BY <1>1, <2>1, <2>3
    <3>2. \E k \in 1..Len(s) : Message(s[k]) = m
      BY <1>1, <1>2, <2>1, <2>3
    <3> QED
      BY <3>1, <3>2 DEF Spoken
  <2> QED
    BY <1>2, <2>1, <2>2, <2>3
<1> QED
  BY <1>3, <1>4 DEF u

LEMMA SpokenNothing == Spoken(<< >>) = {}
BY DEF Spoken

LEMMA SpokenOne == ASSUME NEW f PROVE Spoken(<<f>>) = {Message(f)}
<1>1. Len(<<f>>) = 1 /\ <<f>>[1] = f /\ 1..1 = {1}
  OBVIOUS
<1> QED
  BY <1>1 DEF Spoken

\* What a turn of p does to what the nodes have said and heard.
TurnSays(p, take, out) ==
  /\ Said' = [Said EXCEPT ![p] = @ \cup Spoken(out)]
  /\ Repeated'[Other(p)] = Repeated[Other(p)]
  /\ Repeated'[p] \subseteq Repeated[p] \cup (Said[p] \cap Spoken(out))
  /\ Heard' = IF Taken(p, take)
                THEN [Heard EXCEPT ![p] = @ \cup {Message(Head(wire[Other(p)]))}]
                ELSE Heard

LEMMA TurnIsSaid ==
  ASSUME ChannelInv, NEW p \in Peers, NEW take \in BOOLEAN, NEW out,
         Outgoing(p, out), Turn(p, take, out)
  PROVE  TurnSays(p, take, out)
<1>t. /\ sent \in [Peers -> Seq(Frames)] /\ delivered \in [Peers -> Seq(Frames)]
      /\ wire \in [Peers -> Seq(Frames \cup {Noise})]
  BY DEF ChannelInv, ChannelTypeOK
<1>o. Other(p) \in Peers /\ Other(p) # p /\ Peers = {p, Other(p)}
  BY DEF Other, Peers
<1>w. Write(p, take, out)
  BY DEF Turn
<1>1. sent' = [sent EXCEPT ![p] = sent[p] \o out]
  BY <1>w DEF Write
<1>2. Spoken(sent[p] \o out) = Spoken(sent[p]) \cup Spoken(out)
      /\ Twice(sent[p] \o out) \subseteq Twice(sent[p]) \cup (Spoken(sent[p]) \cap Spoken(out))
  <2>1. CASE out = << >>
    <3>1. sent[p] \o << >> = sent[p]
      BY <1>t, ConcatEmptySeq
    <3> QED
      BY <2>1, <3>1, SpokenNothing
  <2>2. ASSUME NEW f \in Frames, out = <<f>>
        PROVE Spoken(sent[p] \o out) = Spoken(sent[p]) \cup Spoken(out)
              /\ Twice(sent[p] \o out) \subseteq Twice(sent[p]) \cup (Spoken(sent[p]) \cap Spoken(out))
    <3>1. sent[p] \in Seq(Frames)
      BY <1>t
    <3> QED
      BY <2>2, <3>1, SpokenAppended, SpokenOne
  <2> QED
    BY <2>1, <2>2 DEF Outgoing
<1>3. /\ Said' = [Said EXCEPT ![p] = @ \cup Spoken(out)]
      /\ Repeated'[Other(p)] = Repeated[Other(p)]
      /\ Repeated'[p] \subseteq Repeated[p] \cup (Said[p] \cap Spoken(out))
  <2>1. sent'[p] = sent[p] \o out /\ sent'[Other(p)] = sent[Other(p)]
    BY <1>t, <1>o, <1>1
  <2> HIDE DEF Twice, Spoken
  <2>2. Said' = [q \in Peers |-> Spoken(sent'[q])] /\ Repeated' = [q \in Peers |-> Twice(sent'[q])]
    BY DEF Said, Repeated
  <2> QED
    BY <1>o, <1>2, <2>1, <2>2 DEF Said, Repeated
<1>4. Heard' = IF Taken(p, take)
                 THEN [Heard EXCEPT ![p] = @ \cup {Message(Head(wire[Other(p)]))}]
                 ELSE Heard
  <2>0. Heard' = [q \in Peers |-> Spoken(delivered'[q])]
    BY DEF Heard
  <2>1. CASE ~Taken(p, take)
    BY <1>w, <2>0, <2>1 DEF Write, Heard
  <2>2. CASE Taken(p, take)
    <3> DEFINE f == Head(wire[Other(p)])
               T == Frames \cup {Noise}
    <3>1. delivered' = [delivered EXCEPT ![p] = Append(@, f)]
      BY <1>w, <2>2 DEF Write
    <3>2. f \in T
      BY <1>t, <1>o, <1>w, <2>2, HeadTailProperties DEF Write, Taken
    <3> HIDE DEF f, T
    <3>3. delivered[p] \in Seq(T)
      BY <1>t DEF T
    <3>4. Append(delivered[p], f) = delivered[p] \o <<f>>
      BY <3>2, <3>3, AppendIsConcat
    <3>5. delivered'[p] = delivered[p] \o <<f>> /\ delivered'[Other(p)] = delivered[Other(p)]
      BY <1>t, <1>o, <3>1, <3>4
    <3>6. Spoken(delivered'[p]) = Spoken(delivered[p]) \cup {Message(f)}
      BY <3>2, <3>3, <3>5, SpokenAppended
    <3> HIDE DEF Spoken
    <3> QED
      BY <1>o, <2>0, <2>2, <3>5, <3>6 DEF Heard, f
  <2> QED
    BY <2>1, <2>2
<1> QED
  BY <1>3, <1>4 DEF TurnSays

\* What a node accepted its peer has said.
LEMMA HeardIsSaid ==
  ASSUME ChannelInv, NEW p \in Peers
  PROVE  Heard[p] \subseteq Said[Other(p)]
<1>o. Other(p) \in Peers
  BY DEF Other, Peers
<1>1. Len(delivered[p]) \in Nat /\ Len(sent[Other(p)]) \in Nat
  BY <1>o, LenProperties DEF ChannelInv, ChannelTypeOK
<1>2. \A i \in 1..Len(delivered[p]) : i \in 1..Len(sent[Other(p)]) /\ delivered[p][i] = sent[Other(p)][i]
  BY <1>1 DEF ChannelInv, DeliveredInOrder
<1> QED
  BY <1>o, <1>2 DEF Heard, Said, Spoken

-----------------------------------------------------------------------------
(* What the operations send.                                               *)

LEMMA EncryptSays ==
  ASSUME ChannelTypeOK, NEW p \in Peers, NEW type, NEW x,
         (type \in AppTypes /\ x \in Payloads) \/ (type \in ControlTypes /\ x = Empty)
  PROVE  Outgoing(p, <<Encrypt(p, type, x)>>) /\ Spoken(<<Encrypt(p, type, x)>>) = {<<type, x>>}
<1>1. Encrypt(p, type, x) \in Frames
  <2>1. sendSeq[p] \in Nat
    BY DEF ChannelTypeOK
  <2> QED
    BY <2>1 DEF Encrypt, Frames
<1>2. /\ Encrypt(p, type, x).from = p /\ Encrypt(p, type, x).seq = sendSeq[p]
      /\ Message(Encrypt(p, type, x)) = <<type, x>>
  BY DEF Encrypt, Message
<1> HIDE DEF Encrypt
<1> QED
  BY <1>1, <1>2, SpokenOne DEF Outgoing

LEMMA CloseFrameSays ==
  ASSUME ChannelTypeOK, NEW p \in Peers
  PROVE  /\ Outgoing(p, CloseFrame(p))
         /\ Spoken(CloseFrame(p)) = IF open[p] THEN {CloseMessage} ELSE {}
<1>1. /\ Outgoing(p, <<Encrypt(p, "CLOSE", Empty)>>)
      /\ Spoken(<<Encrypt(p, "CLOSE", Empty)>>) = {CloseMessage}
  BY EncryptSays DEF ControlTypes, CloseMessage
<1>2. Outgoing(p, << >>)
  BY DEF Outgoing
<1> QED
  BY <1>1, <1>2, SpokenNothing DEF CloseFrame

Acks == {<<"HEARTBEAT_ACK", Empty>>, <<"CLOSE_ACK", Empty>>}

LEMMA AckSays ==
  ASSUME ChannelTypeOK, NEW p \in Peers, NEW f
  PROVE  Outgoing(p, AckOf(p, f)) /\ Spoken(AckOf(p, f)) \subseteq Acks
<1>1. AckOf(p, f) \in {<< >>, <<Encrypt(p, "HEARTBEAT_ACK", Empty)>>, <<Encrypt(p, "CLOSE_ACK", Empty)>>}
  BY DEF AckOf
<1>2. \A type \in {"HEARTBEAT_ACK", "CLOSE_ACK"} :
        /\ Outgoing(p, <<Encrypt(p, type, Empty)>>)
        /\ Spoken(<<Encrypt(p, type, Empty)>>) = {<<type, Empty>>}
  BY EncryptSays DEF ControlTypes
<1>3. Outgoing(p, << >>)
  BY DEF Outgoing
<1> QED
  BY <1>1, <1>2, <1>3, SpokenNothing DEF Acks

\* A turn of p in which the session sends out.
Turned(p, take, out) ==
  /\ take \in BOOLEAN
  /\ Outgoing(p, out)
  /\ Turn(p, take, out)
  /\ active' = [active EXCEPT ![p] = @ \/ Taken(p, take) \/ out # << >>]
  /\ TurnSays(p, take, out)

LEMMA ExchangeIsTurned ==
  ASSUME ChannelInv, NEW p \in Peers, NEW take \in BOOLEAN, NEW out,
         Outgoing(p, out), Exchange(p, take, out)
  PROVE  Turned(p, take, out)
BY TurnIsSaid DEF Exchange, Turned

\* recv_frame sends an acknowledgement at most.
ReadOut(p) == IF open[p] THEN AckOf(p, Incoming(p)) ELSE << >>

LEMMA ReadsIsTurned ==
  ASSUME ChannelInv, NEW p \in Peers, Reads(p)
  PROVE  Turned(p, TRUE, ReadOut(p)) /\ Spoken(ReadOut(p)) \subseteq Acks
<1>1. Outgoing(p, ReadOut(p)) /\ Spoken(ReadOut(p)) \subseteq Acks
  BY AckSays, SpokenNothing DEF ReadOut, Outgoing, ChannelInv
<1>2. Exchange(p, TRUE, ReadOut(p))
  BY DEF Reads, ReadOut
<1> QED
  BY <1>1, <1>2, ExchangeIsTurned

LEMMA CloseIsTurned ==
  ASSUME ChannelInv, NEW k \in Closers, NEW take \in BOOLEAN, Exchange(Home(k), take, CloseOut(k))
  PROVE  /\ Turned(Home(k), take, CloseOut(k))
         /\ Spoken(CloseOut(k)) =
              IF ClosePc(k) \notin {"done", "stopHb"} /\ open[Home(k)] THEN {CloseMessage} ELSE {}
<1>1. Home(k) \in Peers
  BY DEF Home, Peers
<1>2. /\ Outgoing(Home(k), CloseOut(k))
      /\ Spoken(CloseOut(k)) =
           IF ClosePc(k) \notin {"done", "stopHb"} /\ open[Home(k)] THEN {CloseMessage} ELSE {}
  <2> DEFINE p == Home(k)
  <2>1. Outgoing(p, CloseFrame(p)) /\ Spoken(CloseFrame(p)) = IF open[p] THEN {CloseMessage} ELSE {}
    BY <1>1, CloseFrameSays DEF ChannelInv
  <2>2. Outgoing(p, << >>)
    BY DEF Outgoing
  <2> HIDE DEF p
  <2>3. CloseOut(k) = IF ClosePc(k) \in {"done", "stopHb"} THEN << >> ELSE CloseFrame(p)
    BY DEF CloseOut, p
  <2>4. Outgoing(p, CloseOut(k))
    BY <2>1, <2>2, <2>3
  <2>5. Spoken(CloseOut(k)) = IF ClosePc(k) \notin {"done", "stopHb"} /\ open[p] THEN {CloseMessage} ELSE {}
    BY <2>1, <2>3, SpokenNothing
  <2> QED
    BY <2>4, <2>5 DEF p
<1> QED
  BY <1>1, <1>2, ExchangeIsTurned

LEMMA StopIsTurned ==
  ASSUME ChannelInv, NEW k \in Closers, Exchange(Home(k), FALSE, CloseFrame(Home(k)))
  PROVE  /\ Turned(Home(k), FALSE, CloseFrame(Home(k)))
         /\ Spoken(CloseFrame(Home(k))) = IF open[Home(k)] THEN {CloseMessage} ELSE {}
<1>1. Home(k) \in Peers
  BY DEF Home, Peers
<1>2. /\ Outgoing(Home(k), CloseFrame(Home(k)))
      /\ Spoken(CloseFrame(Home(k))) = IF open[Home(k)] THEN {CloseMessage} ELSE {}
  BY <1>1, CloseFrameSays DEF ChannelInv
<1> QED
  BY <1>1, <1>2, ExchangeIsTurned

\* A task that sends a message of its own if the socket is open.
SendOut(p, type, x) == IF open[p] THEN <<Encrypt(p, type, x)>> ELSE << >>

LEMMA SendIsTurned ==
  ASSUME ChannelInv, NEW p \in Peers, NEW type, NEW x,
         (type \in AppTypes /\ x \in Payloads) \/ (type \in ControlTypes /\ x = Empty),
         Exchange(p, FALSE, SendOut(p, type, x))
  PROVE  /\ Turned(p, FALSE, SendOut(p, type, x))
         /\ Spoken(SendOut(p, type, x)) = IF open[p] THEN {<<type, x>>} ELSE {}
<1>1. /\ Outgoing(p, SendOut(p, type, x))
      /\ Spoken(SendOut(p, type, x)) = IF open[p] THEN {<<type, x>>} ELSE {}
  <2>1. Outgoing(p, <<Encrypt(p, type, x)>>) /\ Spoken(<<Encrypt(p, type, x)>>) = {<<type, x>>}
    BY EncryptSays DEF ChannelInv
  <2>2. Outgoing(p, << >>)
    BY DEF Outgoing
  <2> QED
    BY <2>1, <2>2, SpokenNothing DEF SendOut
<1> QED
  BY <1>1, ExchangeIsTurned

-----------------------------------------------------------------------------
(* Every step is a turn, leaves the frames alone, or is the relay's.       *)

TurnStep == \E p \in Peers, take \in BOOLEAN : \E out : Turned(p, take, out)

StillStep ==
  /\ UNCHANGED <<sent, wire, delivered, sendSeq, recvSeq, draining>>
  /\ faults' \in 0..MaxFaults

RelayStep == \E p \in Peers : RelayDrops(p) \/ RelayInserts(p)

LEMMA StepShape ==
  ASSUME ChannelInv, AskInv, [Next]_vars
  PROVE  open' \in [Peers -> BOOLEAN] /\ (TurnStep \/ StillStep \/ RelayStep)
<1>t. open \in [Peers -> BOOLEAN] /\ faults \in 0..MaxFaults /\ MaxFaults \in Nat
  BY FrameChannelAssumption DEF ChannelInv, ChannelTypeOK
<1>h. "buyer" \in Peers /\ "provider" \in Peers /\ \A k \in Closers : Home(k) \in Peers
  BY DEF Peers, Home
<1>c. {"closer", "proc"} \subseteq Closers /\ Home("closer") = "buyer" /\ Home("proc") = "provider"
  BY DEF Closers, Home
<1>b. \A p \in Peers : Hb[p] \in Closers /\ Home(Hb[p]) = p
  BY DEF Peers, Home, Hb, Closers
<1>s. ASSUME Sockets PROVE open' \in [Peers -> BOOLEAN]
  BY <1>s DEF Sockets
<1>still. UNCHANGED chanVars => open' \in [Peers -> BOOLEAN] /\ StillStep
  BY <1>t DEF chanVars, StillStep
<1>turn. ASSUME NEW p \in Peers, NEW take \in BOOLEAN, NEW out, Turned(p, take, out) PROVE TurnStep
  BY <1>turn DEF TurnStep
<1>reads. ASSUME NEW p \in Peers, Reads(p) PROVE TurnStep
  BY <1>reads, <1>turn, ReadsIsTurned
<1>close. ASSUME NEW k \in Closers, NEW take \in BOOLEAN, Exchange(Home(k), take, CloseOut(k)) PROVE TurnStep
  BY <1>close, <1>turn, <1>h, CloseIsTurned
<1>1. ASSUME NEW t \in Payloads, SendRequest(t) PROVE open' \in [Peers -> BOOLEAN] /\ TurnStep
  <2>1. Exchange("buyer", FALSE, SendOut("buyer", "REQUEST", t)) /\ UNCHANGED open
    BY <1>1 DEF SendRequest, SendOut
  <2> QED
    BY <1>h, <1>t, <1>turn, <2>1, SendIsTurned DEF AppTypes
<1>2. ASSUME NEW t \in Payloads, RequestReads(t) PROVE open' \in [Peers -> BOOLEAN] /\ TurnStep
  BY <1>2, <1>h, <1>t, <1>reads DEF RequestReads
<1>3. ASSUME NEW t \in Payloads, WaitForSlot(t) \/ RequestLost(t) PROVE UNCHANGED chanVars
  BY <1>3 DEF WaitForSlot, RequestLost
<1>4. CASE CloseSession
  BY <1>4, <1>c, <1>s, <1>close DEF CloseSession, BeginClose
<1>5. CASE ProcessReads
  <2>1. \/ Exchange("provider", TRUE, CloseOut("proc")) /\ Sockets
        \/ Reads("provider") /\ UNCHANGED open
    BY <1>5 DEF ProcessReads, BeginClose
  <2> QED
    BY <1>c, <1>h, <1>s, <1>t, <1>close, <1>reads, <2>1
<1>6. ASSUME ProcessEnds PROVE open' \in [Peers -> BOOLEAN] /\ TurnStep
  BY <1>6, <1>c, <1>s, <1>close DEF ProcessEnds, BeginClose
<1>7. ASSUME AdapterReplies PROVE open' \in [Peers -> BOOLEAN] /\ TurnStep
  <2>1. PICK type \in {"RESPONSE", "ERROR"} : Exchange("provider", FALSE, SendOut("provider", type, job))
    BY <1>7 DEF AdapterReplies, SendOut
  <2>2. open' \in [Peers -> BOOLEAN]
    BY <1>7, <1>t, <1>s DEF AdapterReplies, BeginClose
  <2>3. job \in Payloads
    BY <1>7 DEF AdapterReplies, AskInv
  <2> QED
    BY <1>h, <1>turn, <2>1, <2>2, <2>3, SendIsTurned DEF AppTypes
<1>8. ASSUME NEW k \in Closers, HeartbeatStopped(k) PROVE open' \in [Peers -> BOOLEAN] /\ TurnStep
  BY <1>8, <1>h, <1>s, <1>turn, StopIsTurned DEF HeartbeatStopped
<1>9. ASSUME NEW k \in Closers, CloseReads(k) PROVE open' \in [Peers -> BOOLEAN] /\ TurnStep
  BY <1>9, <1>h, <1>s, <1>reads DEF CloseReads
<1>10. ASSUME NEW k \in Closers, CloseGivesUp(k) PROVE open' \in [Peers -> BOOLEAN] /\ StillStep
  BY <1>10, <1>s, <1>t DEF CloseGivesUp, StillStep
<1>11. ASSUME NEW k \in Closers, SocketClosed(k) PROVE UNCHANGED chanVars
  BY <1>11 DEF SocketClosed
<1>12. ASSUME NEW p \in Peers, HeartbeatWakes(p)
       PROVE  open' \in [Peers -> BOOLEAN] /\ (StillStep \/ TurnStep)
  <2>1. \/ UNCHANGED chanVars
        \/ Exchange(p, FALSE, SendOut(p, "HEARTBEAT", Empty)) /\ UNCHANGED open
    BY <1>12 DEF HeartbeatWakes, SendOut
  <2> QED
    BY <1>t, <1>still, <1>turn, <2>1, SendIsTurned DEF ControlTypes
<1>13. ASSUME NEW p \in Peers, HeartbeatChecks(p)
       PROVE  open' \in [Peers -> BOOLEAN] /\ (StillStep \/ TurnStep)
  <2>1. \/ UNCHANGED chanVars
        \/ Exchange(Home(Hb[p]), FALSE, CloseOut(Hb[p])) /\ Sockets
    BY <1>13, <1>b DEF HeartbeatChecks, BeginClose
  <2> QED
    BY <1>b, <1>s, <1>still, <1>close, <2>1
<1>14. ASSUME NEW p \in Peers, RelayHangsUp(p) \/ LinkBreaks(p) PROVE open' \in [Peers -> BOOLEAN] /\ StillStep
  <2>1. open' = [open EXCEPT ![p] = FALSE] /\ UNCHANGED <<sent, wire, delivered, sendSeq, recvSeq, draining>>
    BY <1>14 DEF RelayHangsUp, LinkBreaks
  <2>2. faults' = faults \/ (faults < MaxFaults /\ faults' = faults + 1)
    BY <1>14 DEF RelayHangsUp, LinkBreaks
  <2> QED
    BY <1>t, <2>1, <2>2 DEF StillStep
<1>15. ASSUME NEW p \in Peers, RelayMisbehaves(p) PROVE open' \in [Peers -> BOOLEAN] /\ RelayStep
  BY <1>15, <1>t DEF RelayMisbehaves, RelayStep, RelayDrops, RelayInserts
<1>16. CASE UNCHANGED vars
  BY <1>16, <1>still DEF vars
<1> QED
  BY <1>1, <1>2, <1>3, <1>4, <1>5, <1>6, <1>7, <1>8, <1>9, <1>10, <1>11, <1>12, <1>13, <1>14, <1>15, <1>16, <1>still
     DEF Next, ProcessLost, StopProvider

LEMMA ChannelStep ==
  ASSUME ChannelInv, AskInv, [Next]_vars
  PROVE  ChannelInv'
<1>o. open' \in [Peers -> BOOLEAN]
  BY StepShape
<1>r. RecvInv /\ SendCounts /\ NoneDraining
  BY OrderGivesGenuine DEF ChannelInv
<1> SUFFICES RecvInv' /\ SendCounts' /\ NoneDraining'
  <2>1. RecvInv /\ SendCounts => DeliveredInOrder
    BY CountsGiveOrder
  <2>2. RecvInv' /\ SendCounts' => DeliveredInOrder'
    BY <2>1, CountsGiveOrder, PTL
  <2> QED
    BY <2>2 DEF ChannelInv, RecvInv
<1>1. CASE TurnStep
  <2>1. PICK p \in Peers, take \in BOOLEAN : \E out : Turned(p, take, out)
    BY <1>1 DEF TurnStep
  <2>2. PICK out : Turned(p, take, out)
    BY <2>1
  <2>3. Outgoing(p, out) /\ Turn(p, take, out)
    BY <2>2 DEF Turned
  <2>4. out \in Seq(Frames)
    <3>1. CASE out = << >>
      BY <3>1
    <3>2. ASSUME NEW f \in Frames, out = <<f>> PROVE out \in Seq(Frames)
      BY <3>2
    <3> QED
      BY <2>3, <3>1, <3>2 DEF Outgoing
  <2>5. PlainTurn(p)
    BY <1>o, <2>3, <2>4 DEF PlainTurn
  <2>6. NoneDraining'
    BY <1>r, <2>3 DEF Turn, NoneDraining
  <2> QED
    BY <1>r, <2>5, <2>6, PlainTurnKeepsRecvInv, TurnKeepsCounts
<1>2. CASE StillStep
  BY <1>o, <1>r, <1>2
     DEF StillStep, RecvInv, ChannelTypeOK, RecvCounts, WireSeen, SentOwn, AcceptedAreSent,
         SendCounts, NoneDraining
<1>3. CASE RelayStep
  <2>1. PICK p \in Peers : RelayDrops(p) \/ RelayInserts(p)
    BY <1>3 DEF RelayStep
  <2>2. RecvInv'
    BY <1>r, <2>1, RelayKeepsRecvInv
  <2>3. UNCHANGED <<sent, sendSeq, draining>>
    BY <2>1 DEF RelayDrops, RelayInserts
  <2> QED
    BY <1>r, <2>2, <2>3 DEF SendCounts, NoneDraining
<1> QED
  BY <1>1, <1>2, <1>3, StepShape

-----------------------------------------------------------------------------
(* Where the tasks are.                                                    *)

Awaits == {"idle", "slot", "recv", "adapter", "sleep30", "sleep5", "stopHb", "ackwait", "wsClose", "done"}

LEMMA TasksDiffer ==
  /\ Actors = Payloads \cup Closers
  /\ Payloads \cap Closers = {}
  /\ \A k \in Closers : Home(k) \in Peers /\ k \in {Main[Home(k)], Hb[Home(k)]}
  /\ \A p \in Peers : {Main[p], Hb[p]} \subseteq Closers /\ Main[p] # Hb[p]
                      /\ Home(Main[p]) = p /\ Home(Hb[p]) = p
  /\ Main["buyer"] = "closer" /\ Main["provider"] = "proc"
  /\ Closers = {"closer", "proc", Hb["buyer"], Hb["provider"]}
  /\ Hb["buyer"] # Hb["provider"] /\ "closer" # "proc"
  /\ Peers = {"buyer", "provider"}
BY RelaySessionAssumption DEF Actors, Closers, Home, Main, Hb, Peers

\* What close() does with the tasks up to its first await.
LEMMA BeginCloseMoves ==
  ASSUME NEW k \in Closers, pc \in [Actors -> Awaits], BeginClose(k)
  PROVE  LET hb == Hb[Home(k)] IN
         /\ pc' \in [Actors -> Awaits]
         /\ \A a \in Actors \ {k, hb} : pc'[a] = pc[a]
         /\ pc'[k] = ClosePc(k)
         /\ k # hb => pc'[hb] = IF ClosePc(k) = "stopHb" THEN Cancelled(pc[hb]) ELSE pc[hb]
         /\ ClosePc(k) \in {"done", "stopHb", "ackwait", "wsClose"}
         /\ ClosePc(k) = "done" <=> state[Home(k)] = "CLOSED"
         /\ ClosePc(k) = "stopHb" <=> state[Home(k)] # "CLOSED" /\ k # hb /\ pc[hb] # "done"
<1> DEFINE hb == Hb[Home(k)]
<1>1. k \in Actors /\ hb \in Actors
  BY TasksDiffer
<1>2. pc' = [pc EXCEPT ![k] = ClosePc(k), ![hb] = IF ClosePc(k) = "stopHb" THEN Cancelled(@) ELSE @]
  BY DEF BeginClose
<1>3. /\ ClosePc(k) \in {"done", "stopHb", "ackwait", "wsClose"}
      /\ ClosePc(k) = "done" <=> state[Home(k)] = "CLOSED"
      /\ ClosePc(k) = "stopHb" <=> state[Home(k)] # "CLOSED" /\ k # hb /\ pc[hb] # "done"
  BY DEF ClosePc, MustStopHb, AwaitAck
<1>4. \A at : Cancelled(at) \in {"wsClose", "done"}
  BY DEF Cancelled
<1> HIDE DEF hb
<1>5. k = hb => ClosePc(k) # "stopHb"
  BY <1>3
<1> QED
  BY <1>1, <1>2, <1>3, <1>4, <1>5 DEF hb, Awaits

LEMMA PlacesStep ==
  ASSUME SessInv, [Next]_vars
  PROVE  pc' \in [Actors -> Awaits] /\ Places'
<1>t. pc \in [Actors -> Awaits] /\ Places
  BY DEF SessInv, SessionTypeOK, Awaits
<1>d. /\ Actors = Payloads \cup Closers /\ Payloads \cap Closers = {}
      /\ Closers = {"closer", "proc", Hb["buyer"], Hb["provider"]}
      /\ Hb["buyer"] # Hb["provider"] /\ "closer" # "proc"
      /\ \A p \in Peers : Hb[p] \notin {"closer", "proc"} /\ p \in {"buyer", "provider"}
      /\ \A k \in Closers : Home(k) \in Peers /\ k \in {"closer", "proc", Hb[Home(k)]}
      /\ \A p \in Peers : Hb[p] \in Closers /\ Home(Hb[p]) = p
      /\ "buyer" \in Peers /\ "provider" \in Peers
  BY TasksDiffer DEF Main
<1>u. ASSUME UNCHANGED pc PROVE pc' \in [Actors -> Awaits] /\ Places'
  BY <1>t, <1>u DEF Places
<1>m. ASSUME NEW k \in Actors, NEW at, pc' = [pc EXCEPT ![k] = at],
             \/ k \in Payloads /\ at \in {"slot", "recv", "done"}
             \/ k = "proc" /\ at \in {"recv", "adapter"}
             \/ k \in Closers /\ at \in {"ackwait", "wsClose", "done"}
             \/ k \in {Hb["buyer"], Hb["provider"]} /\ at \in {"sleep30", "sleep5"}
      PROVE  pc' \in [Actors -> Awaits] /\ Places'
  <2>1. at \in Awaits
    BY <1>m DEF Awaits
  <2>2. pc' \in [Actors -> Awaits] /\ pc'[k] = at /\ \A a \in Actors \ {k} : pc'[a] = pc[a]
    BY <1>t, <1>m, <2>1
  <2> QED
    BY <1>d, <1>t, <1>m, <2>2 DEF Places
<1>b. ASSUME NEW k \in Closers, BeginClose(k) PROVE pc' \in [Actors -> Awaits] /\ Places'
  <2>1. LET hb == Hb[Home(k)] IN
         /\ pc' \in [Actors -> Awaits]
         /\ \A a \in Actors \ {k, hb} : pc'[a] = pc[a]
         /\ pc'[k] = ClosePc(k)
         /\ k # hb => pc'[hb] \in {pc[hb], "wsClose", "done"}
         /\ ClosePc(k) \in {"done", "stopHb", "ackwait", "wsClose"}
         /\ ClosePc(k) = "stopHb" => k # hb
    BY <1>t, <1>b, BeginCloseMoves DEF Cancelled
  <2> QED
    BY <1>d, <1>t, <2>1 DEF Places
<1>1. ASSUME NEW t \in Payloads,
             WaitForSlot(t) \/ SendRequest(t) \/ RequestReads(t) \/ RequestLost(t)
      PROVE  pc' \in [Actors -> Awaits] /\ Places'
  <2>1. \/ UNCHANGED pc
        \/ \E at \in {"slot", "recv", "done"} : pc' = [pc EXCEPT ![t] = at]
    BY <1>1 DEF WaitForSlot, SendRequest, RequestReads, RequestLost, FinishRequest
  <2> QED
    BY <1>d, <1>m, <1>u, <2>1
<1>2. CASE CloseSession
  BY <1>2, <1>b, <1>d DEF CloseSession
<1>3. CASE ProcessReads
  <2>1. BeginClose("proc") \/ UNCHANGED pc \/ pc' = [pc EXCEPT !["proc"] = "adapter"]
    BY <1>3 DEF ProcessReads
  <2> QED
    BY <1>b, <1>d, <1>m, <1>u, <2>1
<1>4. CASE AdapterReplies
  <2>1. BeginClose("proc") \/ pc' = [pc EXCEPT !["proc"] = "recv"]
    BY <1>4 DEF AdapterReplies
  <2> QED
    BY <1>b, <1>d, <1>m, <2>1
<1>5. ASSUME ProcessEnds PROVE pc' \in [Actors -> Awaits] /\ Places'
  BY <1>5, <1>b, <1>d DEF ProcessEnds
<1>6. ASSUME NEW k \in Closers,
             HeartbeatStopped(k) \/ CloseReads(k) \/ CloseGivesUp(k) \/ SocketClosed(k)
      PROVE  pc' \in [Actors -> Awaits] /\ Places'
  <2>1. UNCHANGED pc \/ \E at \in {"ackwait", "wsClose", "done"} : pc' = [pc EXCEPT ![k] = at]
    BY <1>6 DEF HeartbeatStopped, CloseReads, CloseGivesUp, SocketClosed, AwaitAck
  <2> QED
    BY <1>d, <1>m, <1>u, <2>1
<1>7. ASSUME NEW p \in Peers, HeartbeatWakes(p) \/ HeartbeatChecks(p)
      PROVE  pc' \in [Actors -> Awaits] /\ Places'
  <2>1. \/ UNCHANGED pc \/ BeginClose(Hb[p])
        \/ \E at \in {"sleep30", "sleep5", "done"} : pc' = [pc EXCEPT ![Hb[p]] = at]
    BY <1>7 DEF HeartbeatWakes, HeartbeatChecks
  <2> QED
    BY <1>b, <1>d, <1>m, <1>u, <2>1
<1>8. ASSUME NEW p \in Peers, RelayHangsUp(p) \/ LinkBreaks(p) \/ RelayMisbehaves(p) PROVE UNCHANGED pc
  BY <1>8 DEF RelayHangsUp, LinkBreaks, RelayMisbehaves, sessVars
<1>9. CASE UNCHANGED vars
  BY <1>9, <1>u DEF vars, sessVars
<1> QED
  BY <1>1, <1>2, <1>3, <1>4, <1>5, <1>6, <1>7, <1>8, <1>9, <1>u DEF Next, ProcessLost, StopProvider

-----------------------------------------------------------------------------
(* Types and the heartbeat's count.                                        *)

\* A frame that recv_frame handles or returns is one that it accepts.
LEMMA IncomingAccepted ==
  ASSUME ChannelInv, NEW p \in Peers, wire[Other(p)] # << >>, ~RecvRaises(p)
  PROVE  Incoming(p) \in Frames /\ Taken(p, TRUE)
<1>1. Other(p) \in Peers
  BY DEF Other, Peers
<1>2. Accepts(p, Incoming(p))
  BY DEF RecvRaises
<1>3. Incoming(p) \in Frames \cup {Noise}
  BY <1>1, HeadTailProperties DEF Incoming, ChannelInv, ChannelTypeOK
<1>4. Incoming(p) # Noise
  BY <1>1, <1>2 DEF Accepts, Noise, Peers
<1> QED
  BY <1>2, <1>3, <1>4 DEF Taken, Incoming

\* The types but those of pc, the slots and the requests in them.
DataTyped ==
  /\ state \in [Peers -> {"ESTABLISHED", "CLOSING", "CLOSED"}]
  /\ result \in [Payloads -> {"none", "raised", "response", "error"}]
  /\ job \in Payloads \cup {NoJob}
  /\ awaiting \in [Peers -> BOOLEAN]
  /\ missed \in [Peers -> 0..MissLimit]
  /\ active \in [Peers -> BOOLEAN]
  /\ beats \in 0..(MaxBeats + MaxFaults * FaultBeats)
  /\ BelowLimit

LEMMA DataStep ==
  ASSUME SessInv, [Next]_vars
  PROVE  DataTyped'
<1>t. DataTyped /\ ChannelInv
  BY DEF SessInv, SessionTypeOK, DataTyped
<1>n. MissLimit \in Nat \ {0}
  BY RelaySessionAssumption
<1>h. /\ \A k \in Closers : Home(k) \in Peers
      /\ \A p \in Peers : Hb[p] \in Closers /\ Home(Hb[p]) = p
      /\ "buyer" \in Peers /\ "provider" \in Peers /\ {"closer", "proc"} \subseteq Closers
      /\ Home("closer") = "buyer" /\ Home("proc") = "provider"
  BY TasksDiffer
<1> DEFINE Rest == UNCHANGED <<result, job, awaiting, missed, beats>>
           Counts == awaiting' \in [Peers -> BOOLEAN] /\ missed' \in [Peers -> 0..MissLimit] /\ BelowLimit'
<1>e. ASSUME NEW p \in Peers, NEW take, NEW out, Exchange(p, take, out)
      PROVE  active' \in [Peers -> BOOLEAN]
  BY <1>t, <1>e DEF Exchange, DataTyped
<1>r. ASSUME NEW p \in Peers, Reads(p), state' \in [Peers -> {"ESTABLISHED", "CLOSING", "CLOSED"}],
             \A q \in Peers : state'[q] = "ESTABLISHED" => state[q] = "ESTABLISHED"
      PROVE  Counts /\ active' \in [Peers -> BOOLEAN]
  <2>1. active' \in [Peers -> BOOLEAN]
    BY <1>r, <1>e DEF Reads
  <2>2. awaiting' \in [Peers -> BOOLEAN]
    BY <1>t, <1>r DEF Reads, DataTyped
  <2>3. missed' \in [Peers -> 0..MissLimit] /\ \A q \in Peers : missed'[q] \in {missed[q], 0}
    BY <1>t, <1>n, <1>r DEF Reads, DataTyped
  <2> QED
    BY <1>t, <1>n, <1>r, <2>1, <2>2, <2>3 DEF DataTyped, BelowLimit
<1>b. ASSUME NEW k \in Closers, BeginClose(k)
      PROVE  /\ state' \in [Peers -> {"ESTABLISHED", "CLOSING", "CLOSED"}]
             /\ state'[Home(k)] # "ESTABLISHED"
             /\ \A q \in Peers : state'[q] = "ESTABLISHED" => state[q] = "ESTABLISHED"
  BY <1>t, <1>b, <1>h DEF BeginClose, DataTyped
<1>s. ASSUME UNCHANGED <<awaiting, missed>>, state' \in [Peers -> {"ESTABLISHED", "CLOSING", "CLOSED"}],
             \A q \in Peers : state'[q] = "ESTABLISHED" => state[q] = "ESTABLISHED"
      PROVE  Counts
  BY <1>t, <1>s DEF DataTyped, BelowLimit
<1>1. ASSUME NEW t \in Payloads, WaitForSlot(t) \/ SendRequest(t) \/ RequestLost(t) PROVE DataTyped'
  <2>1. UNCHANGED <<state, job, awaiting, missed, beats>>
    BY <1>1 DEF WaitForSlot, SendRequest, RequestLost
  <2>2. result' \in [Payloads -> {"none", "raised", "response", "error"}]
    BY <1>1, <1>t DEF WaitForSlot, SendRequest, RequestLost, FinishRequest, DataTyped
  <2>3. active' \in [Peers -> BOOLEAN]
    BY <1>1, <1>t, <1>e, <1>h DEF WaitForSlot, SendRequest, RequestLost, DataTyped
  <2> QED
    BY <1>t, <2>1, <2>2, <2>3 DEF DataTyped, BelowLimit
<1>2. ASSUME NEW t \in Payloads, RequestReads(t) PROVE DataTyped'
  <2>1. UNCHANGED <<state, job, beats>> /\ Reads("buyer")
    BY <1>2 DEF RequestReads
  <2>2. result' \in [Payloads -> {"none", "raised", "response", "error"}]
    BY <1>2, <1>t DEF RequestReads, FinishRequest, DataTyped
  <2>3. Counts /\ active' \in [Peers -> BOOLEAN]
    BY <1>h, <1>t, <1>r, <2>1 DEF DataTyped
  <2> QED
    BY <1>t, <2>1, <2>2, <2>3 DEF DataTyped
<1>3. ASSUME NEW k \in Closers, NEW take, NEW out, Exchange(Home(k), take, out), BeginClose(k),
             UNCHANGED <<result, awaiting, missed, beats>>, job' \in {job, NoJob}
      PROVE  DataTyped'
  <2>1. Counts /\ active' \in [Peers -> BOOLEAN]
    BY <1>3, <1>b, <1>s, <1>e, <1>h
  <2> QED
    BY <1>3, <1>b, <1>t, <2>1 DEF DataTyped
<1>4. CASE CloseSession
  BY <1>4, <1>3, <1>h DEF CloseSession
<1>5. CASE ProcessReads
  <2>1. CASE Exchange("provider", TRUE, CloseOut("proc")) /\ BeginClose("proc") /\ UNCHANGED <<job, awaiting, missed>>
    <3>1. UNCHANGED <<result, beats>>
      BY <1>5 DEF ProcessReads
    <3>2. UNCHANGED <<result, awaiting, missed, beats>> /\ job' \in {job, NoJob}
      BY <2>1, <3>1
    <3>3. "proc" \in Closers /\ Home("proc") = "provider"
      BY <1>h DEF Closers, Home
    <3>4. Exchange(Home("proc"), TRUE, CloseOut("proc")) /\ BeginClose("proc")
      BY <2>1, <3>3
    <3> QED
      BY <1>3, <3>2, <3>3, <3>4
  <2>2. CASE Reads("provider") /\ UNCHANGED state /\ job' \in Payloads \cup {NoJob}
    <3>1. Counts /\ active' \in [Peers -> BOOLEAN]
      BY <1>h, <1>t, <1>r, <2>2 DEF DataTyped
    <3>2. UNCHANGED <<result, beats>>
      BY <1>5 DEF ProcessReads
    <3> QED
      BY <1>t, <2>2, <3>1, <3>2 DEF DataTyped
  <2>3. ASSUME RecvReturns("provider", {"REQUEST"}), wire["buyer"] # << >>
        PROVE  Incoming("provider").payload \in Payloads
    <3>1. Incoming("provider") \in Frames /\ Incoming("provider").type = "REQUEST"
      BY <1>t, <1>h, <2>3, IncomingAccepted DEF RecvReturns, Other
    <3> QED
      BY <3>1 DEF Frames, ControlTypes
  <2> QED
    BY <1>5, <1>t, <2>1, <2>2, <2>3 DEF ProcessReads, DataTyped
<1>6. CASE AdapterReplies
  <2>1. PICK out : Exchange("provider", FALSE, out)
    BY <1>6 DEF AdapterReplies
  <2>2. UNCHANGED <<result, awaiting, missed, beats>> /\ job' = NoJob /\ (BeginClose("proc") \/ UNCHANGED state)
    BY <1>6 DEF AdapterReplies
  <2>3. CASE UNCHANGED state
    BY <1>t, <1>e, <1>h, <2>1, <2>2, <2>3 DEF DataTyped, BelowLimit
  <2> QED
    BY <1>3, <1>h, <2>1, <2>2, <2>3
<1>7. ASSUME ProcessEnds PROVE DataTyped'
  BY <1>7, <1>3, <1>h DEF ProcessEnds
<1>8. ASSUME NEW k \in Closers, HeartbeatStopped(k) \/ CloseGivesUp(k) \/ SocketClosed(k) PROVE DataTyped'
  <2>1. UNCHANGED <<result, job, awaiting, missed, beats>>
    BY <1>8 DEF HeartbeatStopped, CloseGivesUp, SocketClosed
  <2>2. state' = state \/ state' = [state EXCEPT ![Home(k)] = "CLOSED"]
    BY <1>8 DEF HeartbeatStopped, CloseGivesUp, SocketClosed
  <2>3. active' \in [Peers -> BOOLEAN]
    BY <1>8, <1>t, <1>e, <1>h DEF HeartbeatStopped, CloseGivesUp, SocketClosed, DataTyped
  <2> QED
    BY <1>t, <1>h, <2>1, <2>2, <2>3 DEF DataTyped, BelowLimit
<1>9. ASSUME NEW k \in Closers, CloseReads(k) PROVE DataTyped'
  <2>1. UNCHANGED <<state, result, job, beats>> /\ Reads(Home(k))
    BY <1>9 DEF CloseReads
  <2>2. Counts /\ active' \in [Peers -> BOOLEAN]
    BY <1>h, <1>t, <1>r, <2>1 DEF DataTyped
  <2> QED
    BY <1>t, <2>1, <2>2 DEF DataTyped
<1>10. ASSUME NEW p \in Peers, HeartbeatWakes(p) PROVE DataTyped'
  <2>1. UNCHANGED <<state, result, job, missed>>
    BY <1>10 DEF HeartbeatWakes
  <2>2. awaiting' \in [Peers -> BOOLEAN] /\ active' \in [Peers -> BOOLEAN]
    BY <1>10, <1>t, <1>e DEF HeartbeatWakes, DataTyped
  <2>3. beats' \in 0..(MaxBeats + MaxFaults * FaultBeats)
    <3>1. beats' = beats \/ (beats < MaxBeats + faults * FaultBeats /\ beats' = beats + 1)
      BY <1>10 DEF HeartbeatWakes
    <3>2. faults \in 0..MaxFaults /\ MaxFaults \in Nat /\ FaultBeats \in Nat /\ MaxBeats \in Nat
      BY <1>t, FrameChannelAssumption, RelaySessionAssumption DEF ChannelInv, ChannelTypeOK
    <3>3. faults * FaultBeats \in Nat /\ MaxFaults * FaultBeats \in Nat
          /\ faults * FaultBeats <= MaxFaults * FaultBeats
      <4>1. PICK d \in Nat : MaxFaults = faults + d
        <5>1. MaxFaults - faults \in Nat /\ MaxFaults = faults + (MaxFaults - faults)
          BY <3>2
        <5> QED
          BY <5>1
      <4>2. (faults + d) * FaultBeats = faults * FaultBeats + d * FaultBeats
        BY <3>2
      <4>3. d * FaultBeats \in Nat /\ faults * FaultBeats \in Nat
        BY <3>2
      <4> QED
        BY <4>1, <4>2, <4>3
    <3> DEFINE f == faults * FaultBeats
               m == MaxFaults * FaultBeats
    <3>4. beats \in 0..(MaxBeats + m)
      BY <1>t DEF DataTyped
    <3> HIDE DEF f, m
    <3>5. f \in Nat /\ m \in Nat /\ f <= m
      BY <3>3 DEF f, m
    <3>6. beats' = beats \/ (beats < MaxBeats + f /\ beats' = beats + 1)
      BY <3>1 DEF f
    <3>7. beats' \in 0..(MaxBeats + m)
      BY <3>2, <3>4, <3>5, <3>6
    <3> QED
      BY <3>7 DEF m
  <2> QED
    BY <1>t, <2>1, <2>2, <2>3 DEF DataTyped, BelowLimit
<1>11. ASSUME NEW p \in Peers, HeartbeatChecks(p) PROVE DataTyped'
  <2>0. UNCHANGED <<result, job, beats>>
    BY <1>11 DEF HeartbeatChecks
  <2>1. CASE UNCHANGED <<state, awaiting, missed, active>>
    BY <1>t, <2>0, <2>1 DEF DataTyped, BelowLimit
  <2>2. CASE /\ state[p] = "ESTABLISHED" /\ awaiting[p]
             /\ missed' = [missed EXCEPT ![p] = @ + 1]
             /\ awaiting' = [awaiting EXCEPT ![p] = FALSE]
             /\ Exchange(p, FALSE, CloseOut(Hb[p]))
             /\ BeginClose(Hb[p])
    <3>1. missed[p] < MissLimit
      BY <1>t, <2>2 DEF DataTyped, BelowLimit
    <3>2. missed' \in [Peers -> 0..MissLimit] /\ \A q \in Peers \ {p} : missed'[q] = missed[q]
      BY <1>t, <1>n, <2>2, <3>1 DEF DataTyped
    <3>3. /\ state' \in [Peers -> {"ESTABLISHED", "CLOSING", "CLOSED"}]
          /\ state'[p] # "ESTABLISHED"
          /\ \A q \in Peers : state'[q] = "ESTABLISHED" => state[q] = "ESTABLISHED"
      BY <1>b, <1>h, <2>2
    <3>4. awaiting' \in [Peers -> BOOLEAN] /\ active' \in [Peers -> BOOLEAN]
      BY <1>t, <1>e, <2>2 DEF DataTyped
    <3> QED
      BY <1>t, <2>0, <3>2, <3>3, <3>4 DEF DataTyped, BelowLimit
  <2>3. CASE /\ (awaiting[p] => missed[p] + 1 < MissLimit)
             /\ missed' = [missed EXCEPT ![p] = IF awaiting[p] THEN @ + 1 ELSE @]
             /\ awaiting' = [awaiting EXCEPT ![p] = FALSE]
             /\ active' = [active EXCEPT ![p] = FALSE]
             /\ UNCHANGED state
    <3>1. /\ missed' \in [Peers -> 0..MissLimit]
          /\ \A q \in Peers : missed'[q] = missed[q] \/ missed'[q] < MissLimit
      BY <1>t, <1>n, <2>3 DEF DataTyped
    <3>2. awaiting' \in [Peers -> BOOLEAN] /\ active' \in [Peers -> BOOLEAN]
      BY <1>t, <2>3 DEF DataTyped
    <3> QED
      BY <1>t, <2>0, <2>3, <3>1, <3>2 DEF DataTyped, BelowLimit
  <2> QED
    BY <1>11, <2>1, <2>2, <2>3 DEF HeartbeatChecks
<1>12. ASSUME UNCHANGED sessVars PROVE DataTyped'
  BY <1>t, <1>12 DEF sessVars, DataTyped, BelowLimit
<1>13. ASSUME NEW p \in Peers, RelayHangsUp(p) \/ LinkBreaks(p) \/ RelayMisbehaves(p) PROVE UNCHANGED sessVars
  BY <1>13 DEF RelayHangsUp, LinkBreaks, RelayMisbehaves
<1>14. CASE UNCHANGED vars
  BY <1>12, <1>14 DEF vars
<1> QED
  BY <1>1, <1>2, <1>4, <1>5, <1>6, <1>7, <1>8, <1>9, <1>10, <1>11, <1>12, <1>13, <1>14
     DEF Next, ProcessLost, StopProvider

-----------------------------------------------------------------------------
(* The slots.                                                              *)

LEMMA SlotStep ==
  ASSUME SessInv, [Next]_vars
  PROVE  SlotInv' /\ slots' \in 0..MaxConcurrent /\ pending' \subseteq Payloads
<1>t. /\ pc \in [Actors -> Awaits] /\ slots \in Nat /\ MaxConcurrent \in Nat
      /\ IsFiniteSet(pending) /\ Cardinality(pending) \in Nat
      /\ slots + Cardinality(pending) = MaxConcurrent
      /\ pending = {t \in Payloads : pc[t] = "recv"}
  <2>1. slots \in 0..MaxConcurrent /\ MaxConcurrent \in Nat
    BY RelaySessionAssumption DEF SessInv, SessionTypeOK
  <2>2. IsFiniteSet(pending) /\ Cardinality(pending) \in Nat
    BY FS_CardinalityType DEF SessInv, SlotInv
  <2> QED
    BY <2>1, <2>2 DEF SessInv, SlotInv, SlotsAccounted, SessionTypeOK, Awaits
<1>p. pc' \in [Actors -> Awaits]
  BY PlacesStep
<1>d. /\ Actors = Payloads \cup Closers /\ Payloads \cap Closers = {}
      /\ {"closer", "proc"} \subseteq Closers
      /\ \A k \in Closers : Hb[Home(k)] \in Closers
      /\ \A p \in Peers : Hb[p] \in Closers
  BY TasksDiffer
<1> DEFINE Goal == SlotInv' /\ slots' \in 0..MaxConcurrent /\ pending' \subseteq Payloads
<1>q. ASSUME UNCHANGED <<slots, pending>>, \A t \in Payloads : (pc'[t] = "recv") <=> (pc[t] = "recv")
      PROVE  Goal
  <2>1. pending' = {t \in Payloads : pc'[t] = "recv"}
    BY <1>t, <1>q
  <2> QED
    BY <1>t, <1>q, <2>1 DEF SlotInv, SlotsAccounted
<1>f. ASSUME NEW t \in Payloads, NEW r, pc[t] = "recv", FinishRequest(t, r) PROVE Goal
  <2>1. pending' = pending \ {t} /\ slots' = slots + 1 /\ pc' = [pc EXCEPT ![t] = "done"]
    BY <1>f DEF FinishRequest
  <2>2. t \in pending
    BY <1>t, <1>f
  <2>3. IsFiniteSet(pending') /\ Cardinality(pending') = Cardinality(pending) - 1
    BY <1>t, <2>1, <2>2, FS_RemoveElement
  <2>4. Cardinality(pending') \in Nat
    BY <2>3, FS_CardinalityType
  <2>5. pending' = {u \in Payloads : pc'[u] = "recv"}
    BY <1>t, <1>d, <2>1
  <2>6. slots' + Cardinality(pending') = MaxConcurrent /\ slots' \in 0..MaxConcurrent
    BY <1>t, <2>1, <2>3, <2>4
  <2> QED
    BY <2>3, <2>5, <2>6 DEF SlotInv, SlotsAccounted
<1>b. ASSUME NEW k \in Closers, BeginClose(k) PROVE \A t \in Payloads : pc'[t] = pc[t]
  <2>1. \A a \in Actors \ {k, Hb[Home(k)]} : pc'[a] = pc[a]
    BY <1>b, <1>t, BeginCloseMoves
  <2> QED
    BY <1>d, <2>1
<1>k. ASSUME NEW k \in Closers, NEW at, pc' = [pc EXCEPT ![k] = at] PROVE \A t \in Payloads : pc'[t] = pc[t]
  BY <1>d, <1>t, <1>k
<1>1. ASSUME NEW t \in Payloads, WaitForSlot(t) PROVE Goal
  <2>1. pc' = [pc EXCEPT ![t] = "slot"] /\ pc[t] = "idle" /\ UNCHANGED <<slots, pending>>
    BY <1>1 DEF WaitForSlot
  <2> QED
    BY <1>d, <1>t, <1>q, <2>1
<1>2. ASSUME NEW t \in Payloads, SendRequest(t) PROVE Goal
  <2>1. pc[t] \in {"slot", "idle"} /\ slots > 0
    BY <1>2 DEF SendRequest
  <2>2. CASE pc' = [pc EXCEPT ![t] = "done"] /\ UNCHANGED <<slots, pending>>
    BY <1>d, <1>t, <1>q, <2>1, <2>2
  <2>3. CASE pc' = [pc EXCEPT ![t] = "recv"] /\ slots' = slots - 1 /\ pending' = pending \cup {t}
    <3>1. t \notin pending
      BY <1>t, <2>1
    <3>2. IsFiniteSet(pending') /\ Cardinality(pending') = Cardinality(pending) + 1
      BY <1>t, <2>3, <3>1, FS_AddElement
    <3>3. pending' = {u \in Payloads : pc'[u] = "recv"}
      BY <1>t, <1>d, <2>3
    <3>4. slots' + Cardinality(pending') = MaxConcurrent /\ slots' \in 0..MaxConcurrent
      BY <1>t, <2>1, <2>3, <3>2
    <3> QED
      BY <3>2, <3>3, <3>4 DEF SlotInv, SlotsAccounted
  <2> QED
    BY <1>2, <2>2, <2>3 DEF SendRequest
<1>3. ASSUME NEW t \in Payloads, RequestReads(t) \/ RequestLost(t) PROVE Goal
  <2>1. pc[t] = "recv" /\ (UNCHANGED <<pc, slots, pending>> \/ \E r : FinishRequest(t, r))
    BY <1>3 DEF RequestReads, RequestLost
  <2> QED
    BY <1>f, <1>q, <2>1
<1>4. ASSUME UNCHANGED <<slots, pending>>,
             \/ UNCHANGED pc
             \/ \E k \in Closers : BeginClose(k) \/ \E at : pc' = [pc EXCEPT ![k] = at]
      PROVE  Goal
  BY <1>4, <1>b, <1>k, <1>q
<1>5. CASE CloseSession
  BY <1>5, <1>4, <1>d DEF CloseSession
<1>6. CASE ProcessReads
  <2>1. /\ UNCHANGED <<slots, pending>>
        /\ BeginClose("proc") \/ UNCHANGED pc \/ pc' = [pc EXCEPT !["proc"] = "adapter"]
    BY <1>6 DEF ProcessReads
  <2> QED
    BY <1>4, <1>d, <2>1
<1>7. CASE AdapterReplies
  <2>1. /\ UNCHANGED <<slots, pending>>
        /\ BeginClose("proc") \/ pc' = [pc EXCEPT !["proc"] = "recv"]
    BY <1>7 DEF AdapterReplies
  <2> QED
    BY <1>4, <1>d, <2>1
<1>8. ASSUME ProcessEnds PROVE Goal
  BY <1>8, <1>4, <1>d DEF ProcessEnds
<1>9. ASSUME NEW k \in Closers,
             HeartbeatStopped(k) \/ CloseReads(k) \/ CloseGivesUp(k) \/ SocketClosed(k)
      PROVE  Goal
  <2>1. UNCHANGED <<slots, pending>> /\ (UNCHANGED pc \/ \E at : pc' = [pc EXCEPT ![k] = at])
    BY <1>9 DEF HeartbeatStopped, CloseReads, CloseGivesUp, SocketClosed
  <2> QED
    BY <1>4, <2>1
<1>10. ASSUME NEW p \in Peers, HeartbeatWakes(p) \/ HeartbeatChecks(p) PROVE Goal
  <2>1. /\ UNCHANGED <<slots, pending>>
        /\ UNCHANGED pc \/ BeginClose(Hb[p]) \/ \E at : pc' = [pc EXCEPT ![Hb[p]] = at]
    BY <1>10 DEF HeartbeatWakes, HeartbeatChecks
  <2> QED
    BY <1>4, <1>d, <2>1
<1>11. ASSUME NEW p \in Peers, RelayHangsUp(p) \/ LinkBreaks(p) \/ RelayMisbehaves(p) PROVE Goal
  <2>1. UNCHANGED <<pc, slots, pending>>
    BY <1>11 DEF RelayHangsUp, LinkBreaks, RelayMisbehaves, sessVars
  <2> QED
    BY <1>4, <2>1
<1>12. CASE UNCHANGED vars
  BY <1>4, <1>12 DEF vars, sessVars
<1> QED
  BY <1>1, <1>2, <1>3, <1>5, <1>6, <1>7, <1>8, <1>9, <1>10, <1>11, <1>12 DEF Next, ProcessLost, StopProvider

-----------------------------------------------------------------------------
(* Closing.                                                                *)

\* What CloseInv says of p.
ClosingAt(p) ==
  /\ pc[Main[p]] = "stopHb" => pc[Hb[p]] \in {"wsClose", "done"}
  /\ pc[Main[p]] \in {"ackwait", "wsClose"} => pc[Hb[p]] = "done"
  /\ \A k \in {Main[p], Hb[p]} :
       /\ pc[k] \in {"stopHb", "ackwait", "wsClose"} => state[p] # "ESTABLISHED"
       /\ pc[k] = "wsClose" => ~open[p]
  /\ state[p] = "CLOSED" => ~open[p]
  /\ state[p] = "ESTABLISHED" => CloseMessage \notin Said[p]
  /\ CloseMessage \in Said[p] /\ open[p] => \E k \in {Main[p], Hb[p]} : pc[k] = "ackwait"
  /\ CloseMessage \notin Repeated[p]
  /\ state[p] = "CLOSING" => \E k \in {Main[p], Hb[p]} : pc[k] \in {"stopHb", "ackwait", "wsClose"}

LEMMA ClosingEverywhere == CloseInv <=> \A p \in Peers : ClosingAt(p)
<1>1. \A p \in Peers : \A k \in Closers : Home(k) = p <=> k \in {Main[p], Hb[p]}
  BY TasksDiffer
<1>2. \A p \in Peers : {Main[p], Hb[p]} \subseteq Closers
  BY TasksDiffer
<1> QED
  BY <1>1, <1>2 DEF CloseInv, OneCloser, CloseWaits, ClosingIsOwned, ClosingAt

LEMMA ClosingEverywhereNext ==
  ASSUME \A p \in Peers : ClosingAt(p)' PROVE CloseInv'
<1>1. \A p \in Peers : \A k \in Closers : Home(k) = p <=> k \in {Main[p], Hb[p]}
  BY TasksDiffer
<1>2. \A p \in Peers : {Main[p], Hb[p]} \subseteq Closers
  BY TasksDiffer
<1>3. Main' = Main /\ Hb' = Hb
  BY DEF Main, Hb
<1> QED
  BY <1>1, <1>2, <1>3 DEF CloseInv, OneCloser, CloseWaits, ClosingIsOwned, ClosingAt, CloseMessage

\* The CLOSEs after a turn.
CloseSaid(p, out) ==
  /\ CloseMessage \in Said'[p] <=> CloseMessage \in Said[p] \/ CloseMessage \in Spoken(out)
  /\ CloseMessage \in Repeated'[p] =>
       CloseMessage \in Repeated[p] \/ (CloseMessage \in Said[p] /\ CloseMessage \in Spoken(out))
  /\ Said'[Other(p)] = Said[Other(p)]
  /\ Repeated'[Other(p)] = Repeated[Other(p)]

LEMMA TurnedCloses ==
  ASSUME NEW p \in Peers, NEW take, NEW out, Turned(p, take, out)
  PROVE  CloseSaid(p, out)
<1>1. Other(p) \in Peers /\ Other(p) # p /\ DOMAIN Said = Peers
  BY DEF Other, Peers, Said
<1>2. Said' = [Said EXCEPT ![p] = @ \cup Spoken(out)]
  BY DEF Turned, TurnSays
<1>3. Said'[p] = Said[p] \cup Spoken(out) /\ Said'[Other(p)] = Said[Other(p)]
  BY <1>1, <1>2
<1>4. /\ Repeated'[Other(p)] = Repeated[Other(p)]
      /\ Repeated'[p] \subseteq Repeated[p] \cup (Said[p] \cap Spoken(out))
  BY DEF Turned, TurnSays
<1> QED
  BY <1>3, <1>4 DEF CloseSaid

\* Steps of p outside close(), and all that leave p alone.
LEMMA ClosingKept ==
  ASSUME NEW p \in Peers, ClosingAt(p),
         state'[p] = state[p],
         open'[p] => open[p],
         CloseMessage \in Said'[p] <=> CloseMessage \in Said[p],
         CloseMessage \in Repeated'[p] => CloseMessage \in Repeated[p],
         \/ pc'[Main[p]] = pc[Main[p]]
         \/ /\ pc[Main[p]] \notin {"stopHb", "ackwait", "wsClose"}
            /\ pc'[Main[p]] \notin {"stopHb", "ackwait", "wsClose"},
         \/ pc'[Hb[p]] = pc[Hb[p]]
         \/ pc[Hb[p]] \in {"sleep30", "sleep5"} /\ pc'[Hb[p]] \in {"sleep30", "sleep5", "done"}
  PROVE  ClosingAt(p)'
<1> DEFINE m == Main[p]
           h == Hb[p]
<1>1. m' = m /\ h' = h
  BY DEF Main, Hb
<1> HIDE DEF m, h
<1> QED
  BY <1>1 DEF ClosingAt, CloseMessage, m, h

LEMMA BeginCloseKeepsClosing ==
  ASSUME SessInv, NEW k \in Closers, BeginClose(k), NEW out, CloseSaid(Home(k), out),
         CloseMessage \in Spoken(out) => ClosePc(k) \notin {"done", "stopHb"} /\ open[Home(k)],
         pc[k] \notin {"stopHb", "ackwait", "wsClose"},
         k = Hb[Home(k)] => state[Home(k)] = "ESTABLISHED"
  PROVE  \A p \in Peers : ClosingAt(p)'
<1> DEFINE p == Home(k)
           m == Main[p]
           h == Hb[p]
           q == Other(p)
           s == CloseMessage \in Said[p]
           c == CloseMessage \in Spoken(out)
<1>d. /\ p \in Peers /\ k \in {m, h} /\ m # h /\ {m, h} \subseteq Closers /\ k \in Actors
      /\ q \in Peers /\ q # p /\ Peers = {p, q} /\ {m, h} \subseteq Actors
      /\ {Main[q], Hb[q]} \subseteq Actors \ {m, h}
      /\ Home(m) = p /\ Home(h) = p
  BY TasksDiffer DEF Other
<1>t. /\ pc \in [Actors -> Awaits] /\ open \in [Peers -> BOOLEAN]
      /\ state \in [Peers -> {"ESTABLISHED", "CLOSING", "CLOSED"}]
      /\ ClosingAt(p) /\ ClosingAt(q)
  BY <1>d, ClosingEverywhere DEF SessInv, SessionTypeOK, Awaits, ChannelInv, ChannelTypeOK
<1>2. CloseSaid(p, out)
  OBVIOUS
<1>3. /\ \A a \in Actors \ {k, h} : pc'[a] = pc[a]
      /\ pc'[k] = ClosePc(k)
      /\ k # h => pc'[h] = IF ClosePc(k) = "stopHb" THEN Cancelled(pc[h]) ELSE pc[h]
      /\ ClosePc(k) \in {"done", "stopHb", "ackwait", "wsClose"}
      /\ ClosePc(k) = "done" <=> state[p] = "CLOSED"
      /\ ClosePc(k) = "stopHb" <=> state[p] # "CLOSED" /\ k # h /\ pc[h] # "done"
  BY <1>t, BeginCloseMoves
<1>4. /\ state'[p] = IF state[p] = "CLOSED" THEN "CLOSED" ELSE "CLOSING"
      /\ state'[q] = state[q]
  BY <1>d, <1>t DEF BeginClose
<1>5. /\ open'[p] => open[p] /\ pc'[m] # "wsClose" /\ pc'[h] # "wsClose"
      /\ open'[q] => open[q]
  <2>1. open' = [r \in Peers |-> open[r] /\ \A a \in Actors : Home(a) = r => pc'[a] # "wsClose"]
    BY DEF BeginClose, Sockets
  <2> QED
    BY <1>d, <2>1
<1>6. ClosingAt(q)'
  <2>1. pc'[Main[q]] = pc[Main[q]] /\ pc'[Hb[q]] = pc[Hb[q]]
    BY <1>d, <1>3
  <2> QED
    BY <1>d, <1>t, <1>2, <1>4, <1>5, <2>1, ClosingKept DEF CloseSaid
<1> DEFINE Goal == ClosingAt(p)'
<1>7. SUFFICES Goal
  BY <1>d, <1>6
<1>8. /\ CloseMessage \in Said'[p] <=> s \/ c
      /\ CloseMessage \in Repeated'[p] => s /\ c
  BY <1>2, <1>t DEF CloseSaid, ClosingAt
<1>9. Goal <=>
        /\ pc'[m] = "stopHb" => pc'[h] \in {"wsClose", "done"}
        /\ pc'[m] \in {"ackwait", "wsClose"} => pc'[h] = "done"
        /\ \A a \in {m, h} :
             /\ pc'[a] \in {"stopHb", "ackwait", "wsClose"} => state'[p] # "ESTABLISHED"
             /\ pc'[a] = "wsClose" => ~open'[p]
        /\ state'[p] = "CLOSED" => ~open'[p]
        /\ state'[p] = "ESTABLISHED" => CloseMessage \notin Said'[p]
        /\ CloseMessage \in Said'[p] /\ open'[p] => \E a \in {m, h} : pc'[a] = "ackwait"
        /\ CloseMessage \notin Repeated'[p]
        /\ state'[p] = "CLOSING" => \E a \in {m, h} : pc'[a] \in {"stopHb", "ackwait", "wsClose"}
  BY DEF ClosingAt, Main, Hb, CloseMessage
<1>10. /\ s /\ open[p] => pc[m] = "ackwait" \/ pc[h] = "ackwait"
       /\ state[p] = "ESTABLISHED" => ~s
       /\ pc[m] \in {"stopHb", "ackwait", "wsClose"} => state[p] # "ESTABLISHED"
       /\ state[p] = "CLOSED" => ~open[p]
  BY <1>t DEF ClosingAt
<1>11. k = m \/ k = h
  BY <1>d
<1>12. state[p] \in {"ESTABLISHED", "CLOSING", "CLOSED"}
  BY <1>d, <1>t
<1>13. k = h => state[p] = "ESTABLISHED"
  OBVIOUS
<1>14. c => ClosePc(k) \notin {"done", "stopHb"} /\ open[p]
  OBVIOUS
<1>15. pc[k] \notin {"stopHb", "ackwait", "wsClose"} /\ m # h
  BY <1>d
<1>16. Cancelled(pc[h]) \in {"wsClose", "done"} /\ (pc[h] = "ackwait" => Cancelled(pc[h]) = "wsClose")
  BY DEF Cancelled
<1>17. k = h => pc'[m] = pc[m]
  BY <1>d, <1>3
<1> HIDE DEF p, m, h, q, s, c, Goal
<1>18. CASE ClosePc(k) = "done"
  BY <1>3, <1>4, <1>5, <1>8, <1>9, <1>10, <1>11, <1>12, <1>13, <1>14, <1>15, <1>17, <1>18, <1>t DEF ClosingAt, p, m, h
<1>19. CASE ClosePc(k) = "stopHb"
  BY <1>3, <1>4, <1>5, <1>8, <1>9, <1>10, <1>11, <1>12, <1>13, <1>14, <1>15, <1>16, <1>19
<1>20. CASE ClosePc(k) \in {"ackwait", "wsClose"}
  <2>1. ~(s /\ c)
    BY <1>3, <1>10, <1>11, <1>12, <1>13, <1>14, <1>15, <1>20
  <2> QED
    BY <1>3, <1>4, <1>5, <1>8, <1>9, <1>10, <1>11, <1>12, <1>13, <1>14, <1>15, <1>17, <1>20, <2>1
<1> QED
  BY <1>3, <1>18, <1>19, <1>20 DEF Goal

\* A turn of p that sends no CLOSE and stays out of close().
LEMMA PlainTurnKeepsClosing ==
  ASSUME NEW p \in Peers, \A q \in Peers : ClosingAt(q),
         UNCHANGED state, \A q \in Peers : open'[q] => open[q],
         NEW take, NEW out, Turned(p, take, out), CloseMessage \notin Spoken(out),
         pc \in [Actors -> Awaits],
         \/ UNCHANGED pc
         \/ \E t \in Payloads : \E at : pc' = [pc EXCEPT ![t] = at]
         \/ \E at \in {"recv", "adapter"} : pc["proc"] \in {"recv", "adapter"} /\ pc' = [pc EXCEPT !["proc"] = at]
         \/ \E at \in {"sleep30", "sleep5", "done"} :
              pc[Hb[p]] \in {"sleep30", "sleep5"} /\ pc' = [pc EXCEPT ![Hb[p]] = at]
  PROVE  \A q \in Peers : ClosingAt(q)'
<1> SUFFICES ASSUME NEW q \in Peers PROVE ClosingAt(q)'
  OBVIOUS
<1>1. CloseSaid(p, out)
  BY TurnedCloses
<1>2. q = p \/ q = Other(p)
  BY DEF Other, Peers
<1>3. /\ CloseMessage \in Said'[q] <=> CloseMessage \in Said[q]
      /\ CloseMessage \in Repeated'[q] => CloseMessage \in Repeated[q]
  BY <1>1, <1>2 DEF CloseSaid
<1>4. /\ Actors = Payloads \cup Closers /\ Payloads \cap Closers = {}
      /\ {Main[q], Hb[q], Hb[p], "proc"} \subseteq Closers
      /\ Main[q] # Hb[p] /\ Hb[q] # "proc" /\ (Hb[q] = Hb[p] => q = p)
      /\ Main[q] \in {"closer", "proc"}
  BY TasksDiffer
<1>5. \/ pc'[Main[q]] = pc[Main[q]]
      \/ /\ pc[Main[q]] \notin {"stopHb", "ackwait", "wsClose"}
         /\ pc'[Main[q]] \notin {"stopHb", "ackwait", "wsClose"}
  BY <1>4
<1>6. \/ pc'[Hb[q]] = pc[Hb[q]]
      \/ pc[Hb[q]] \in {"sleep30", "sleep5"} /\ pc'[Hb[q]] \in {"sleep30", "sleep5", "done"}
  BY <1>4
<1> QED
  BY <1>3, <1>5, <1>6, ClosingKept

\* The same of a step that sends nothing at all.
LEMMA StillKeepsClosing ==
  ASSUME \A q \in Peers : ClosingAt(q), UNCHANGED <<state, sent>>,
         \A q \in Peers : open'[q] => open[q], pc \in [Actors -> Awaits],
         \/ UNCHANGED pc
         \/ \E t \in Payloads : \E at : pc' = [pc EXCEPT ![t] = at]
         \/ \E p \in Peers : pc[Hb[p]] \in {"sleep30", "sleep5"}
                             /\ \E at \in {"sleep30", "sleep5", "done"} : pc' = [pc EXCEPT ![Hb[p]] = at]
  PROVE  \A q \in Peers : ClosingAt(q)'
<1> SUFFICES ASSUME NEW q \in Peers PROVE ClosingAt(q)'
  OBVIOUS
<1>1. Said' = Said /\ Repeated' = Repeated
  BY DEF Said, Repeated
<1>4. /\ Actors = Payloads \cup Closers /\ Payloads \cap Closers = {}
      /\ {Main[q], Hb[q]} \subseteq Closers
      /\ \A p \in Peers : Hb[p] \in Closers /\ Main[q] # Hb[p]
  BY TasksDiffer
<1>5. pc'[Main[q]] = pc[Main[q]]
  BY <1>4
<1>6. \/ pc'[Hb[q]] = pc[Hb[q]]
      \/ pc[Hb[q]] \in {"sleep30", "sleep5"} /\ pc'[Hb[q]] \in {"sleep30", "sleep5", "done"}
  BY <1>4
<1> QED
  BY <1>1, <1>5, <1>6, ClosingKept

\* The end of the wait for CLOSE_ACK, and of the socket.
LEMMA WaitEndsClosing ==
  ASSUME NEW k \in Closers, \A q \in Peers : ClosingAt(q), pc \in [Actors -> Awaits],
         Places, state \in [Peers -> {"ESTABLISHED", "CLOSING", "CLOSED"}],
         NEW out, CloseSaid(Home(k), out),
         \A q \in Peers : open'[q] => open[q],
         \/ /\ pc[k] = "ackwait" /\ pc' = [pc EXCEPT ![k] = "wsClose"]
            /\ UNCHANGED state /\ Sockets /\ CloseMessage \notin Spoken(out)
         \/ /\ pc[k] = "wsClose" /\ pc' = [pc EXCEPT ![k] = "done"]
            /\ state' = [state EXCEPT ![Home(k)] = "CLOSED"] /\ CloseMessage \notin Spoken(out)
         \/ /\ pc[k] = "stopHb" /\ pc[Hb[Home(k)]] = "done" /\ UNCHANGED state /\ Sockets
            /\ \E at \in {"ackwait", "wsClose"} : pc' = [pc EXCEPT ![k] = at]
            /\ CloseMessage \in Spoken(out) => open[Home(k)]
  PROVE  \A p \in Peers : ClosingAt(p)'
<1> DEFINE p == Home(k)
           m == Main[p]
           h == Hb[p]
           q == Other(p)
           s == CloseMessage \in Said[p]
           c == CloseMessage \in Spoken(out)
<1>d. /\ p \in Peers /\ k \in {m, h} /\ m # h /\ {m, h} \subseteq Closers /\ k \in Actors
      /\ q \in Peers /\ q # p /\ Peers = {p, q} /\ {m, h} \subseteq Actors
      /\ {Main[q], Hb[q]} \subseteq Actors \ {m, h}
      /\ Home(m) = p /\ Home(h) = p
  BY TasksDiffer DEF Other
<1>1. \A a \in Actors \ {k} : pc'[a] = pc[a]
  OBVIOUS
<1>2. ClosingAt(q)'
  <2>1. pc'[Main[q]] = pc[Main[q]] /\ pc'[Hb[q]] = pc[Hb[q]]
    BY <1>d, <1>1
  <2>2. state'[q] = state[q]
    BY <1>d
  <2>3. Said'[q] = Said[q] /\ Repeated'[q] = Repeated[q]
    BY DEF CloseSaid
  <2> QED
    BY <1>d, <2>1, <2>2, <2>3, ClosingKept
<1> DEFINE Goal == ClosingAt(p)'
<1>3. SUFFICES Goal
  BY <1>d, <1>2
<1>4. /\ CloseMessage \in Said'[p] <=> s \/ c
      /\ CloseMessage \in Repeated'[p] => s /\ c
  BY <1>d DEF CloseSaid, ClosingAt
<1>5. Goal <=>
        /\ pc'[m] = "stopHb" => pc'[h] \in {"wsClose", "done"}
        /\ pc'[m] \in {"ackwait", "wsClose"} => pc'[h] = "done"
        /\ \A a \in {m, h} :
             /\ pc'[a] \in {"stopHb", "ackwait", "wsClose"} => state'[p] # "ESTABLISHED"
             /\ pc'[a] = "wsClose" => ~open'[p]
        /\ state'[p] = "CLOSED" => ~open'[p]
        /\ state'[p] = "ESTABLISHED" => CloseMessage \notin Said'[p]
        /\ CloseMessage \in Said'[p] /\ open'[p] => \E a \in {m, h} : pc'[a] = "ackwait"
        /\ CloseMessage \notin Repeated'[p]
        /\ state'[p] = "CLOSING" => \E a \in {m, h} : pc'[a] \in {"stopHb", "ackwait", "wsClose"}
  BY DEF ClosingAt, Main, Hb, CloseMessage
<1>6. /\ pc[m] = "stopHb" => pc[h] \in {"wsClose", "done"}
      /\ pc[m] \in {"ackwait", "wsClose"} => pc[h] = "done"
      /\ \A a \in {m, h} :
           /\ pc[a] \in {"stopHb", "ackwait", "wsClose"} => state[p] # "ESTABLISHED"
           /\ pc[a] = "wsClose" => ~open[p]
      /\ state[p] = "CLOSED" => ~open[p]
      /\ state[p] = "ESTABLISHED" => ~s
      /\ s /\ open[p] => \E a \in {m, h} : pc[a] = "ackwait"
      /\ state[p] = "CLOSING" => \E a \in {m, h} : pc[a] \in {"stopHb", "ackwait", "wsClose"}
  BY <1>d DEF ClosingAt
<1>7. Sockets /\ open'[p] => pc'[m] # "wsClose" /\ pc'[h] # "wsClose"
  BY <1>d DEF Sockets
<1>8. pc[h] # "stopHb"
  BY <1>d DEF Places
<1>9. open'[p] => open[p]
  BY <1>d
<1> DEFINE P == Sockets
<1>10. \/ /\ pc[k] = "ackwait" /\ pc'[k] = "wsClose" /\ state'[p] = state[p] /\ P /\ ~c
       \/ /\ pc[k] = "wsClose" /\ pc'[k] = "done" /\ state'[p] = "CLOSED" /\ ~c
       \/ /\ pc[k] = "stopHb" /\ pc[h] = "done" /\ state'[p] = state[p] /\ P
          /\ pc'[k] \in {"ackwait", "wsClose"} /\ (c => open[p])
  BY <1>d
<1>11. state[p] \in {"ESTABLISHED", "CLOSING", "CLOSED"}
  BY <1>d
<1>12. /\ k = m => pc'[h] = pc[h]
       /\ k = h => pc'[m] = pc[m]
       /\ k = m \/ k = h
       /\ m # h
  BY <1>d, <1>1
<1>13. P /\ open'[p] => pc'[m] # "wsClose" /\ pc'[h] # "wsClose"
  BY <1>7
<1> HIDE DEF p, m, h, q, s, c, Goal, P
<1>14. CASE pc[k] = "ackwait"
  BY <1>4, <1>5, <1>6, <1>8, <1>9, <1>10, <1>11, <1>12, <1>13, <1>14
<1>15. CASE pc[k] = "wsClose"
  BY <1>4, <1>5, <1>6, <1>8, <1>9, <1>10, <1>11, <1>12, <1>13, <1>15
<1>16. CASE pc[k] = "stopHb"
  <2>1. k = m /\ ~(s /\ c) /\ ~(s /\ open'[p])
    BY <1>6, <1>8, <1>9, <1>10, <1>12, <1>16
  <2> QED
    BY <1>4, <1>5, <1>6, <1>8, <1>9, <1>10, <1>11, <1>12, <1>13, <1>16, <2>1
<1> QED
  BY <1>10, <1>14, <1>15, <1>16

LEMMA CloseStep ==
  ASSUME SessInv, [Next]_vars
  PROVE  CloseInv'
<1>t. /\ ChannelInv /\ Places /\ pc \in [Actors -> Awaits]
      /\ state \in [Peers -> {"ESTABLISHED", "CLOSING", "CLOSED"}] /\ open \in [Peers -> BOOLEAN]
      /\ \A q \in Peers : ClosingAt(q)
  BY ClosingEverywhere DEF SessInv, SessionTypeOK, Awaits, ChannelInv, ChannelTypeOK
<1>h. /\ \A k \in Closers : Home(k) \in Peers
      /\ \A p \in Peers : Hb[p] \in Closers /\ Home(Hb[p]) = p
      /\ "buyer" \in Peers /\ "provider" \in Peers /\ {"closer", "proc"} \subseteq Closers
      /\ Home("closer") = "buyer" /\ Home("proc") = "provider"
      /\ \A p \in Peers : Hb[p] \notin {"closer", "proc"}
  BY TasksDiffer DEF Main
<1> DEFINE Goal == \A q \in Peers : ClosingAt(q)'
<1>0. SUFFICES Goal
  BY ClosingEverywhereNext
<1>a. CloseMessage \notin Acks /\ CloseMessage \notin {}
      /\ \A type, x : type # "CLOSE" => CloseMessage # <<type, x>>
  BY DEF Acks, CloseMessage
<1>s. ASSUME Sockets PROVE \A q \in Peers : open'[q] => open[q]
  BY <1>s DEF Sockets
<1>r. ASSUME NEW p \in Peers, Reads(p)
      PROVE  Turned(p, TRUE, ReadOut(p)) /\ CloseMessage \notin Spoken(ReadOut(p))
  BY <1>r, <1>t, <1>a, ReadsIsTurned
<1>b. ASSUME NEW k \in Closers, NEW take \in BOOLEAN, Exchange(Home(k), take, CloseOut(k)), BeginClose(k),
             pc[k] \notin {"stopHb", "ackwait", "wsClose"},
             k = Hb[Home(k)] => state[Home(k)] = "ESTABLISHED"
      PROVE  Goal
  <2>1. /\ Turned(Home(k), take, CloseOut(k))
        /\ CloseMessage \in Spoken(CloseOut(k)) => ClosePc(k) \notin {"done", "stopHb"} /\ open[Home(k)]
    BY <1>b, <1>t, CloseIsTurned
  <2>2. CloseSaid(Home(k), CloseOut(k))
    BY <1>h, <2>1, TurnedCloses
  <2> QED
    BY <1>b, <2>1, <2>2, BeginCloseKeepsClosing
<1>1. ASSUME NEW t \in Payloads, WaitForSlot(t) \/ RequestLost(t) PROVE Goal
  <2>1. UNCHANGED <<chanVars, state>> /\ \E at : pc' = [pc EXCEPT ![t] = at]
    BY <1>1 DEF WaitForSlot, RequestLost, FinishRequest
  <2> QED
    BY <1>t, <2>1, StillKeepsClosing DEF chanVars
<1>2. ASSUME NEW t \in Payloads, SendRequest(t) PROVE Goal
  <2>1. /\ Exchange("buyer", FALSE, SendOut("buyer", "REQUEST", t)) /\ UNCHANGED <<open, state>>
        /\ \E at : pc' = [pc EXCEPT ![t] = at]
    BY <1>2 DEF SendRequest, SendOut
  <2>2. /\ Turned("buyer", FALSE, SendOut("buyer", "REQUEST", t))
        /\ CloseMessage \notin Spoken(SendOut("buyer", "REQUEST", t))
    <3>1. "REQUEST" \in AppTypes
      BY DEF AppTypes
    <3>2. /\ Turned("buyer", FALSE, SendOut("buyer", "REQUEST", t))
          /\ Spoken(SendOut("buyer", "REQUEST", t)) = IF open["buyer"] THEN {<<"REQUEST", t>>} ELSE {}
      BY <1>h, <1>t, <2>1, <3>1, SendIsTurned
    <3> QED
      <4>1. CloseMessage \notin {<<"REQUEST", t>>}
        BY DEF CloseMessage
      <4> QED
        BY <1>a, <3>2, <4>1
  <2> QED
    BY <1>h, <1>t, <2>1, <2>2, PlainTurnKeepsClosing
<1>3. ASSUME NEW t \in Payloads, RequestReads(t) PROVE Goal
  <2>1. /\ Reads("buyer") /\ UNCHANGED <<open, state>>
        /\ UNCHANGED pc \/ \E at : pc' = [pc EXCEPT ![t] = at]
    BY <1>3 DEF RequestReads, FinishRequest
  <2>2. Turned("buyer", TRUE, ReadOut("buyer")) /\ CloseMessage \notin Spoken(ReadOut("buyer"))
    BY <1>h, <1>r, <2>1
  <2> QED
    BY <1>h, <1>t, <2>1, <2>2, PlainTurnKeepsClosing
<1>4. CASE CloseSession
  BY <1>4, <1>b, <1>h DEF CloseSession
<1>5. CASE ProcessReads
  <2>0. pc["proc"] = "recv"
    BY <1>5 DEF ProcessReads
  <2>1. CASE Exchange("provider", TRUE, CloseOut("proc")) /\ BeginClose("proc")
    BY <1>b, <1>h, <2>0, <2>1
  <2>2. CASE Reads("provider") /\ UNCHANGED <<open, state>>
             /\ (UNCHANGED pc \/ pc' = [pc EXCEPT !["proc"] = "adapter"])
    <3>1. Turned("provider", TRUE, ReadOut("provider")) /\ CloseMessage \notin Spoken(ReadOut("provider"))
      BY <1>h, <1>r, <2>2
    <3> QED
      BY <1>h, <1>t, <2>0, <2>2, <3>1, PlainTurnKeepsClosing
  <2> QED
    BY <1>5, <2>1, <2>2 DEF ProcessReads
<1>6. CASE AdapterReplies
  <2>0. pc["proc"] = "adapter" /\ job \in Payloads
    BY <1>6 DEF AdapterReplies, SessInv, AskInv
  <2>1. PICK type \in {"RESPONSE", "ERROR"} : Exchange("provider", FALSE, SendOut("provider", type, job))
    BY <1>6 DEF AdapterReplies, SendOut
  <2>2. /\ Turned("provider", FALSE, SendOut("provider", type, job))
        /\ Spoken(SendOut("provider", type, job)) = IF open["provider"] THEN {<<type, job>>} ELSE {}
    BY <1>h, <1>t, <2>0, <2>1, SendIsTurned DEF AppTypes
  <2>3. CloseMessage \notin Spoken(SendOut("provider", type, job))
    BY <1>a, <2>2
  <2>4. CASE pc' = [pc EXCEPT !["proc"] = "recv"] /\ UNCHANGED <<open, state>>
    BY <1>h, <1>t, <2>0, <2>2, <2>3, <2>4, PlainTurnKeepsClosing
  <2>5. CASE BeginClose("proc")
    <3>1. CloseSaid("provider", SendOut("provider", type, job))
      BY <1>h, <2>2, TurnedCloses
    <3> QED
      BY <1>h, <2>0, <2>3, <2>5, <3>1, BeginCloseKeepsClosing
  <2> QED
    BY <1>6, <2>4, <2>5 DEF AdapterReplies
<1>7. ASSUME ProcessEnds PROVE Goal
  BY <1>7, <1>b, <1>h DEF ProcessEnds
<1>8. ASSUME NEW k \in Closers, HeartbeatStopped(k) PROVE Goal
  <2>1. /\ pc[k] = "stopHb" /\ pc[Hb[Home(k)]] = "done" /\ UNCHANGED state /\ Sockets
        /\ \E at \in {"ackwait", "wsClose"} : pc' = [pc EXCEPT ![k] = at]
    BY <1>8 DEF HeartbeatStopped, AwaitAck
  <2>2. /\ Turned(Home(k), FALSE, CloseFrame(Home(k)))
        /\ CloseMessage \in Spoken(CloseFrame(Home(k))) => open[Home(k)]
    BY <1>8, <1>a, <1>t, StopIsTurned DEF HeartbeatStopped
  <2>3. CloseSaid(Home(k), CloseFrame(Home(k)))
    BY <1>h, <2>2, TurnedCloses
  <2> QED
    BY <1>s, <1>t, <2>1, <2>2, <2>3, WaitEndsClosing
<1>9. ASSUME NEW k \in Closers, CloseReads(k) PROVE Goal
  <2>1. /\ Reads(Home(k)) /\ UNCHANGED state /\ Sockets /\ pc[k] = "ackwait"
        /\ UNCHANGED pc \/ pc' = [pc EXCEPT ![k] = "wsClose"]
    BY <1>9 DEF CloseReads
  <2>2. Turned(Home(k), TRUE, ReadOut(Home(k))) /\ CloseMessage \notin Spoken(ReadOut(Home(k)))
    BY <1>h, <1>r, <2>1
  <2>3. CASE UNCHANGED pc
    BY <1>h, <1>s, <1>t, <2>1, <2>2, <2>3, PlainTurnKeepsClosing
  <2>4. CASE pc' = [pc EXCEPT ![k] = "wsClose"]
    <3>1. CloseSaid(Home(k), ReadOut(Home(k)))
      BY <1>h, <2>2, TurnedCloses
    <3> QED
      BY <1>s, <1>t, <2>1, <2>2, <2>4, <3>1, WaitEndsClosing
  <2> QED
    BY <2>1, <2>3, <2>4
<1>q. ASSUME UNCHANGED sent, NEW p \in Peers PROVE CloseSaid(p, << >>)
  <2>1. Said' = Said /\ Repeated' = Repeated
    BY <1>q DEF Said, Repeated
  <2> QED
    BY <1>t, <2>1, SpokenNothing DEF CloseSaid
<1>10. ASSUME NEW k \in Closers, CloseGivesUp(k) \/ SocketClosed(k) PROVE Goal
  <2>1. \/ /\ pc[k] = "ackwait" /\ pc' = [pc EXCEPT ![k] = "wsClose"]
           /\ UNCHANGED state /\ Sockets
        \/ /\ pc[k] = "wsClose" /\ pc' = [pc EXCEPT ![k] = "done"]
           /\ state' = [state EXCEPT ![Home(k)] = "CLOSED"] /\ UNCHANGED open
    BY <1>10 DEF CloseGivesUp, SocketClosed, chanVars
  <2>2. CloseSaid(Home(k), << >>)
    BY <1>10, <1>h, <1>q DEF CloseGivesUp, SocketClosed, chanVars
  <2>3. \A q \in Peers : open'[q] => open[q]
    BY <1>s, <2>1
  <2> QED
    BY <1>t, <2>1, <2>2, <2>3, WaitEndsClosing, SpokenNothing
<1>11. ASSUME NEW p \in Peers, HeartbeatWakes(p) PROVE Goal
  <2>1. CASE UNCHANGED <<chanVars, state>> /\ (UNCHANGED pc \/ pc' = [pc EXCEPT ![Hb[p]] = "done"])
    BY <1>11, <1>t, <2>1, StillKeepsClosing DEF HeartbeatWakes, chanVars
  <2>2. CASE /\ Exchange(p, FALSE, SendOut(p, "HEARTBEAT", Empty)) /\ UNCHANGED <<open, state>>
             /\ \E at \in {"sleep5", "done"} : pc' = [pc EXCEPT ![Hb[p]] = at]
    <3>1. /\ Turned(p, FALSE, SendOut(p, "HEARTBEAT", Empty))
          /\ CloseMessage \notin Spoken(SendOut(p, "HEARTBEAT", Empty))
      <4>1. "HEARTBEAT" \in ControlTypes
        BY DEF ControlTypes
      <4>2. /\ Turned(p, FALSE, SendOut(p, "HEARTBEAT", Empty))
            /\ Spoken(SendOut(p, "HEARTBEAT", Empty)) = IF open[p] THEN {<<"HEARTBEAT", Empty>>} ELSE {}
        BY <1>t, <2>2, <4>1, SendIsTurned
      <4> QED
        <5>1. CloseMessage \notin {<<"HEARTBEAT", Empty>>}
          BY DEF CloseMessage
        <5> QED
          BY <1>a, <4>2, <5>1
    <3>2. pc[Hb[p]] = "sleep30"
      BY <1>11 DEF HeartbeatWakes
    <3> QED
      BY <1>t, <2>2, <3>1, <3>2, PlainTurnKeepsClosing
  <2> QED
    BY <1>11, <2>1, <2>2 DEF HeartbeatWakes, SendOut
<1>12. ASSUME NEW p \in Peers, HeartbeatChecks(p) PROVE Goal
  <2>0. pc[Hb[p]] = "sleep5"
    BY <1>12 DEF HeartbeatChecks
  <2>1. CASE UNCHANGED <<chanVars, state>> /\ \E at \in {"sleep30", "done"} : pc' = [pc EXCEPT ![Hb[p]] = at]
    BY <1>t, <2>0, <2>1, StillKeepsClosing DEF chanVars
  <2>2. CASE state[p] = "ESTABLISHED" /\ Exchange(p, FALSE, CloseOut(Hb[p])) /\ BeginClose(Hb[p])
    BY <1>b, <1>h, <2>0, <2>2
  <2> QED
    BY <1>12, <2>1, <2>2 DEF HeartbeatChecks
<1>13. ASSUME NEW p \in Peers, RelayHangsUp(p) \/ LinkBreaks(p) \/ RelayMisbehaves(p) PROVE Goal
  <2>1. UNCHANGED <<sent, pc, state>>
    BY <1>13 DEF RelayHangsUp, LinkBreaks, RelayMisbehaves, RelayDrops, RelayInserts, sessVars
  <2>2. \A q \in Peers : open'[q] => open[q]
    BY <1>13, <1>t DEF RelayHangsUp, LinkBreaks, RelayMisbehaves, RelayDrops, RelayInserts
  <2> QED
    BY <1>t, <2>1, <2>2, StillKeepsClosing
<1>14. CASE UNCHANGED vars
  BY <1>14, <1>t, StillKeepsClosing DEF vars, sessVars, chanVars
<1> QED
  BY <1>1, <1>2, <1>3, <1>4, <1>5, <1>6, <1>7, <1>8, <1>9, <1>10, <1>11, <1>12, <1>13, <1>14
     DEF Next, ProcessLost, StopProvider

-----------------------------------------------------------------------------
(* Requests and their answers.                                             *)

\* What the nodes have said and heard after a turn.
LEMMA TurnedGrows ==
  ASSUME NEW p \in Peers, NEW take, NEW out, Turned(p, take, out)
  PROVE  /\ Said'[p] = Said[p] \cup Spoken(out) /\ Said'[Other(p)] = Said[Other(p)]
         /\ Repeated'[Other(p)] = Repeated[Other(p)]
         /\ Repeated'[p] \subseteq Repeated[p] \cup (Said[p] \cap Spoken(out))
         /\ \A q \in Peers : Heard[q] \subseteq Heard'[q]
         /\ Taken(p, take) => Message(Head(wire[Other(p)])) \in Heard'[p]
<1>1. Other(p) \in Peers /\ Other(p) # p /\ DOMAIN Said = Peers /\ DOMAIN Heard = Peers
  BY DEF Other, Peers, Said, Heard
<1>2. /\ Said' = [Said EXCEPT ![p] = @ \cup Spoken(out)]
      /\ Repeated'[Other(p)] = Repeated[Other(p)]
      /\ Repeated'[p] \subseteq Repeated[p] \cup (Said[p] \cap Spoken(out))
      /\ Heard' = IF Taken(p, take)
                    THEN [Heard EXCEPT ![p] = @ \cup {Message(Head(wire[Other(p)]))}]
                    ELSE Heard
  BY DEF Turned, TurnSays
<1> QED
  BY <1>1, <1>2

\* A turn that says nothing of a request, in which no request starts.
LEMMA AskKept ==
  ASSUME AskInv, NEW p \in Peers, NEW take, NEW out, Turned(p, take, out),
         \A type \in AppTypes, t \in Payloads : <<type, t>> \notin Spoken(out),
         \A t \in Payloads : pc'[t] \in {"idle", "slot"} => pc[t] \in {"idle", "slot"},
         \A t \in Payloads : result'[t] \in {result[t], "raised"},
         pc'["proc"] = "adapter" => pc["proc"] = "adapter" /\ job' = job
  PROVE  AskInv'
<1>1. /\ \A q \in Peers : Heard[q] \subseteq Heard'[q]
      /\ \A q \in Peers, type \in AppTypes, t \in Payloads :
           /\ <<type, t>> \in Said'[q] <=> <<type, t>> \in Said[q]
           /\ <<type, t>> \in Repeated'[q] => <<type, t>> \in Repeated[q]
  <2>1. \A q \in Peers : q = p \/ q = Other(p)
    BY DEF Other, Peers
  <2> QED
    BY <2>1, TurnedGrows
<1>2. {"REQUEST", "RESPONSE", "ERROR"} \subseteq AppTypes /\ {"buyer", "provider"} \subseteq Peers
  BY DEF AppTypes, Peers
<1> QED
  BY <1>1, <1>2 DEF AskInv

LEMMA AskKeptStill ==
  ASSUME AskInv, UNCHANGED <<sent, delivered>>,
         \A t \in Payloads : pc'[t] \in {"idle", "slot"} => pc[t] \in {"idle", "slot"},
         \A t \in Payloads : result'[t] \in {result[t], "raised"},
         pc'["proc"] = "adapter" => pc["proc"] = "adapter" /\ job' = job
  PROVE  AskInv'
<1>1. Said' = Said /\ Repeated' = Repeated /\ Heard' = Heard
  BY DEF Said, Repeated, Heard
<1> QED
  BY <1>1 DEF AskInv

\* An answer that recv_frame returns is one that the provider sent.
LEMMA AnswerIsSaid ==
  ASSUME ChannelInv, ChannelInv', Reads("buyer"), wire["provider"] # << >>, NEW type, NEW t,
         RecvReturns("buyer", {type}), Incoming("buyer").payload = t
  PROVE  <<type, t>> \in Said'["provider"]
<1>1. Other("buyer") = "provider" /\ "buyer" \in Peers
  BY DEF Other, Peers
<1>2. Taken("buyer", TRUE) /\ Message(Incoming("buyer")) = <<type, t>>
  BY <1>1, IncomingAccepted DEF RecvReturns, Message
<1>3. Turned("buyer", TRUE, ReadOut("buyer"))
  BY <1>1, ReadsIsTurned
<1>4. <<type, t>> \in Heard'["buyer"]
  BY <1>1, <1>2, <1>3, TurnedGrows DEF Incoming
<1>5. Len(delivered'["buyer"]) \in Nat /\ Len(sent'["provider"]) \in Nat
  BY <1>1, LenProperties DEF ChannelInv, ChannelTypeOK, Peers
<1>6. \A i \in 1..Len(delivered'["buyer"]) :
        i \in 1..Len(sent'["provider"]) /\ delivered'["buyer"][i] = sent'["provider"][i]
  BY <1>1, <1>5 DEF ChannelInv, DeliveredInOrder
<1> QED
  BY <1>1, <1>4, <1>6 DEF Heard, Said, Spoken, Peers, Message

LEMMA AskStep ==
  ASSUME SessInv, [Next]_vars
  PROVE  AskInv'
<1>t. /\ ChannelInv /\ AskInv /\ pc \in [Actors -> Awaits] /\ Places
      /\ result \in [Payloads -> {"none", "raised", "response", "error"}]
  BY DEF SessInv, SessionTypeOK, Awaits
<1>n. ChannelInv'
  BY <1>t, ChannelStep
<1>h. /\ \A k \in Closers : Home(k) \in Peers
      /\ \A p \in Peers : Hb[p] \in Closers /\ Home(Hb[p]) = p
      /\ "buyer" \in Peers /\ "provider" \in Peers /\ {"closer", "proc"} \subseteq Closers
      /\ Home("closer") = "buyer" /\ Home("proc") = "provider"
      /\ Actors = Payloads \cup Closers /\ Payloads \cap Closers = {}
      /\ Other("buyer") = "provider" /\ Other("provider") = "buyer"
  BY TasksDiffer DEF Other
<1>a. /\ {"REQUEST", "RESPONSE", "ERROR"} = AppTypes
      /\ \A type \in AppTypes, t \in Payloads : <<type, t>> \notin Acks /\ <<type, t>> \notin {}
      /\ \A type \in AppTypes, t \in Payloads :
           <<type, t>> \notin {CloseMessage} /\ <<type, t>> \notin {<<"HEARTBEAT", Empty>>}
  BY DEF AppTypes, Acks, CloseMessage
<1> DEFINE SameRequests == /\ \A t \in Payloads : pc'[t] = pc[t]
                           /\ pc'["proc"] = "adapter" => pc["proc"] = "adapter"
<1>r. ASSUME NEW p \in Peers, Reads(p)
      PROVE  /\ Turned(p, TRUE, ReadOut(p))
             /\ \A type \in AppTypes, t \in Payloads : <<type, t>> \notin Spoken(ReadOut(p))
  BY <1>r, <1>t, <1>a, ReadsIsTurned
<1>k. ASSUME NEW k \in Closers,
             \/ UNCHANGED pc \/ BeginClose(k)
             \/ \E at \in Awaits \ {"adapter"} : pc' = [pc EXCEPT ![k] = at]
      PROVE  SameRequests
  <2>1. CASE BeginClose(k)
    <3>1. /\ \A a \in Actors \ {k, Hb[Home(k)]} : pc'[a] = pc[a]
          /\ pc'[k] \in {"done", "stopHb", "ackwait", "wsClose"}
          /\ k # Hb[Home(k)] => pc'[Hb[Home(k)]] \in {pc[Hb[Home(k)]], "wsClose", "done"}
      BY <1>t, <2>1, BeginCloseMoves DEF Cancelled
    <3> QED
      BY <1>h, <3>1
  <2>2. CASE UNCHANGED pc \/ \E at \in Awaits \ {"adapter"} : pc' = [pc EXCEPT ![k] = at]
    BY <1>h, <1>t, <2>2
  <2> QED
    BY <1>k, <2>1, <2>2
<1>c. ASSUME NEW k \in Closers, NEW take \in BOOLEAN, Exchange(Home(k), take, CloseOut(k)), BeginClose(k),
             UNCHANGED result, pc'["proc"] = "adapter" => job' = job
      PROVE  AskInv'
  <2>1. /\ Turned(Home(k), take, CloseOut(k))
        /\ \A type \in AppTypes, t \in Payloads : <<type, t>> \notin Spoken(CloseOut(k))
    BY <1>c, <1>a, <1>t, CloseIsTurned
  <2>2. SameRequests
    BY <1>c, <1>k
  <2> QED
    BY <1>c, <1>h, <1>t, <2>1, <2>2, AskKept
<1>p. \A k \in Closers : pc'[k] # "adapter" \/ k = "proc"
  <2>1. Places'
    BY PlacesStep
  <2> QED
    BY <2>1, TasksDiffer DEF Places
<1>1. ASSUME NEW t \in Payloads, WaitForSlot(t) \/ RequestLost(t) PROVE AskInv'
  <2>1. /\ UNCHANGED <<chanVars, job>> /\ \A u \in Payloads : result'[u] \in {result[u], "raised"}
        /\ \/ pc[t] = "idle" /\ pc' = [pc EXCEPT ![t] = "slot"]
           \/ pc' = [pc EXCEPT ![t] = "done"]
    BY <1>1, <1>t DEF WaitForSlot, RequestLost, FinishRequest
  <2> QED
    BY <1>h, <1>t, <2>1, AskKeptStill DEF chanVars
<1>2. ASSUME NEW t \in Payloads, SendRequest(t) PROVE AskInv'
  <2>1. /\ Exchange("buyer", FALSE, SendOut("buyer", "REQUEST", t)) /\ UNCHANGED job
        /\ \E at \in {"recv", "done"} : pc' = [pc EXCEPT ![t] = at]
        /\ pc[t] \in {"idle", "slot"}
        /\ result' = result \/ result' = [result EXCEPT ![t] = "raised"]
    BY <1>2 DEF SendRequest, SendOut
  <2>2. PICK out : Turned("buyer", FALSE, out) /\ Spoken(out) \subseteq {<<"REQUEST", t>>}
    <3>1. "REQUEST" \in AppTypes
      BY <1>a
    <3>2. /\ Turned("buyer", FALSE, SendOut("buyer", "REQUEST", t))
          /\ Spoken(SendOut("buyer", "REQUEST", t)) = IF open["buyer"] THEN {<<"REQUEST", t>>} ELSE {}
      BY <1>h, <1>t, <2>1, <3>1, SendIsTurned
    <3> QED
      BY <3>2
  <2>3. /\ Said'["buyer"] \subseteq Said["buyer"] \cup {<<"REQUEST", t>>}
        /\ Said'["provider"] = Said["provider"]
        /\ Repeated'["buyer"] \subseteq Repeated["buyer"] \cup (Said["buyer"] \cap {<<"REQUEST", t>>})
        /\ Heard["provider"] \subseteq Heard'["provider"]
    <3>1. /\ Said'["buyer"] = Said["buyer"] \cup Spoken(out) /\ Said'["provider"] = Said["provider"]
          /\ Repeated'["provider"] = Repeated["provider"]
          /\ Repeated'["buyer"] \subseteq Repeated["buyer"] \cup (Said["buyer"] \cap Spoken(out))
          /\ \A r \in Peers : Heard[r] \subseteq Heard'[r]
      BY <1>h, <2>2, TurnedGrows
    <3> QED
      BY <1>h, <2>2, <3>1
  <2>4. <<"REQUEST", t>> \notin Said["buyer"]
    BY <1>t, <2>1 DEF AskInv
  <2>5. /\ pc'[t] \notin {"idle", "slot"} /\ \A u \in Payloads \ {t} : pc'[u] = pc[u]
        /\ pc'["proc"] = pc["proc"] /\ job' = job
    BY <1>h, <1>t, <2>1
  <2>6. \A u \in Payloads : result'[u] \in {result[u], "raised"}
    BY <1>t, <2>1
  <2> QED
    BY <1>t, <2>3, <2>4, <2>5, <2>6 DEF AskInv
<1>3. ASSUME NEW t \in Payloads, RequestReads(t) PROVE AskInv'
  <2>1. Reads("buyer") /\ UNCHANGED job /\ wire["provider"] # << >>
    BY <1>3 DEF RequestReads
  <2>2. /\ Turned("buyer", TRUE, ReadOut("buyer"))
        /\ \A type \in AppTypes, u \in Payloads : <<type, u>> \notin Spoken(ReadOut("buyer"))
    BY <1>h, <1>r, <2>1
  <2>3. \/ UNCHANGED <<pc, result>>
        \/ pc' = [pc EXCEPT ![t] = "done"] /\ result' = [result EXCEPT ![t] = "raised"]
        \/ /\ pc' = [pc EXCEPT ![t] = "done"] /\ result' = [result EXCEPT ![t] = "response"]
           /\ RecvReturns("buyer", {"RESPONSE"}) /\ Incoming("buyer").payload = t
        \/ /\ pc' = [pc EXCEPT ![t] = "done"] /\ result' = [result EXCEPT ![t] = "error"]
           /\ RecvReturns("buyer", {"ERROR"}) /\ Incoming("buyer").payload = t
    BY <1>3 DEF RequestReads, FinishRequest
  <2>4. /\ \A u \in Payloads : pc'[u] \in {"idle", "slot"} => pc[u] \in {"idle", "slot"}
        /\ pc'["proc"] = pc["proc"]
    BY <1>h, <1>t, <2>3
  <2>5. CASE \A u \in Payloads : result'[u] \in {result[u], "raised"}
    BY <1>h, <1>t, <2>1, <2>2, <2>4, <2>5, AskKept
  <2>6. ASSUME NEW type \in {"RESPONSE", "ERROR"}, NEW r \in {"response", "error"},
               r = "response" <=> type = "RESPONSE",
               result' = [result EXCEPT ![t] = r],
               RecvReturns("buyer", {type}), Incoming("buyer").payload = t
        PROVE  AskInv'
    <3>1. <<type, t>> \in Said'["provider"]
      BY <1>n, <1>t, <2>1, <2>6, AnswerIsSaid
    <3>2. /\ Said'["provider"] = Said["provider"]
          /\ Heard["provider"] \subseteq Heard'["provider"]
          /\ \A ty \in AppTypes, u \in Payloads :
               /\ <<ty, u>> \in Said'["buyer"] <=> <<ty, u>> \in Said["buyer"]
               /\ <<ty, u>> \in Repeated'["buyer"] => <<ty, u>> \in Repeated["buyer"]
      BY <1>h, <2>2, TurnedGrows
    <3>3. /\ result'[t] = r /\ \A u \in Payloads \ {t} : result'[u] = result[u]
      BY <1>t, <2>6
    <3> QED
      BY <1>a, <1>t, <2>1, <2>4, <2>6, <3>1, <3>2, <3>3 DEF AskInv
  <2>7. \/ \A u \in Payloads : result'[u] \in {result[u], "raised"}
        \/ /\ result' = [result EXCEPT ![t] = "response"]
           /\ RecvReturns("buyer", {"RESPONSE"}) /\ Incoming("buyer").payload = t
        \/ /\ result' = [result EXCEPT ![t] = "error"]
           /\ RecvReturns("buyer", {"ERROR"}) /\ Incoming("buyer").payload = t
    BY <1>t, <2>3
  <2> QED
    BY <2>5, <2>6, <2>7
<1>4. CASE CloseSession
  BY <1>4, <1>c, <1>h DEF CloseSession
<1>5. CASE ProcessReads
  <2>1. CASE /\ Exchange("provider", TRUE, CloseOut("proc")) /\ BeginClose("proc") /\ UNCHANGED <<job, result>>
    BY <1>c, <1>h, <2>1
  <2>2. ASSUME Reads("provider"), UNCHANGED <<pc, result, job>> PROVE AskInv'
    <3>1. /\ Turned("provider", TRUE, ReadOut("provider"))
          /\ \A type \in AppTypes, t \in Payloads : <<type, t>> \notin Spoken(ReadOut("provider"))
      BY <1>h, <1>r, <2>2
    <3> QED
      BY <1>h, <1>t, <2>2, <3>1, AskKept
  <2>3. ASSUME wire["buyer"] # << >>, RecvReturns("provider", {"REQUEST"}), Reads("provider"),
               job' = Incoming("provider").payload, pc' = [pc EXCEPT !["proc"] = "adapter"],
               UNCHANGED result
        PROVE  AskInv'
    <3>1. /\ Turned("provider", TRUE, ReadOut("provider"))
          /\ \A type \in AppTypes, t \in Payloads : <<type, t>> \notin Spoken(ReadOut("provider"))
      BY <1>h, <1>r, <2>3
    <3>2. Incoming("provider") \in Frames /\ Taken("provider", TRUE) /\ Incoming("provider").type = "REQUEST"
      BY <1>h, <1>t, <2>3, IncomingAccepted DEF RecvReturns
    <3>3. job' \in Payloads
      BY <2>3, <3>2 DEF Frames, ControlTypes
    <3>4. Message(Incoming("provider")) = <<"REQUEST", job'>>
      BY <2>3, <3>2 DEF Message
    <3>5. <<"REQUEST", job'>> \in Heard'["provider"]
      BY <1>h, <3>1, <3>2, <3>4, TurnedGrows DEF Incoming
    <3>6. /\ Said'["buyer"] = Said["buyer"] /\ Repeated'["buyer"] = Repeated["buyer"]
          /\ Heard["provider"] \subseteq Heard'["provider"]
          /\ \A type \in AppTypes, t \in Payloads :
               <<type, t>> \in Said'["provider"] <=> <<type, t>> \in Said["provider"]
      BY <1>h, <3>1, TurnedGrows
    <3>7. \A t \in Payloads : pc'[t] = pc[t]
      BY <1>h, <1>t, <2>3
    <3> QED
      BY <1>a, <1>t, <2>3, <3>3, <3>5, <3>6, <3>7 DEF AskInv
  <2> QED
    BY <1>5, <2>1, <2>2, <2>3 DEF ProcessReads
<1>6. CASE AdapterReplies
  <2>0. pc["proc"] = "adapter" /\ job \in Payloads /\ <<"REQUEST", job>> \in Heard["provider"]
    BY <1>6, <1>t DEF AdapterReplies, AskInv
  <2>1. PICK type \in {"RESPONSE", "ERROR"} : Exchange("provider", FALSE, SendOut("provider", type, job))
    BY <1>6 DEF AdapterReplies, SendOut
  <2>2. PICK out : Turned("provider", FALSE, out) /\ Spoken(out) \subseteq {<<type, job>>}
    <3>1. type \in AppTypes
      BY <1>a
    <3>2. /\ Turned("provider", FALSE, SendOut("provider", type, job))
          /\ Spoken(SendOut("provider", type, job)) = IF open["provider"] THEN {<<type, job>>} ELSE {}
      BY <1>h, <1>t, <2>0, <2>1, <3>1, SendIsTurned
    <3> QED
      BY <3>2
  <2>3. /\ Said'["buyer"] = Said["buyer"] /\ Repeated'["buyer"] = Repeated["buyer"]
        /\ Said["provider"] \subseteq Said'["provider"]
        /\ Said'["provider"] \subseteq Said["provider"] \cup {<<type, job>>}
        /\ Heard["provider"] \subseteq Heard'["provider"]
    <3>1. /\ Said'["provider"] = Said["provider"] \cup Spoken(out) /\ Said'["buyer"] = Said["buyer"]
          /\ Repeated'["buyer"] = Repeated["buyer"]
          /\ Repeated'["provider"] \subseteq Repeated["provider"] \cup (Said["provider"] \cap Spoken(out))
          /\ \A r \in Peers : Heard[r] \subseteq Heard'[r]
      BY <1>h, <2>2, TurnedGrows
    <3> QED
      BY <1>h, <2>2, <3>1
  <2>4. UNCHANGED result /\ (BeginClose("proc") \/ pc' = [pc EXCEPT !["proc"] = "recv"])
    BY <1>6 DEF AdapterReplies
  <2>5. \A t \in Payloads : pc'[t] = pc[t]
    <3>1. BeginClose("proc") => SameRequests
      BY <1>h, <1>k
    <3>2. pc' = [pc EXCEPT !["proc"] = "recv"] => SameRequests
      BY <1>h, <1>t
    <3> QED
      BY <2>4, <3>1, <3>2
  <2>6. pc'["proc"] # "adapter"
    <3>1. "proc" \in Actors
      BY <1>h
    <3>2. BeginClose("proc") => pc'["proc"] # "adapter"
      BY <1>h, <1>t, BeginCloseMoves
    <3> QED
      BY <1>t, <2>4, <3>1, <3>2
  <2>7. \A u \in Payloads, ty \in {"RESPONSE", "ERROR"} : <<ty, u>> = <<type, job>> => u = job
    OBVIOUS
  <2> QED
    BY <1>a, <1>t, <2>0, <2>3, <2>4, <2>5, <2>6, <2>7 DEF AskInv
<1>7. ASSUME ProcessEnds PROVE AskInv'
  <2>1. pc'["proc"] # "adapter"
    BY <1>7, <1>h, <1>t, BeginCloseMoves DEF ProcessEnds
  <2> QED
    BY <1>7, <1>c, <1>h, <2>1 DEF ProcessEnds
<1>8. ASSUME NEW k \in Closers, HeartbeatStopped(k) PROVE AskInv'
  <2>1. UNCHANGED <<result, job>> /\ \E at \in {"ackwait", "wsClose"} : pc' = [pc EXCEPT ![k] = at]
    BY <1>8 DEF HeartbeatStopped, AwaitAck
  <2>2. /\ Turned(Home(k), FALSE, CloseFrame(Home(k)))
        /\ \A type \in AppTypes, t \in Payloads : <<type, t>> \notin Spoken(CloseFrame(Home(k)))
    BY <1>8, <1>a, <1>t, StopIsTurned DEF HeartbeatStopped
  <2>3. SameRequests
    BY <1>k, <2>1 DEF Awaits
  <2> QED
    BY <1>h, <1>t, <2>1, <2>2, <2>3, AskKept
<1>9. ASSUME NEW k \in Closers, CloseReads(k) PROVE AskInv'
  <2>1. /\ Reads(Home(k)) /\ UNCHANGED <<result, job>>
        /\ UNCHANGED pc \/ pc' = [pc EXCEPT ![k] = "wsClose"]
    BY <1>9 DEF CloseReads
  <2>2. /\ Turned(Home(k), TRUE, ReadOut(Home(k)))
        /\ \A type \in AppTypes, t \in Payloads : <<type, t>> \notin Spoken(ReadOut(Home(k)))
    BY <1>h, <1>r, <2>1
  <2>3. SameRequests
    BY <1>k, <2>1 DEF Awaits
  <2> QED
    BY <1>h, <1>t, <2>1, <2>2, <2>3, AskKept
<1>10. ASSUME NEW k \in Closers, CloseGivesUp(k) \/ SocketClosed(k) PROVE AskInv'
  <2>1. /\ UNCHANGED <<sent, delivered, result, job>>
        /\ \E at \in {"wsClose", "done"} : pc' = [pc EXCEPT ![k] = at]
    BY <1>10 DEF CloseGivesUp, SocketClosed, chanVars
  <2>2. SameRequests
    BY <1>k, <2>1 DEF Awaits
  <2> QED
    BY <1>t, <2>1, <2>2, AskKeptStill
<1>11. ASSUME NEW p \in Peers, HeartbeatWakes(p) PROVE AskInv'
  <2>1. /\ UNCHANGED <<result, job>>
        /\ UNCHANGED pc \/ \E at \in {"sleep5", "done"} : pc' = [pc EXCEPT ![Hb[p]] = at]
        /\ UNCHANGED chanVars \/ Exchange(p, FALSE, SendOut(p, "HEARTBEAT", Empty))
    BY <1>11 DEF HeartbeatWakes, SendOut
  <2>2. SameRequests
    BY <1>h, <1>k, <2>1 DEF Awaits
  <2>3. CASE UNCHANGED chanVars
    BY <1>t, <2>1, <2>2, <2>3, AskKeptStill DEF chanVars
  <2>4. CASE Exchange(p, FALSE, SendOut(p, "HEARTBEAT", Empty))
    <3>1. "HEARTBEAT" \in ControlTypes
      BY DEF ControlTypes
    <3>2. /\ Turned(p, FALSE, SendOut(p, "HEARTBEAT", Empty))
          /\ Spoken(SendOut(p, "HEARTBEAT", Empty)) = IF open[p] THEN {<<"HEARTBEAT", Empty>>} ELSE {}
      BY <1>t, <2>4, <3>1, SendIsTurned
    <3>3. \A type \in AppTypes, t \in Payloads : <<type, t>> \notin Spoken(SendOut(p, "HEARTBEAT", Empty))
      BY <1>a, <3>2
    <3> QED
      BY <1>t, <2>1, <2>2, <3>2, <3>3, AskKept
  <2> QED
    BY <2>1, <2>3, <2>4
<1>12. ASSUME NEW p \in Peers, HeartbeatChecks(p) PROVE AskInv'
  <2>0. UNCHANGED <<result, job>>
    BY <1>12 DEF HeartbeatChecks
  <2>1. CASE UNCHANGED chanVars /\ \E at \in {"sleep30", "done"} : pc' = [pc EXCEPT ![Hb[p]] = at]
    <3>1. SameRequests
      BY <1>h, <1>k, <2>1 DEF Awaits
    <3> QED
      BY <1>t, <2>0, <2>1, <3>1, AskKeptStill DEF chanVars
  <2>2. CASE Exchange(p, FALSE, CloseOut(Hb[p])) /\ BeginClose(Hb[p])
    BY <1>c, <1>h, <2>0, <2>2
  <2> QED
    BY <1>12, <2>1, <2>2 DEF HeartbeatChecks
<1>13. ASSUME NEW p \in Peers, RelayHangsUp(p) \/ LinkBreaks(p) \/ RelayMisbehaves(p) PROVE AskInv'
  <2>1. UNCHANGED <<sent, delivered, pc, result, job>>
    BY <1>13 DEF RelayHangsUp, LinkBreaks, RelayMisbehaves, RelayDrops, RelayInserts, sessVars
  <2> QED
    BY <1>t, <2>1, AskKeptStill
<1>14. CASE UNCHANGED vars
  BY <1>14, <1>t, AskKeptStill DEF vars, sessVars, chanVars
<1> QED
  BY <1>1, <1>2, <1>3, <1>4, <1>5, <1>6, <1>7, <1>8, <1>9, <1>10, <1>11, <1>12, <1>13, <1>14
     DEF Next, ProcessLost, StopProvider

-----------------------------------------------------------------------------
(* The invariant of the session, and what follows from it.                 *)

LEMMA SessInit == Init => SessInv
<1> SUFFICES ASSUME Init PROVE SessInv
  OBVIOUS
<1>d. /\ Actors = Payloads \cup Closers /\ Payloads \cap Closers = {}
      /\ Closers = {"closer", "proc", Hb["buyer"], Hb["provider"]}
      /\ Peers = {"buyer", "provider"} /\ Main["buyer"] = "closer" /\ Main["provider"] = "proc"
      /\ Hb["buyer"] = "hb_buyer" /\ Hb["provider"] = "hb_provider"
  BY TasksDiffer DEF Hb
<1>1. ChannelInv
  BY ChannelInvInit DEF Init
<1>2. /\ \A t \in Payloads : pc[t] = "idle" /\ result[t] = "none"
      /\ pc["closer"] = "idle" /\ pc["proc"] = "recv"
      /\ \A p \in Peers : pc[Hb[p]] = "sleep30" /\ state[p] = "ESTABLISHED" /\ missed[p] = 0
  <2>1. \A t \in Payloads : t \notin {"hb_buyer", "hb_provider", "proc"}
    BY <1>d
  <2> QED
    BY <1>d, <2>1 DEF Init
<1>3. SessionTypeOK
  <2>1. /\ MaxConcurrent \in Nat /\ MissLimit \in Nat /\ MaxBeats + MaxFaults * FaultBeats \in Nat
    <3>1. MaxFaults \in Nat /\ FaultBeats \in Nat /\ MaxBeats \in Nat
      BY FrameChannelAssumption, RelaySessionAssumption
    <3>2. \A m, n \in Nat : m * n \in Nat
      OBVIOUS
    <3>3. MaxFaults * FaultBeats \in Nat
      BY <3>1, <3>2
    <3> QED
      BY <3>1, <3>3, RelaySessionAssumption
  <2> QED
    BY <2>1 DEF Init, SessionTypeOK
<1>4. Places
  BY <1>2, <1>d DEF Places
<1>5. BelowLimit
  BY <1>2, RelaySessionAssumption DEF BelowLimit
<1>6. \A p \in Peers : Said[p] = {} /\ Repeated[p] = {} /\ Heard[p] = {}
  <2>1. \A p \in Peers : sent[p] = << >> /\ delivered[p] = << >>
    BY DEF Init, ChannelInit
  <2> QED
    BY <2>1, SpokenNothing DEF Said, Repeated, Heard, Twice
<1>7. CloseInv
  <2>1. \A p \in Peers : pc[Main[p]] \in {"idle", "recv"}
    BY <1>2, <1>d
  <2>2. \A p \in Peers : ClosingAt(p)
    BY <1>2, <1>6, <2>1 DEF ClosingAt
  <2> QED
    BY <2>2, ClosingEverywhere
<1>8. SlotInv
  <2>1. pending = {} /\ slots = MaxConcurrent /\ MaxConcurrent \in Nat
    BY RelaySessionAssumption DEF Init
  <2>2. Cardinality(pending) = 0 /\ IsFiniteSet(pending)
    BY <2>1, FS_EmptySet
  <2> QED
    BY <1>2, <2>1, <2>2 DEF SlotInv, SlotsAccounted
<1>9. AskInv
  BY <1>2, <1>6, <1>d DEF AskInv
<1> QED
  BY <1>1, <1>3, <1>4, <1>5, <1>7, <1>8, <1>9 DEF SessInv

LEMMA SessStep == SessInv /\ [Next]_vars => SessInv'
<1> SUFFICES ASSUME SessInv, [Next]_vars PROVE SessInv'
  OBVIOUS
<1>1. ChannelInv'
  BY ChannelStep DEF SessInv
<1>2. pc' \in [Actors -> Awaits] /\ Places'
  BY PlacesStep
<1>3. DataTyped'
  BY DataStep
<1>4. SlotInv' /\ slots' \in 0..MaxConcurrent /\ pending' \subseteq Payloads
  BY SlotStep
<1>5. CloseInv' /\ AskInv'
  BY CloseStep, AskStep
<1> QED
  BY <1>1, <1>2, <1>3, <1>4, <1>5 DEF SessInv, SessionTypeOK, DataTyped, Awaits

(***************************************************************************)
(* The inductive invariant of an established session, whatever its tasks,  *)
(* its two close()s and the relay do.                                      *)
(***************************************************************************)
THEOREM SessionInvariant == Spec => []SessInv
BY SessInit, SessStep, PTL DEF Spec

\* Every path out of send_request gives its slot back, for any number of requests.
THEOREM SlotsAreAccounted == Spec => []SlotsAccounted
<1>1. SessInv => SlotsAccounted
  BY DEF SessInv, SlotInv
<1> QED
  BY <1>1, SessionInvariant, PTL

(***************************************************************************)
(* However the consumer's close, the provider's loop and the heartbeats    *)
(* run into close(), a transport in CLOSING is in the hands of a task and  *)
(* its node has sent one CLOSE at most.                                    *)
(***************************************************************************)
THEOREM SessionClosesOnce == Spec => []ClosesOnce
<1>1. SessInv => ClosesOnce
  <2> SUFFICES ASSUME SessInv PROVE OneClose
    BY DEF SessInv, CloseInv, ClosesOnce
  <2> SUFFICES ASSUME NEW p \in Peers, NEW i \in 1..Len(sent[p]), NEW j \in 1..Len(sent[p]),
                      sent[p][i].type = "CLOSE", sent[p][j].type = "CLOSE", i # j
               PROVE  FALSE
    BY DEF OneClose
  <2>1. sent[p] \in Seq(Frames) /\ sent[p][i] \in Frames /\ sent[p][j] \in Frames
    BY ElementOfSeq DEF SessInv, ChannelInv, ChannelTypeOK
  <2>2. \A f \in Frames : f.type = "CLOSE" => Message(f) = CloseMessage
    BY DEF Frames, AppTypes, Message, CloseMessage
  <2>3. Message(sent[p][i]) = CloseMessage /\ Message(sent[p][j]) = CloseMessage
    BY <2>1, <2>2
  <2>4. CloseMessage \in Twice(sent[p])
    BY <2>3 DEF Twice, Spoken
  <2>5. CloseMessage \notin Twice(sent[p])
    BY DEF SessInv, CloseInv, CloseWaits, Repeated
  <2> QED
    BY <2>4, <2>5
<1> QED
  BY <1>1, SessionInvariant, PTL

\* Where a message is in a sequence of frames.
Occurrences(s, type, x) == {i \in 1..Len(s) : s[i].type = type /\ s[i].payload = x}

\* A message that is not in a sequence twice is there once or not at all.
LEMMA Counted ==
  ASSUME NEW s, Len(s) \in Nat, NEW type, NEW x, <<type, x>> \notin Twice(s)
  PROVE  CountOf(s, type, x) = IF <<type, x>> \in Spoken(s) THEN 1 ELSE 0
<1> DEFINE I == Occurrences(s, type, x)
<1>1. \A i \in 1..Len(s) : i \in I <=> Message(s[i]) = <<type, x>>
  BY DEF Message, Occurrences
<1>2. \A i, j \in I : i = j
  <2> SUFFICES ASSUME NEW i \in I, NEW j \in I, i # j PROVE FALSE
    OBVIOUS
  <2>1. i \in 1..Len(s) /\ j \in 1..Len(s)
    BY DEF Occurrences
  <2> HIDE DEF I
  <2> QED
    BY <1>1, <2>1 DEF Twice, Spoken
<1>3. <<type, x>> \in Spoken(s) <=> I # {}
  <2>1. \A i \in I : i \in 1..Len(s)
    BY DEF Occurrences
  <2> HIDE DEF I
  <2> QED
    BY <1>1, <2>1 DEF Spoken
<1>4. CountOf(s, type, x) = Cardinality(I)
  BY DEF CountOf, Occurrences
<1> HIDE DEF I
<1>5. ASSUME NEW i \in I PROVE I = {i}
  BY <1>2
<1>6. Cardinality(I) = IF I = {} THEN 0 ELSE 1
  BY <1>5, FS_EmptySet, FS_Singleton
<1> QED
  BY <1>3, <1>4, <1>6

\* What a node accepted twice its peer has sent twice.
LEMMA HeardTwice ==
  ASSUME ChannelInv, NEW p \in Peers
  PROVE  Twice(delivered[p]) \subseteq Repeated[Other(p)]
<1> DEFINE d == delivered[p]
           s == sent[Other(p)]
<1>o. Other(p) \in Peers
  BY DEF Other, Peers
<1>1. Len(d) \in Nat /\ Len(s) \in Nat
  BY <1>o, LenProperties DEF ChannelInv, ChannelTypeOK
<1>2. \A i \in 1..Len(d) : i \in 1..Len(s) /\ d[i] = s[i]
  BY <1>1 DEF ChannelInv, DeliveredInOrder
<1> HIDE DEF d, s
<1>3. Twice(d) \subseteq Twice(s)
  BY <1>2 DEF Twice, Spoken
<1> QED
  BY <1>o, <1>3 DEF Repeated, d, s

\* The provider accepts a request's REQUEST once at most, and once if it heard it.
LEMMA HandledOnce ==
  ASSUME SessInv, NEW t \in Payloads
  PROVE  CountOf(delivered["provider"], "REQUEST", t) =
           IF <<"REQUEST", t>> \in Heard["provider"] THEN 1 ELSE 0
<1>o. "provider" \in Peers /\ Other("provider") = "buyer"
  BY DEF Peers, Other
<1>1. Len(delivered["provider"]) \in Nat
  BY <1>o, LenProperties DEF SessInv, ChannelInv, ChannelTypeOK
<1>2. <<"REQUEST", t>> \notin Twice(delivered["provider"])
  BY <1>o, HeardTwice DEF SessInv, AskInv
<1>3. Heard["provider"] = Spoken(delivered["provider"])
  BY <1>o DEF Heard
<1> QED
  BY <1>1, <1>2, <1>3, Counted

(***************************************************************************)
(* send_request answers with what the provider answered to that request,   *)
(* which it has handled once.                                              *)
(***************************************************************************)
THEOREM ResultsAreGenuine == Spec => []ResultsGenuine
<1>1. SessInv => ResultsGenuine
  <2> SUFFICES ASSUME SessInv, NEW t \in Payloads, NEW type \in {"RESPONSE", "ERROR"},
                      <<type, t>> \in Said["provider"]
               PROVE  /\ \E i \in 1..Len(sent["provider"]) :
                           sent["provider"][i].type = type /\ sent["provider"][i].payload = t
                      /\ CountOf(delivered["provider"], "REQUEST", t) = 1
    BY DEF ResultsGenuine, SessInv, AskInv
  <2>1. <<"REQUEST", t>> \in Heard["provider"]
    BY DEF SessInv, AskInv
  <2>2. PICK i \in 1..Len(sent["provider"]) : Message(sent["provider"][i]) = <<type, t>>
    BY DEF Said, Spoken, Peers
  <2>3. sent["provider"][i].type = type /\ sent["provider"][i].payload = t
    BY <2>2 DEF Message
  <2> QED
    BY <2>1, <2>3, HandledOnce
<1> QED
  BY <1>1, SessionInvariant, PTL

-----------------------------------------------------------------------------
(* The steps of the session.                                               *)

\* What a step does to the frames sent by a node whose socket is closed.
LEMMA ClosedSendsNothing ==
  ASSUME SessInv, [Next]_vars, NEW p \in Peers, ~open[p]
  PROVE  sent'[p] = sent[p]
<1>t. sent \in [Peers -> Seq(Frames)]
  BY DEF SessInv, ChannelInv, ChannelTypeOK
<1>1. CASE TurnStep
  <2>0. PICK q \in Peers, take \in BOOLEAN : \E out : Turned(q, take, out)
    BY <1>1 DEF TurnStep
  <2>1. PICK out : Turned(q, take, out)
    BY <2>0
  <2>2. sent' = [sent EXCEPT ![q] = @ \o out] /\ (out # << >> => open[q])
    BY <2>1 DEF Turned, Turn, Write
  <2>3. CASE q = p
    BY <1>t, <2>2, <2>3, ConcatEmptySeq
  <2>4. CASE q # p
    BY <1>t, <2>2, <2>4
  <2> QED
    BY <2>3, <2>4
<1>2. CASE StillStep
  BY <1>2 DEF StillStep
<1>3. CASE RelayStep
  BY <1>3 DEF RelayStep, RelayDrops, RelayInserts
<1> QED
  BY <1>1, <1>2, <1>3, StepShape DEF SessInv

\* Only close() changes the state.
LEMMA StateMoves ==
  ASSUME [Next]_vars
  PROVE  \/ UNCHANGED state
         \/ \E k \in Closers : BeginClose(k) \/ SocketClosed(k)
<1>h. {"closer", "proc"} \subseteq Closers /\ \A p \in Peers : Hb[p] \in Closers
  BY TasksDiffer
<1>1. ASSUME NEW t \in Payloads, WaitForSlot(t) \/ SendRequest(t) \/ RequestReads(t) \/ RequestLost(t)
      PROVE  UNCHANGED state
  BY <1>1 DEF WaitForSlot, SendRequest, RequestReads, RequestLost
<1>2. CASE CloseSession \/ ProcessReads \/ AdapterReplies \/ ProcessEnds
  BY <1>2, <1>h DEF CloseSession, ProcessReads, AdapterReplies, ProcessEnds
<1>3. ASSUME NEW k \in Closers, HeartbeatStopped(k) \/ CloseReads(k) \/ CloseGivesUp(k)
      PROVE  UNCHANGED state
  BY <1>3 DEF HeartbeatStopped, CloseReads, CloseGivesUp
<1>4. ASSUME NEW p \in Peers, HeartbeatWakes(p) \/ HeartbeatChecks(p)
      PROVE  UNCHANGED state \/ BeginClose(Hb[p])
  BY <1>4 DEF HeartbeatWakes, HeartbeatChecks
<1>5. ASSUME NEW p \in Peers, RelayHangsUp(p) \/ LinkBreaks(p) \/ RelayMisbehaves(p)
      PROVE  UNCHANGED state
  BY <1>5 DEF RelayHangsUp, LinkBreaks, RelayMisbehaves, sessVars
<1>6. CASE UNCHANGED vars
  BY <1>6 DEF vars, sessVars
<1> QED
  BY <1>h, <1>1, <1>2, <1>3, <1>4, <1>5, <1>6 DEF Next, ProcessLost, StopProvider

\* A closed transport stays closed and sends nothing, whichever task wakes on it.
THEOREM ClosedStaysFinal == Spec => ClosedIsFinal
<1>1. SessInv /\ [Next]_vars =>
        [\A p \in Peers : state[p] = "CLOSED" => state'[p] = "CLOSED" /\ sent'[p] = sent[p]]_vars
  <2> SUFFICES ASSUME SessInv, [Next]_vars, NEW p \in Peers, state[p] = "CLOSED"
               PROVE  state'[p] = "CLOSED" /\ sent'[p] = sent[p]
    OBVIOUS
  <2>1. ~open[p]
    BY DEF SessInv, CloseInv, CloseWaits
  <2>2. state'[p] = "CLOSED"
    <3>1. state \in [Peers -> {"ESTABLISHED", "CLOSING", "CLOSED"}]
      BY DEF SessInv, SessionTypeOK
    <3>2. ASSUME NEW k \in Closers, BeginClose(k) PROVE state'[p] = "CLOSED"
      BY <3>1, <3>2 DEF BeginClose
    <3>3. ASSUME NEW k \in Closers, SocketClosed(k) PROVE state'[p] = "CLOSED"
      BY <3>1, <3>3 DEF SocketClosed
    <3> QED
      BY <3>2, <3>3, StateMoves
  <2> QED
    BY <2>1, <2>2, ClosedSendsNothing
<1> QED
  BY <1>1, SessionInvariant, PTL DEF Spec, ClosedIsFinal

(***************************************************************************)
(* A session with its requests, heartbeats and closes, all using the same  *)
(* transport, still gives the two nodes the abstract stream of frames.     *)
(***************************************************************************)
THEOREM SessionRefinement == Spec => ImplementsStream
<1>1. Init => Stream!Init
  BY DEF Init, ChannelInit, Stream!Init, Stream!Peers, Peers
<1>2. SessInv /\ SessInv' /\ [Next]_vars => [Stream!Next]_<<sent, delivered>>
  <2> SUFFICES ASSUME SessInv, SessInv', [Next]_vars PROVE [Stream!Next]_<<sent, delivered>>
    OBVIOUS
  <2>c. ChannelInv /\ DeliveredInOrder'
    BY DEF SessInv, ChannelInv
  <2>1. CASE TurnStep
    <3>0. PICK p \in Peers, take \in BOOLEAN : \E out : Turned(p, take, out)
      BY <2>1 DEF TurnStep
    <3>1. PICK out : Turned(p, take, out)
      BY <3>0
    <3>2. out \in Seq(Frames)
      <4>1. CASE out = << >>
        BY <4>1
      <4>2. ASSUME NEW f \in Frames, out = <<f>> PROVE out \in Seq(Frames)
        BY <4>2
      <4> QED
        BY <3>1, <4>1, <4>2 DEF Turned, Outgoing
    <3>3. PlainTurn(p)
      BY <3>1, <3>2, StepShape DEF Turned, PlainTurn, SessInv
    <3>4. Stream!Turn(p)
      BY <2>c, <3>3, TurnIsStreamTurn
    <3> QED
      BY <3>4 DEF Stream!Next, Stream!Peers, Peers
  <2>2. CASE StillStep
    BY <2>2 DEF StillStep
  <2>3. CASE RelayStep
    BY <2>3 DEF RelayStep, RelayDrops, RelayInserts
  <2> QED
    BY <2>1, <2>2, <2>3, StepShape DEF SessInv
<1> QED
  BY <1>1, <1>2, SessionInvariant, PTL DEF Spec, ImplementsStream, Stream!Spec

-----------------------------------------------------------------------------
(* Refinement of RemoteCalls.                                              *)

AnswerTypes == {"RESPONSE", "ERROR"}

\* A request gets one answer, none while the adapter works on it; what a call came to
\* is set when it ends.
AnswerInv ==
  /\ \A t \in Payloads : \A type \in AnswerTypes :
       /\ <<type, t>> \notin Repeated["provider"]
       /\ \A other \in AnswerTypes :
            <<type, t>> \in Said["provider"] /\ <<other, t>> \in Said["provider"] => other = type
  /\ pc["proc"] = "adapter" => \A type \in AnswerTypes : <<type, job>> \notin Said["provider"]
  /\ \A t \in Payloads : result[t] # "none" => pc[t] = "done"

\* No frame says anything of a request.
NoNews(out) == \A type \in AppTypes, t \in Payloads : <<type, t>> \notin Spoken(out)

\* At most a turn of a node of P, without news.
Silent(P) ==
  \/ UNCHANGED <<sent, delivered>>
  \/ \E p \in P, take \in BOOLEAN : \E out : Turned(p, take, out) /\ NoNews(out)

\* Calls that are over stay so, and the adapter gets no other request.
TasksKept ==
  /\ \A t \in Payloads : pc[t] = "done" => pc'[t] = "done"
  /\ pc'["proc"] = "adapter" => pc["proc"] = "adapter" /\ job' = job

\* What the steps of a session do to the calls: nothing but that the provider may take
\* a request on while it closes; a call ends, or starts; a request reaches the adapter,
\* or its answer leaves.
Rests == Silent(Peers) /\ TasksKept /\ UNCHANGED result

ResultOf(type) == IF type = "RESPONSE" THEN "response" ELSE "error"

Ends(t) ==
  /\ Silent({"buyer"}) /\ TasksKept
  /\ pc[t] # "done" /\ pc'[t] = "done"
  /\ \/ result' = [result EXCEPT ![t] = "raised"]
     \/ \E type \in AnswerTypes : /\ <<type, t>> \in Said["provider"]
                                  /\ result' = [result EXCEPT ![t] = ResultOf(type)]

Starts(t) ==
  /\ \E out : /\ Turned("buyer", FALSE, out)
              /\ Spoken(out) = IF open["buyer"] THEN {<<"REQUEST", t>>} ELSE {}
  /\ TasksKept
  /\ pc[t] \in {"idle", "slot"}
  /\ \/ result' = result /\ open["buyer"]
     \/ result' = [result EXCEPT ![t] = "raised"] /\ pc'[t] = "done"

Takes ==
  /\ \E out : Turned("provider", TRUE, out) /\ NoNews(out)
  /\ Taken("provider", TRUE) /\ job' \in Payloads
  /\ Message(Incoming("provider")) = <<"REQUEST", job'>>
  /\ \A t \in Payloads : pc'[t] = pc[t]
  /\ UNCHANGED result

Replies ==
  /\ \E type \in AnswerTypes : \E out :
       /\ Turned("provider", FALSE, out)
       /\ Spoken(out) = IF open["provider"] THEN {<<type, job>>} ELSE {}
  /\ pc["proc"] = "adapter" /\ pc'["proc"] # "adapter"
  /\ \A t \in Payloads : pc'[t] = pc[t]
  /\ UNCHANGED result

\* Every step of the session is one of these.
LEMMA CallShape ==
  ASSUME SessInv, [Next]_vars
  PROVE  Rests \/ Takes \/ Replies \/ \E t \in Payloads : Ends(t) \/ Starts(t)
<1>t. /\ ChannelInv /\ AskInv /\ pc \in [Actors -> Awaits] /\ Places
      /\ result \in [Payloads -> {"none", "raised", "response", "error"}]
  BY DEF SessInv, SessionTypeOK, Awaits
<1>h. /\ \A k \in Closers : Home(k) \in Peers
      /\ \A p \in Peers : Hb[p] \in Closers /\ Home(Hb[p]) = p
      /\ "buyer" \in Peers /\ "provider" \in Peers /\ {"closer", "proc"} \subseteq Closers
      /\ Home("closer") = "buyer" /\ Home("proc") = "provider"
      /\ Actors = Payloads \cup Closers /\ Payloads \cap Closers = {}
      /\ Other("buyer") = "provider" /\ Other("provider") = "buyer"
  BY TasksDiffer DEF Other
<1>a. /\ AppTypes = {"REQUEST"} \cup AnswerTypes
      /\ \A type \in AppTypes, t \in Payloads : <<type, t>> \notin Acks /\ <<type, t>> \notin {}
      /\ \A type \in AppTypes, t \in Payloads :
           <<type, t>> \notin {CloseMessage} /\ <<type, t>> \notin {<<"HEARTBEAT", Empty>>}
  BY DEF AppTypes, AnswerTypes, Acks, CloseMessage
<1> DEFINE SameRequests == /\ \A t \in Payloads : pc'[t] = pc[t]
                           /\ pc'["proc"] = "adapter" => pc["proc"] = "adapter"
<1>r. ASSUME NEW p \in Peers, Reads(p) PROVE Turned(p, TRUE, ReadOut(p)) /\ NoNews(ReadOut(p))
  BY <1>r, <1>t, <1>a, ReadsIsTurned DEF NoNews
<1>k. ASSUME NEW k \in Closers,
             \/ UNCHANGED pc \/ BeginClose(k)
             \/ \E at \in Awaits \ {"adapter"} : pc' = [pc EXCEPT ![k] = at]
      PROVE  SameRequests
  <2>1. CASE BeginClose(k)
    <3>1. /\ \A a \in Actors \ {k, Hb[Home(k)]} : pc'[a] = pc[a]
          /\ pc'[k] \in {"done", "stopHb", "ackwait", "wsClose"}
          /\ k # Hb[Home(k)] => pc'[Hb[Home(k)]] \in {pc[Hb[Home(k)]], "wsClose", "done"}
      BY <1>t, <2>1, BeginCloseMoves DEF Cancelled
    <3> QED
      BY <1>h, <3>1
  <2>2. CASE UNCHANGED pc \/ \E at \in Awaits \ {"adapter"} : pc' = [pc EXCEPT ![k] = at]
    BY <1>h, <1>t, <2>2
  <2> QED
    BY <1>k, <2>1, <2>2
<1>s. ASSUME SameRequests, pc'["proc"] = "adapter" => job' = job PROVE TasksKept
  BY <1>s DEF TasksKept
<1> HIDE DEF SameRequests
<1>c. ASSUME NEW k \in Closers, NEW take \in BOOLEAN, Exchange(Home(k), take, CloseOut(k)), BeginClose(k),
             UNCHANGED result, pc'["proc"] = "adapter" => job' = job
      PROVE  Rests
  <2>1. Turned(Home(k), take, CloseOut(k)) /\ NoNews(CloseOut(k))
    BY <1>c, <1>a, <1>t, CloseIsTurned DEF NoNews
  <2>2. SameRequests
    BY <1>c, <1>k
  <2> QED
    BY <1>c, <1>h, <1>s, <2>1, <2>2 DEF Rests, Silent
<1>u. ASSUME UNCHANGED <<sent, delivered, result, job>>, SameRequests PROVE Rests
  BY <1>u, <1>s DEF Rests, Silent
<1>1. ASSUME NEW t \in Payloads, WaitForSlot(t) PROVE Rests
  <2>1. UNCHANGED <<sent, delivered, result, job>> /\ pc[t] = "idle" /\ pc' = [pc EXCEPT ![t] = "slot"]
    BY <1>1 DEF WaitForSlot, chanVars
  <2>2. TasksKept
    BY <1>h, <1>t, <2>1 DEF TasksKept
  <2> QED
    BY <2>1, <2>2 DEF Rests, Silent
<1>2. ASSUME NEW t \in Payloads, RequestLost(t) PROVE Ends(t)
  <2>1. /\ UNCHANGED <<sent, delivered, job>> /\ pc[t] = "recv"
        /\ pc' = [pc EXCEPT ![t] = "done"] /\ result' = [result EXCEPT ![t] = "raised"]
    BY <1>2 DEF RequestLost, FinishRequest, chanVars
  <2>2. TasksKept /\ pc'[t] = "done"
    BY <1>h, <1>t, <2>1 DEF TasksKept
  <2> QED
    BY <2>1, <2>2 DEF Ends, Silent
<1>3. ASSUME NEW t \in Payloads, SendRequest(t) PROVE Starts(t)
  <2>1. /\ Exchange("buyer", FALSE, SendOut("buyer", "REQUEST", t)) /\ UNCHANGED job
        /\ pc[t] \in {"idle", "slot"}
        /\ \/ pc' = [pc EXCEPT ![t] = "recv"] /\ result' = result /\ open["buyer"]
           \/ pc' = [pc EXCEPT ![t] = "done"] /\ result' = [result EXCEPT ![t] = "raised"]
    BY <1>3 DEF SendRequest, SendOut
  <2>2. /\ Turned("buyer", FALSE, SendOut("buyer", "REQUEST", t))
        /\ Spoken(SendOut("buyer", "REQUEST", t)) = IF open["buyer"] THEN {<<"REQUEST", t>>} ELSE {}
    <3>1. "REQUEST" \in AppTypes
      BY <1>a
    <3>2. Exchange("buyer", FALSE, SendOut("buyer", "REQUEST", t))
      BY <2>1
    <3> QED
      BY <1>h, <1>t, <3>1, <3>2, SendIsTurned
  <2>3. TasksKept /\ pc'[t] \in {"recv", "done"} /\ (pc' = [pc EXCEPT ![t] = "done"] => pc'[t] = "done")
    BY <1>h, <1>t, <2>1 DEF TasksKept
  <2> QED
    BY <2>1, <2>2, <2>3 DEF Starts
<1>4. ASSUME NEW t \in Payloads, RequestReads(t) PROVE Rests \/ Ends(t)
  <2>1. Reads("buyer") /\ UNCHANGED job /\ wire["provider"] # << >> /\ pc[t] = "recv"
    BY <1>4 DEF RequestReads
  <2>2. Turned("buyer", TRUE, ReadOut("buyer")) /\ NoNews(ReadOut("buyer"))
    BY <1>h, <1>r, <2>1
  <2>3. \/ UNCHANGED <<pc, result>>
        \/ pc' = [pc EXCEPT ![t] = "done"] /\ result' = [result EXCEPT ![t] = "raised"]
        \/ \E type \in AnswerTypes :
             /\ pc' = [pc EXCEPT ![t] = "done"] /\ result' = [result EXCEPT ![t] = ResultOf(type)]
             /\ RecvReturns("buyer", {type}) /\ Incoming("buyer").payload = t
    BY <1>4 DEF RequestReads, FinishRequest, AnswerTypes, ResultOf
  <2>4. CASE UNCHANGED <<pc, result>>
    <3>1. TasksKept
      BY <2>1, <2>4 DEF TasksKept
    <3> QED
      BY <1>h, <2>2, <2>4, <3>1 DEF Rests, Silent
  <2>5. ASSUME pc' = [pc EXCEPT ![t] = "done"]
        PROVE  Silent({"buyer"}) /\ TasksKept /\ pc[t] # "done" /\ pc'[t] = "done"
    <3>1. Silent({"buyer"})
      BY <2>2 DEF Silent
    <3>2. TasksKept /\ pc[t] # "done" /\ pc'[t] = "done"
      BY <1>h, <1>t, <2>1, <2>5 DEF TasksKept
    <3> QED
      BY <3>1, <3>2
  <2>6. CASE pc' = [pc EXCEPT ![t] = "done"] /\ result' = [result EXCEPT ![t] = "raised"]
    BY <2>5, <2>6 DEF Ends
  <2>7. ASSUME NEW type \in AnswerTypes,
               pc' = [pc EXCEPT ![t] = "done"], result' = [result EXCEPT ![t] = ResultOf(type)],
               RecvReturns("buyer", {type}), Incoming("buyer").payload = t
        PROVE  Ends(t)
    <3>1. <<type, t>> \in Said'["provider"]
      BY <1>t, <2>1, <2>7, ChannelStep, AnswerIsSaid
    <3>2. <<type, t>> \in Said["provider"]
      BY <1>h, <2>2, <3>1, TurnedGrows
    <3> QED
      BY <2>5, <2>7, <3>2 DEF Ends
  <2> QED
    BY <2>3, <2>4, <2>6, <2>7
<1>5. CASE CloseSession
  BY <1>5, <1>c, <1>h DEF CloseSession
<1>6. CASE ProcessReads
  <2>1. CASE /\ Exchange("provider", TRUE, CloseOut("proc")) /\ BeginClose("proc") /\ UNCHANGED <<job, result>>
    BY <1>c, <1>h, <2>1
  <2>2. ASSUME Reads("provider"), UNCHANGED <<pc, result, job>> PROVE Rests
    <3>1. Turned("provider", TRUE, ReadOut("provider")) /\ NoNews(ReadOut("provider"))
      BY <1>h, <1>r, <2>2
    <3>2. TasksKept
      BY <2>2 DEF TasksKept
    <3> QED
      BY <1>h, <2>2, <3>1, <3>2 DEF Rests, Silent
  <2>3. ASSUME wire["buyer"] # << >>, RecvReturns("provider", {"REQUEST"}), Reads("provider"),
               job' = Incoming("provider").payload, pc' = [pc EXCEPT !["proc"] = "adapter"],
               UNCHANGED result
        PROVE  Takes
    <3>1. Turned("provider", TRUE, ReadOut("provider")) /\ NoNews(ReadOut("provider"))
      BY <1>h, <1>r, <2>3
    <3>2. Incoming("provider") \in Frames /\ Taken("provider", TRUE) /\ Incoming("provider").type = "REQUEST"
      BY <1>h, <1>t, <2>3, IncomingAccepted DEF RecvReturns
    <3>3. job' \in Payloads
      BY <2>3, <3>2 DEF Frames, ControlTypes
    <3>4. Message(Incoming("provider")) = <<"REQUEST", job'>>
      BY <2>3, <3>2 DEF Message
    <3>5. \A t \in Payloads : pc'[t] = pc[t]
      BY <1>h, <1>t, <2>3
    <3> QED
      BY <2>3, <3>1, <3>2, <3>3, <3>4, <3>5 DEF Takes
  <2> QED
    BY <1>6, <2>1, <2>2, <2>3 DEF ProcessReads
<1>7. CASE AdapterReplies
  <2>0. pc["proc"] = "adapter" /\ job \in Payloads /\ UNCHANGED result
    BY <1>7, <1>t DEF AdapterReplies, AskInv
  <2>1. PICK type \in AnswerTypes : Exchange("provider", FALSE, SendOut("provider", type, job))
    BY <1>7 DEF AdapterReplies, SendOut, AnswerTypes
  <2>2. /\ Turned("provider", FALSE, SendOut("provider", type, job))
        /\ Spoken(SendOut("provider", type, job)) = IF open["provider"] THEN {<<type, job>>} ELSE {}
    <3>1. type \in AppTypes
      BY <1>a
    <3> QED
      BY <1>h, <1>t, <2>0, <2>1, <3>1, SendIsTurned
  <2>3. BeginClose("proc") \/ pc' = [pc EXCEPT !["proc"] = "recv"]
    BY <1>7 DEF AdapterReplies
  <2>4. SameRequests
    BY <1>h, <1>k, <2>3 DEF Awaits
  <2>5. pc'["proc"] # "adapter"
    <3>1. "proc" \in Actors
      BY <1>h
    <3>2. BeginClose("proc") => pc'["proc"] # "adapter"
      BY <1>h, <1>t, BeginCloseMoves
    <3> QED
      BY <1>t, <2>3, <3>1, <3>2
  <2> QED
    BY <2>0, <2>2, <2>4, <2>5 DEF Replies, SameRequests
<1>8. ASSUME ProcessEnds PROVE Rests
  <2>1. pc'["proc"] # "adapter"
    BY <1>8, <1>h, <1>t, BeginCloseMoves DEF ProcessEnds
  <2> QED
    BY <1>8, <1>c, <1>h, <2>1 DEF ProcessEnds
<1>9. ASSUME NEW k \in Closers, HeartbeatStopped(k) PROVE Rests
  <2>1. UNCHANGED <<result, job>> /\ \E at \in {"ackwait", "wsClose"} : pc' = [pc EXCEPT ![k] = at]
    BY <1>9 DEF HeartbeatStopped, AwaitAck
  <2>2. Turned(Home(k), FALSE, CloseFrame(Home(k))) /\ NoNews(CloseFrame(Home(k)))
    BY <1>9, <1>a, <1>t, StopIsTurned DEF HeartbeatStopped, NoNews
  <2>3. SameRequests
    BY <1>k, <2>1 DEF Awaits
  <2> QED
    BY <1>h, <1>s, <2>1, <2>2, <2>3 DEF Rests, Silent
<1>10. ASSUME NEW k \in Closers, CloseReads(k) PROVE Rests
  <2>1. /\ Reads(Home(k)) /\ UNCHANGED <<result, job>>
        /\ UNCHANGED pc \/ pc' = [pc EXCEPT ![k] = "wsClose"]
    BY <1>10 DEF CloseReads
  <2>2. Turned(Home(k), TRUE, ReadOut(Home(k))) /\ NoNews(ReadOut(Home(k)))
    BY <1>h, <1>r, <2>1
  <2>3. SameRequests
    BY <1>k, <2>1 DEF Awaits
  <2> QED
    BY <1>h, <1>s, <2>1, <2>2, <2>3 DEF Rests, Silent
<1>11. ASSUME NEW k \in Closers, CloseGivesUp(k) \/ SocketClosed(k) PROVE Rests
  <2>1. /\ UNCHANGED <<sent, delivered, result, job>>
        /\ \E at \in {"wsClose", "done"} : pc' = [pc EXCEPT ![k] = at]
    BY <1>11 DEF CloseGivesUp, SocketClosed, chanVars
  <2>2. SameRequests
    BY <1>k, <2>1 DEF Awaits
  <2> QED
    BY <1>u, <2>1, <2>2
<1>12. ASSUME NEW p \in Peers, HeartbeatWakes(p) PROVE Rests
  <2>1. /\ UNCHANGED <<result, job>>
        /\ UNCHANGED pc \/ \E at \in {"sleep5", "done"} : pc' = [pc EXCEPT ![Hb[p]] = at]
        /\ UNCHANGED chanVars \/ Exchange(p, FALSE, SendOut(p, "HEARTBEAT", Empty))
    BY <1>12 DEF HeartbeatWakes, SendOut
  <2>2. SameRequests
    BY <1>h, <1>k, <2>1 DEF Awaits
  <2>3. CASE UNCHANGED chanVars
    BY <1>u, <2>1, <2>2, <2>3 DEF chanVars
  <2>4. CASE Exchange(p, FALSE, SendOut(p, "HEARTBEAT", Empty))
    <3>1. "HEARTBEAT" \in ControlTypes
      BY DEF ControlTypes
    <3>2. /\ Turned(p, FALSE, SendOut(p, "HEARTBEAT", Empty))
          /\ Spoken(SendOut(p, "HEARTBEAT", Empty)) = IF open[p] THEN {<<"HEARTBEAT", Empty>>} ELSE {}
      BY <1>t, <2>4, <3>1, SendIsTurned
    <3>3. NoNews(SendOut(p, "HEARTBEAT", Empty))
      BY <1>a, <3>2 DEF NoNews
    <3> QED
      BY <1>s, <2>1, <2>2, <3>2, <3>3 DEF Rests, Silent
  <2> QED
    BY <2>1, <2>3, <2>4
<1>13. ASSUME NEW p \in Peers, HeartbeatChecks(p) PROVE Rests
  <2>0. UNCHANGED <<result, job>>
    BY <1>13 DEF HeartbeatChecks
  <2>1. CASE UNCHANGED chanVars /\ \E at \in {"sleep30", "done"} : pc' = [pc EXCEPT ![Hb[p]] = at]
    <3>1. SameRequests
      BY <1>h, <1>k, <2>1 DEF Awaits
    <3> QED
      BY <1>u, <2>0, <2>1, <3>1 DEF chanVars
  <2>2. CASE Exchange(p, FALSE, CloseOut(Hb[p])) /\ BeginClose(Hb[p])
    BY <1>c, <1>h, <2>0, <2>2
  <2> QED
    BY <1>13, <2>1, <2>2 DEF HeartbeatChecks
<1>14. ASSUME NEW p \in Peers, RelayHangsUp(p) \/ LinkBreaks(p) \/ RelayMisbehaves(p) PROVE Rests
  <2>1. UNCHANGED <<sent, delivered, pc, result, job>>
    BY <1>14 DEF RelayHangsUp, LinkBreaks, RelayMisbehaves, RelayDrops, RelayInserts, sessVars
  <2> QED
    BY <1>u, <2>1 DEF SameRequests
<1>15. CASE UNCHANGED vars
  BY <1>15, <1>u DEF SameRequests, vars, sessVars, chanVars
<1> QED
  BY <1>1, <1>2, <1>3, <1>4, <1>5, <1>6, <1>7, <1>8, <1>9, <1>10, <1>11, <1>12, <1>13, <1>14, <1>15
     DEF Next, ProcessLost, StopProvider

\* What is said of requests, and heard of them by the provider, in a step without news.
LEMMA SilentKeeps ==
  ASSUME NEW P \in SUBSET Peers, Silent(P)
  PROVE  /\ \A q \in Peers, type \in AppTypes, t \in Payloads :
              /\ <<type, t>> \in Said'[q] <=> <<type, t>> \in Said[q]
              /\ <<type, t>> \in Repeated'[q] => <<type, t>> \in Repeated[q]
         /\ "provider" \notin P => Heard'["provider"] = Heard["provider"]
         /\ \E m : Heard'["provider"] \in {Heard["provider"], Heard["provider"] \cup {m}}
<1>h. Peers = {"buyer", "provider"} /\ Other("buyer") = "provider" /\ Other("provider") = "buyer"
  BY DEF Peers, Other
<1>1. CASE UNCHANGED <<sent, delivered>>
  <2>1. Said' = Said /\ Repeated' = Repeated /\ Heard' = Heard
    BY <1>1 DEF Said, Repeated, Heard
  <2> QED
    BY <2>1
<1>2. ASSUME NEW p \in P, NEW take, NEW out, Turned(p, take, out), NoNews(out)
      PROVE  /\ \A q \in Peers, type \in AppTypes, t \in Payloads :
                  /\ <<type, t>> \in Said'[q] <=> <<type, t>> \in Said[q]
                  /\ <<type, t>> \in Repeated'[q] => <<type, t>> \in Repeated[q]
             /\ "provider" \notin P => Heard'["provider"] = Heard["provider"]
             /\ \E m : Heard'["provider"] \in {Heard["provider"], Heard["provider"] \cup {m}}
  <2>1. /\ Said'[p] = Said[p] \cup Spoken(out) /\ Said'[Other(p)] = Said[Other(p)]
        /\ Repeated'[Other(p)] = Repeated[Other(p)]
        /\ Repeated'[p] \subseteq Repeated[p] \cup (Said[p] \cap Spoken(out))
    BY <1>2, TurnedGrows
  <2>2. \A q \in Peers, type \in AppTypes, t \in Payloads :
          /\ <<type, t>> \in Said'[q] <=> <<type, t>> \in Said[q]
          /\ <<type, t>> \in Repeated'[q] => <<type, t>> \in Repeated[q]
    BY <1>h, <1>2, <2>1 DEF NoNews
  <2>3. DOMAIN Heard = Peers
    BY DEF Heard
  <2>4. Heard' = Heard \/ \E m : Heard' = [Heard EXCEPT ![p] = @ \cup {m}]
    BY <1>2 DEF Turned, TurnSays
  <2>5. /\ p # "provider" => Heard'["provider"] = Heard["provider"]
        /\ \E m : Heard'["provider"] \in {Heard["provider"], Heard["provider"] \cup {m}}
    BY <1>h, <2>3, <2>4
  <2> QED
    BY <2>2, <2>5
<1> QED
  BY <1>1, <1>2 DEF Silent

\* A request that the provider takes is one that it has not heard before.
LEMMA TakenIsNew ==
  ASSUME ChannelInv, ChannelInv', AskInv', NEW out, Turned("provider", TRUE, out), Taken("provider", TRUE),
         NEW t \in Payloads, Message(Incoming("provider")) = <<"REQUEST", t>>
  PROVE  <<"REQUEST", t>> \notin Heard["provider"]
<1> DEFINE d == delivered["provider"]
           e == delivered'["provider"]
           f == Incoming("provider")
<1>h. "provider" \in Peers /\ "buyer" \in Peers /\ Other("provider") = "buyer"
  BY DEF Peers, Other
<1>1. \A i, j \in 1..Len(e) : Message(e[i]) = <<"REQUEST", t>> /\ Message(e[j]) = <<"REQUEST", t>> => i = j
  <2>1. Len(sent'["buyer"]) \in Nat /\ Len(e) \in Nat
    BY <1>h, LenProperties DEF ChannelInv, ChannelTypeOK
  <2>2. \A i \in 1..Len(e) : i \in 1..Len(sent'["buyer"]) /\ e[i] = sent'["buyer"][i]
    BY <1>h, <2>1 DEF ChannelInv, DeliveredInOrder
  <2>3. <<"REQUEST", t>> \notin Twice(sent'["buyer"])
    BY <1>h DEF AskInv, Repeated
  <2> HIDE DEF e
  <2> QED
    BY <2>2, <2>3 DEF Twice, Spoken
<1>2. Len(d) \in Nat /\ Len(e) = Len(d) + 1 /\ e[Len(d) + 1] = f /\ \A i \in 1..Len(d) : e[i] = d[i]
  <2>1. d \in Seq(Frames) /\ DOMAIN delivered = Peers
    BY <1>h DEF ChannelInv, ChannelTypeOK
  <2>2. delivered' = [delivered EXCEPT !["provider"] = Append(@, f)]
    BY <1>h DEF Turned, Turn, Write, Incoming
  <2>3. e = Append(d, f)
    BY <1>h, <2>1, <2>2
  <2> HIDE DEF d, e, f
  <2>4. d \in Seq(Frames \cup {f})
    BY <2>1
  <2> QED
    BY <2>3, <2>4, AppendProperties
<1> HIDE DEF d, e, f
<1>3. SUFFICES ASSUME NEW i \in 1..Len(d), Message(d[i]) = <<"REQUEST", t>> PROVE FALSE
  BY <1>h DEF Heard, Spoken, d
<1>4. i \in 1..Len(e) /\ Len(d) + 1 \in 1..Len(e) /\ i # Len(d) + 1 /\ e[i] = d[i]
  BY <1>2, <1>3
<1> QED
  BY <1>1, <1>2, <1>3, <1>4 DEF f

\* Answers stay one to a request, and results are set at the end.
LEMMA AnswerStep ==
  ASSUME SessInv, AnswerInv, [Next]_vars
  PROVE  AnswerInv'
<1>t. /\ ChannelInv /\ AskInv /\ ChannelInv' /\ AskInv'
      /\ result \in [Payloads -> {"none", "raised", "response", "error"}]
  BY ChannelStep, AskStep DEF SessInv, SessionTypeOK
<1>h. /\ "buyer" \in Peers /\ "provider" \in Peers
      /\ Other("buyer") = "provider" /\ Other("provider") = "buyer"
      /\ {"buyer"} \in SUBSET Peers /\ Peers \in SUBSET Peers /\ AnswerTypes \subseteq AppTypes
  BY DEF Peers, Other, AnswerTypes, AppTypes
<1>p. SessInv'
  BY SessStep
<1>k. ASSUME NEW P \in SUBSET Peers, Silent(P), TasksKept,
             \A t \in Payloads : result'[t] # "none" => pc'[t] = "done"
      PROVE  AnswerInv'
  <2>1. \A type \in AnswerTypes, t \in Payloads :
          /\ <<type, t>> \in Said'["provider"] <=> <<type, t>> \in Said["provider"]
          /\ <<type, t>> \in Repeated'["provider"] => <<type, t>> \in Repeated["provider"]
    BY <1>h, <1>k, SilentKeeps
  <2>2. pc'["proc"] = "adapter" => job' \in Payloads
    BY <1>t DEF AskInv
  <2> QED
    BY <1>k, <2>1, <2>2 DEF AnswerInv, TasksKept
<1>1. CASE Rests
  <2>1. \A t \in Payloads : result'[t] # "none" => pc'[t] = "done"
    BY <1>1 DEF Rests, TasksKept, AnswerInv
  <2> QED
    BY <1>1, <1>h, <1>k, <2>1 DEF Rests
<1>2. ASSUME NEW t \in Payloads, Ends(t) PROVE AnswerInv'
  <2>1. \A u \in Payloads \ {t} : result'[u] = result[u]
    BY <1>2, <1>t DEF Ends
  <2>2. \A u \in Payloads : result'[u] # "none" => pc'[u] = "done"
    BY <1>2, <2>1 DEF Ends, TasksKept, AnswerInv
  <2> QED
    BY <1>2, <1>h, <1>k, <2>2 DEF Ends
<1>3. ASSUME NEW t \in Payloads, Starts(t) PROVE AnswerInv'
  <2>1. PICK out : Turned("buyer", FALSE, out)
    BY <1>3 DEF Starts
  <2>2. Said'["provider"] = Said["provider"] /\ Repeated'["provider"] = Repeated["provider"]
    BY <1>h, <2>1, TurnedGrows
  <2>3. \A u \in Payloads : result'[u] # "none" => pc'[u] = "done"
    BY <1>3, <1>t DEF Starts, TasksKept, AnswerInv
  <2> QED
    BY <1>3, <2>2, <2>3 DEF AnswerInv, Starts, TasksKept
<1>4. CASE Takes
  <2>1. PICK out : Turned("provider", TRUE, out) /\ NoNews(out)
    BY <1>4 DEF Takes
  <2>2. Silent(Peers)
    BY <1>h, <2>1 DEF Silent
  <2>3. \A type \in AnswerTypes, t \in Payloads :
          /\ <<type, t>> \in Said'["provider"] <=> <<type, t>> \in Said["provider"]
          /\ <<type, t>> \in Repeated'["provider"] => <<type, t>> \in Repeated["provider"]
    BY <1>h, <2>2, SilentKeeps
  <2>4. job' \in Payloads /\ <<"REQUEST", job'>> \notin Heard["provider"]
    BY <1>4, <1>p, <1>t, TakenIsNew DEF Takes
  <2>5. \A type \in AnswerTypes : <<type, job'>> \notin Said'["provider"]
    BY <1>t, <2>3, <2>4 DEF AskInv, AnswerTypes
  <2>6. \A t \in Payloads : result'[t] # "none" => pc'[t] = "done"
    BY <1>4 DEF Takes, AnswerInv
  <2> QED
    BY <2>3, <2>5, <2>6 DEF AnswerInv
<1>5. CASE Replies
  <2>0. pc["proc"] = "adapter" /\ job \in Payloads /\ pc'["proc"] # "adapter"
    BY <1>5, <1>t DEF Replies, AskInv
  <2>1. PICK type \in AnswerTypes : \E out :
          Turned("provider", FALSE, out) /\ Spoken(out) \subseteq {<<type, job>>}
    BY <1>5 DEF Replies
  <2>2. PICK out : Turned("provider", FALSE, out) /\ Spoken(out) \subseteq {<<type, job>>}
    BY <2>1
  <2>3. /\ Said'["provider"] = Said["provider"] \cup Spoken(out)
        /\ Repeated'["provider"] \subseteq Repeated["provider"] \cup (Said["provider"] \cap Spoken(out))
    BY <1>h, <2>2, TurnedGrows
  <2>4. \A other \in AnswerTypes : <<other, job>> \notin Said["provider"]
    BY <2>0 DEF AnswerInv
  <2>5. \A other \in AnswerTypes, t \in Payloads :
          /\ <<other, t>> \notin Repeated'["provider"]
          /\ <<other, t>> \in Said'["provider"] =>
               <<other, t>> \in Said["provider"] \/ (other = type /\ t = job)
    <3>1. \A other, t : <<other, t>> = <<type, job>> => other = type /\ t = job
      OBVIOUS
    <3>2. \A other \in AnswerTypes, t \in Payloads : <<other, t>> \notin Repeated["provider"]
      BY DEF AnswerInv
    <3> QED
      BY <2>2, <2>3, <2>4, <3>1, <3>2
  <2>6. \A t \in Payloads : result'[t] # "none" => pc'[t] = "done"
    BY <1>5 DEF Replies, AnswerInv
  <2>7. ASSUME NEW t \in Payloads, NEW a \in AnswerTypes, NEW b \in AnswerTypes,
               <<a, t>> \in Said'["provider"], <<b, t>> \in Said'["provider"]
        PROVE  b = a
    BY <2>4, <2>5, <2>7 DEF AnswerInv
  <2> QED
    BY <2>0, <2>5, <2>6, <2>7 DEF AnswerInv
<1> QED
  BY <1>1, <1>2, <1>3, <1>4, <1>5, CallShape

\* The mapping: how often a request was sent, taken on and given each answer.
Asked == [t \in Payloads |-> CountOf(sent["buyer"], "REQUEST", t)]
TakenOn == [t \in Payloads |-> CountOf(delivered["provider"], "REQUEST", t)]
Given ==
  [t \in Payloads |->
     [a \in {"response", "error"} |->
        CountOf(sent["provider"], IF a = "response" THEN "RESPONSE" ELSE "ERROR", t)]]

\* Each is once or not at all.
Characterised ==
  /\ Asked = [t \in Payloads |-> IF <<"REQUEST", t>> \in Said["buyer"] THEN 1 ELSE 0]
  /\ TakenOn = [t \in Payloads |-> IF <<"REQUEST", t>> \in Heard["provider"] THEN 1 ELSE 0]
  /\ Given = [t \in Payloads |->
                [a \in {"response", "error"} |->
                   IF <<IF a = "response" THEN "RESPONSE" ELSE "ERROR", t>> \in Said["provider"]
                     THEN 1 ELSE 0]]

\* The counts of the mapping, by what was said and heard.
LEMMA CallsAreCounted == SessInv /\ AnswerInv => Characterised
<1> SUFFICES ASSUME SessInv, AnswerInv PROVE Characterised
  OBVIOUS
<1>h. "provider" \in Peers /\ "buyer" \in Peers
  BY DEF Peers
<1>1. /\ Len(sent["buyer"]) \in Nat /\ Len(sent["provider"]) \in Nat
  BY <1>h, LenProperties DEF SessInv, ChannelInv, ChannelTypeOK
<1>2. /\ Said["buyer"] = Spoken(sent["buyer"]) /\ Said["provider"] = Spoken(sent["provider"])
      /\ Repeated["buyer"] = Twice(sent["buyer"]) /\ Repeated["provider"] = Twice(sent["provider"])
  BY <1>h DEF Said, Repeated
<1>3. ASSUME NEW t \in Payloads
      PROVE  CountOf(sent["buyer"], "REQUEST", t) = IF <<"REQUEST", t>> \in Said["buyer"] THEN 1 ELSE 0
  <2>1. <<"REQUEST", t>> \notin Twice(sent["buyer"])
    BY <1>2 DEF SessInv, AskInv
  <2> QED
    BY <1>1, <1>2, <2>1, Counted
<1>4. ASSUME NEW t \in Payloads, NEW type \in AnswerTypes
      PROVE  CountOf(sent["provider"], type, t) = IF <<type, t>> \in Said["provider"] THEN 1 ELSE 0
  <2>1. <<type, t>> \notin Twice(sent["provider"])
    BY <1>2 DEF AnswerInv
  <2> QED
    BY <1>1, <1>2, <2>1, Counted
<1>5. Asked = [t \in Payloads |-> IF <<"REQUEST", t>> \in Said["buyer"] THEN 1 ELSE 0]
  BY <1>3 DEF Asked
<1>6. TakenOn = [t \in Payloads |-> IF <<"REQUEST", t>> \in Heard["provider"] THEN 1 ELSE 0]
  BY HandledOnce DEF TakenOn
<1>7. Given = [t \in Payloads |->
                [a \in {"response", "error"} |->
                   IF <<IF a = "response" THEN "RESPONSE" ELSE "ERROR", t>> \in Said["provider"]
                     THEN 1 ELSE 0]]
  <2>1. \A a \in {"response", "error"} : (IF a = "response" THEN "RESPONSE" ELSE "ERROR") \in AnswerTypes
    BY DEF AnswerTypes
  <2> QED
    BY <1>4, <2>1 DEF Given
<1> QED
  BY <1>5, <1>6, <1>7 DEF Characterised

\* What the provider accepted the consumer has said, after a step.
LEMMA HeardIsSaidNext ==
  ASSUME ChannelInv'
  PROVE  Heard'["provider"] \subseteq Said'["buyer"]
<1> DEFINE d == delivered'["provider"]
           s == sent'["buyer"]
<1>h. "provider" \in Peers /\ "buyer" \in Peers /\ Other("provider") = "buyer"
  BY DEF Peers, Other
<1>1. Len(d) \in Nat /\ Len(s) \in Nat
  BY <1>h, LenProperties DEF ChannelInv, ChannelTypeOK
<1>2. \A i \in 1..Len(d) : i \in 1..Len(s) /\ d[i] = s[i]
  BY <1>1, <1>h DEF ChannelInv, DeliveredInOrder
<1>3. Heard'["provider"] = Spoken(d) /\ Said'["buyer"] = Spoken(s)
  BY <1>h DEF Heard, Said
<1> HIDE DEF d, s
<1> QED
  BY <1>2, <1>3 DEF Spoken

\* A step without news leaves the counts as they are, or the provider takes a request on.
LEMMA SilentMaps ==
  ASSUME SessInv, SessInv', Characterised, Characterised', NEW P \in SUBSET Peers, Silent(P)
  PROVE  /\ Asked' = Asked /\ Given' = Given
         /\ \/ TakenOn' = TakenOn
            \/ /\ "provider" \in P
               /\ \E t \in Payloads : /\ Asked[t] = 1 /\ TakenOn[t] = 0
                                      /\ TakenOn' = [TakenOn EXCEPT ![t] = 1]
<1>h. /\ "provider" \in Peers /\ "buyer" \in Peers /\ Other("provider") = "buyer"
      /\ "REQUEST" \in AppTypes /\ {"RESPONSE", "ERROR"} \subseteq AppTypes
  BY DEF Peers, Other, AppTypes
<1>1. \A q \in Peers, type \in AppTypes, t \in Payloads : <<type, t>> \in Said'[q] <=> <<type, t>> \in Said[q]
  BY SilentKeeps
<1>2. Asked' = Asked
  <2>1. \A t \in Payloads : <<"REQUEST", t>> \in Said'["buyer"] <=> <<"REQUEST", t>> \in Said["buyer"]
    BY <1>h, <1>1
  <2> QED
    BY <2>1 DEF Characterised
<1>3. Given' = Given
  <2> DEFINE TypeOf(a) == IF a = "response" THEN "RESPONSE" ELSE "ERROR"
  <2>1. \A t \in Payloads, a \in {"response", "error"} :
          <<TypeOf(a), t>> \in Said'["provider"] <=> <<TypeOf(a), t>> \in Said["provider"]
    BY <1>h, <1>1
  <2> QED
    BY <2>1 DEF Characterised
<1>4. CASE Heard'["provider"] = Heard["provider"]
  BY <1>2, <1>3, <1>4 DEF Characterised
<1>5. CASE Heard'["provider"] # Heard["provider"]
  <2>1. PICK m : Heard'["provider"] = Heard["provider"] \cup {m}
    BY <1>5, SilentKeeps
  <2>2. "provider" \in P
    BY <1>5, SilentKeeps
  <2>3. CASE \E t \in Payloads : m = <<"REQUEST", t>>
    <3>1. PICK t \in Payloads : m = <<"REQUEST", t>>
      BY <2>3
    <3>2. m \notin Heard["provider"]
      BY <1>5, <2>1
    <3>3. m \in Said["buyer"]
      <4>1. Heard'["provider"] \subseteq Said'["buyer"]
        BY HeardIsSaidNext DEF SessInv
      <4> QED
        BY <1>1, <1>h, <2>1, <3>1, <4>1
    <3>4. Asked[t] = 1 /\ TakenOn[t] = 0
      BY <3>1, <3>2, <3>3 DEF Characterised
    <3>5. \A u \in Payloads : <<"REQUEST", u>> \in Heard'["provider"] <=>
                                <<"REQUEST", u>> \in Heard["provider"] \/ u = t
      BY <2>1, <3>1
    <3>6. TakenOn' = [TakenOn EXCEPT ![t] = 1]
      BY <3>5 DEF Characterised
    <3> QED
      BY <1>2, <1>3, <2>2, <3>4, <3>6
  <2>4. CASE \A t \in Payloads : m # <<"REQUEST", t>>
    <3>1. \A t \in Payloads : <<"REQUEST", t>> \in Heard'["provider"] <=> <<"REQUEST", t>> \in Heard["provider"]
      BY <2>1, <2>4
    <3>2. TakenOn' = TakenOn
      BY <3>1 DEF Characterised
    <3> QED
      BY <1>2, <1>3, <3>2
  <2> QED
    BY <2>3, <2>4
<1> QED
  BY <1>4, <1>5

\* A call ends with an exception, or with the answer that was given to it.
LEMMA EndsMaps ==
  ASSUME SessInv, SessInv', AnswerInv, Characterised, Characterised', NEW t \in Payloads, Ends(t)
  PROVE  Calls!Next
<1>1. UNCHANGED <<Asked, TakenOn, Given>>
  <2>1. {"buyer"} \in SUBSET Peers /\ Silent({"buyer"}) /\ "provider" \notin {"buyer"}
    BY DEF Peers, Ends
  <2> QED
    BY <2>1, SilentMaps
<1>2. result[t] = "none"
  BY DEF Ends, AnswerInv
<1>3. \/ result' = [result EXCEPT ![t] = "raised"]
      \/ \E a \in {"response", "error"} : Given[t][a] = 1 /\ result' = [result EXCEPT ![t] = a]
  <2>1. ASSUME NEW type \in AnswerTypes, <<type, t>> \in Said["provider"]
        PROVE  ResultOf(type) \in {"response", "error"} /\ Given[t][ResultOf(type)] = 1
    BY <2>1 DEF Characterised, ResultOf, AnswerTypes
  <2> QED
    BY <2>1 DEF Ends
<1>4. Calls!Return(t)
  BY <1>1, <1>2, <1>3 DEF Calls!Return, Calls!Raised, Calls!Answers, Asked, TakenOn, Given
<1> QED
  BY <1>4 DEF Calls!Next

\* A call starts by sending its request, or raises without.
LEMMA StartsMaps ==
  ASSUME SessInv, SessInv', AnswerInv, Characterised, Characterised', NEW t \in Payloads, Starts(t)
  PROVE  Calls!Next
<1>h. /\ "provider" \in Peers /\ "buyer" \in Peers /\ Other("buyer") = "provider"
      /\ DOMAIN Heard = Peers
  BY DEF Peers, Other, Heard
<1>1. PICK out : /\ Turned("buyer", FALSE, out)
                 /\ Spoken(out) = IF open["buyer"] THEN {<<"REQUEST", t>>} ELSE {}
  BY DEF Starts
<1>2. Said'["buyer"] = Said["buyer"] \cup Spoken(out) /\ Said'["provider"] = Said["provider"]
  BY <1>h, <1>1, TurnedGrows
<1>3. Heard'["provider"] = Heard["provider"]
  BY <1>h, <1>1 DEF Turned, TurnSays, Taken
<1>4. UNCHANGED <<TakenOn, Given>>
  BY <1>2, <1>3 DEF Characterised
<1>5. result[t] = "none" /\ <<"REQUEST", t>> \notin Said["buyer"]
  BY DEF Starts, AnswerInv, SessInv, AskInv
<1>6. CASE open["buyer"]
  <2>1. \A u \in Payloads : <<"REQUEST", u>> \in Said'["buyer"] <=> <<"REQUEST", u>> \in Said["buyer"] \/ u = t
    BY <1>1, <1>2, <1>6
  <2>2. Asked[t] = 0 /\ Asked' = [Asked EXCEPT ![t] = 1]
    BY <1>5, <2>1 DEF Characterised
  <2>3. result' \in {result, [result EXCEPT ![t] = "raised"]}
    BY DEF Starts
  <2>4. Calls!Ask(t)
    BY <1>4, <1>5, <2>2, <2>3 DEF Calls!Ask, Calls!Raised, Asked, TakenOn, Given
  <2> QED
    BY <2>4 DEF Calls!Next
<1>7. CASE ~open["buyer"]
  <2>1. Asked' = Asked
    BY <1>1, <1>2, <1>7 DEF Characterised
  <2>2. result' = [result EXCEPT ![t] = "raised"]
    BY <1>7 DEF Starts
  <2>3. Calls!Return(t)
    BY <1>4, <1>5, <2>1, <2>2 DEF Calls!Return, Calls!Raised, Asked, TakenOn, Given
  <2> QED
    BY <2>3 DEF Calls!Next
<1> QED
  BY <1>6, <1>7

\* Taking a request on, or closing while one arrives.
LEMMA RestsMaps ==
  ASSUME SessInv, SessInv', Characterised, Characterised', Rests \/ Takes
  PROVE  [Calls!Next]_<<Asked, TakenOn, Given, result>>
<1>1. Silent(Peers) /\ UNCHANGED result
  BY DEF Rests, Takes, Silent, Peers
<1>2. /\ Asked' = Asked /\ Given' = Given
      /\ \/ TakenOn' = TakenOn
         \/ \E t \in Payloads : /\ Asked[t] = 1 /\ TakenOn[t] = 0
                                /\ TakenOn' = [TakenOn EXCEPT ![t] = 1]
  BY <1>1, SilentMaps
<1>3. CASE TakenOn' = TakenOn
  BY <1>1, <1>2, <1>3
<1>4. ASSUME NEW t \in Payloads, Asked[t] = 1, TakenOn[t] = 0, TakenOn' = [TakenOn EXCEPT ![t] = 1]
      PROVE  Calls!Next
  <2>1. Calls!TakeOn(t)
    BY <1>1, <1>2, <1>4 DEF Calls!TakeOn, Asked, TakenOn, Given
  <2> QED
    BY <2>1 DEF Calls!Next
<1> QED
  BY <1>2, <1>3, <1>4

\* The answer to a request, the first, leaves the provider, unless its socket is closed.
LEMMA RepliesMaps ==
  ASSUME SessInv, SessInv', AnswerInv, Characterised, Characterised', Replies
  PROVE  [Calls!Next]_<<Asked, TakenOn, Given, result>>
<1>h. /\ "provider" \in Peers /\ "buyer" \in Peers /\ Other("provider") = "buyer"
      /\ DOMAIN Heard = Peers
  BY DEF Peers, Other, Heard
<1>0. job \in Payloads /\ <<"REQUEST", job>> \in Heard["provider"] /\ UNCHANGED result
  BY DEF Replies, SessInv, AskInv
<1>1. PICK type \in AnswerTypes : \E out :
        /\ Turned("provider", FALSE, out)
        /\ Spoken(out) = IF open["provider"] THEN {<<type, job>>} ELSE {}
  BY DEF Replies
<1>2. PICK out : /\ Turned("provider", FALSE, out)
                 /\ Spoken(out) = IF open["provider"] THEN {<<type, job>>} ELSE {}
  BY <1>1
<1>3. Said'["provider"] = Said["provider"] \cup Spoken(out) /\ Said'["buyer"] = Said["buyer"]
  BY <1>h, <1>2, TurnedGrows
<1>4. Heard'["provider"] = Heard["provider"]
  BY <1>h, <1>2 DEF Turned, TurnSays, Taken
<1>5. UNCHANGED <<Asked, TakenOn>>
  BY <1>3, <1>4 DEF Characterised
<1>6. CASE ~open["provider"]
  <2>1. Given' = Given
    BY <1>2, <1>3, <1>6 DEF Characterised
  <2> QED
    BY <1>0, <1>5, <2>1
<1>7. CASE open["provider"]
  <2> DEFINE TypeOf(a) == IF a = "response" THEN "RESPONSE" ELSE "ERROR"
             none == [a \in {"response", "error"} |-> 0]
  <2>1. ResultOf(type) \in {"response", "error"}
    BY DEF ResultOf
  <2>2. \A a \in {"response", "error"} : TypeOf(a) = type <=> a = ResultOf(type)
    BY DEF ResultOf, AnswerTypes
  <2>3. \A t \in Payloads, a \in {"response", "error"} :
          <<TypeOf(a), t>> \in Said'["provider"] <=>
            <<TypeOf(a), t>> \in Said["provider"] \/ (t = job /\ a = ResultOf(type))
    BY <1>2, <1>3, <1>7, <2>2
  <2>4. \A a \in {"response", "error"} : <<TypeOf(a), job>> \notin Said["provider"]
    BY DEF Replies, AnswerInv, AnswerTypes
  <2>5. Given[job] = none
    BY <1>0, <2>4 DEF Characterised
  <2>6. Given' = [Given EXCEPT ![job] = [none EXCEPT ![ResultOf(type)] = 1]]
    <3>1. Given'[job] = [none EXCEPT ![ResultOf(type)] = 1]
      BY <1>0, <2>3, <2>4 DEF Characterised
    <3>2. \A t \in Payloads \ {job} : Given'[t] = Given[t]
      BY <1>0, <2>3 DEF Characterised
    <3>3. /\ DOMAIN Given = Payloads /\ Given = [t \in Payloads |-> Given[t]]
          /\ DOMAIN Given' = Payloads /\ Given' = [t \in Payloads |-> Given'[t]]
      BY DEF Given
    <3> HIDE DEF none
    <3> QED
      BY <1>0, <3>1, <3>2, <3>3
  <2>7. TakenOn[job] = 1
    BY <1>0 DEF Characterised
  <2>8. Calls!Answer(job, ResultOf(type))
    BY <1>0, <1>5, <2>5, <2>6, <2>7 DEF Calls!Answer, Calls!Unanswered, Calls!Answers, Asked, TakenOn, Given
  <2> QED
    BY <1>0, <2>1, <2>8 DEF Calls!Next, Calls!Answers
<1> QED
  BY <1>6, <1>7

\* Nothing is answered at first.
LEMMA AnswerInit == Init => AnswerInv
<1> SUFFICES ASSUME Init PROVE AnswerInv
  OBVIOUS
<1>1. Said["provider"] = {} /\ Repeated["provider"] = {}
  BY SpokenNothing DEF Init, ChannelInit, Said, Repeated, Twice, Peers
<1>2. pc["proc"] # "adapter" /\ \A t \in Payloads : result[t] = "none"
  BY TasksDiffer DEF Init
<1> QED
  BY <1>1, <1>2 DEF AnswerInv

\* Every step is a step of the calls or leaves them alone.
LEMMA CallsStep ==
  SessInv /\ SessInv' /\ AnswerInv /\ Characterised /\ Characterised' /\ [Next]_vars =>
    [Calls!Next]_<<Asked, TakenOn, Given, result>>
BY CallShape, EndsMaps, StartsMaps, RestsMaps, RepliesMaps

\* At first no call is made.
LEMMA CallsInit == Init => Calls!Init
<1> SUFFICES ASSUME Init PROVE Calls!Init
  OBVIOUS
<1>1. Characterised
  BY SessInit, AnswerInit, CallsAreCounted
<1>2. Said["provider"] = {} /\ Said["buyer"] = {} /\ Heard["provider"] = {}
  BY SpokenNothing DEF Init, ChannelInit, Said, Heard, Peers
<1>3. /\ Asked = [t \in Payloads |-> 0] /\ TakenOn = [t \in Payloads |-> 0]
      /\ Given = [t \in Payloads |-> [a \in {"response", "error"} |-> 0]]
  BY <1>1, <1>2 DEF Characterised
<1>4. result = [t \in Payloads |-> "none"]
  BY DEF Init
<1> QED
  BY <1>3, <1>4 DEF Calls!Init, Calls!Unanswered, Calls!Answers, Asked, TakenOn, Given

(***************************************************************************)
(* The session keeps what RemoteCalls promises those who call              *)
(* send_request: for any number of requests, whatever the relay, the       *)
(* heartbeats and the closes do.                                           *)
(***************************************************************************)
THEOREM CallsRefinement == Spec => ImplementsCalls
<1>1. SessInv /\ AnswerInv /\ [Next]_vars => AnswerInv'
  BY AnswerStep
<1>2. Spec => [](SessInv /\ AnswerInv)
  BY <1>1, SessInit, SessStep, AnswerInit, PTL DEF Spec
<1> QED
  BY <1>2, CallsAreCounted, CallsStep, CallsInit, PTL
     DEF Spec, ImplementsCalls, Calls!Spec, Asked, TakenOn, Given
=============================================================================
