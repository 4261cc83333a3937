------------------------- MODULE FrameChannelProofs -------------------------
(***************************************************************************)
(* Proofs about FrameChannel, for every set of payloads and tasks and all  *)
(* bounds: any number of frames and of faults of the relay.                *)
(***************************************************************************)
EXTENDS FrameChannel, TLAPS, SequenceTheorems

\* What a turn may send: nothing, or one frame sealed with the sender's key
\* and next sequence number.
Outgoing(p, out) ==
  \/ out = << >>
  \/ \E f \in Frames : out = <<f>> /\ f.from = p /\ f.seq = sendSeq[p]

\* Frames are sealed by the node that sends them.
SentOwn == \A p \in Peers : \A i \in 1..Len(sent[p]) : sent[p][i].from = p

\* The invariant that holds with and without backpressure.
RecvInv == ChannelTypeOK /\ RecvCounts /\ WireSeen /\ SentOwn /\ AcceptedAreSent

\* Encrypting a message gives a frame a turn may send.
LEMMA EncryptedMessage ==
  ASSUME ChannelTypeOK, NEW p \in Peers, NEW m \in Messages(p)
  PROVE  Outgoing(p, <<Encrypt(p, m[1], m[2])>>) /\ Encrypt(p, m[1], m[2]) \in Frames
<1>1. sendSeq[p] \in Nat
  BY DEF ChannelTypeOK
<1>2. \/ m[1] \in AppTypes /\ m[2] \in Payloads
      \/ m[1] \in ControlTypes /\ m[2] = Empty
  BY DEF Messages, ControlTypes
<1>3. Encrypt(p, m[1], m[2]) \in Frames
  BY <1>1, <1>2 DEF Encrypt, Frames
<1>4. Encrypt(p, m[1], m[2]).from = p /\ Encrypt(p, m[1], m[2]).seq = sendSeq[p]
  BY DEF Encrypt
<1> HIDE DEF Encrypt
<1> QED
  BY <1>3, <1>4 DEF Outgoing

\* So does the acknowledgement of recv_frame.
LEMMA Acknowledgement ==
  ASSUME ChannelTypeOK, NEW p \in Peers, NEW f
  PROVE  /\ Outgoing(p, AckOf(p, f))
         /\ AckOf(p, f) # << >> => AckOf(p, f)[1] \in Frames /\ AckOf(p, f) = <<AckOf(p, f)[1]>>
<1>1. sendSeq[p] \in Nat
  BY DEF ChannelTypeOK
<1>2. \A type \in ControlTypes : Encrypt(p, type, Empty) \in Frames
  BY <1>1 DEF Encrypt, Frames
<1>3. AckOf(p, f) \in {<< >>, <<Encrypt(p, "HEARTBEAT_ACK", Empty)>>, <<Encrypt(p, "CLOSE_ACK", Empty)>>}
  BY DEF AckOf
<1> QED
  BY <1>2, <1>3 DEF Outgoing, Encrypt, ControlTypes

\* Every frame already on a wire, or sealed, stays sealed when more is sent.
SentGrows ==
  \A q \in Peers : /\ Len(sent'[q]) \in Nat
                   /\ Len(sent[q]) <= Len(sent'[q])
                   /\ \A i \in 1..Len(sent[q]) : sent'[q][i] = sent[q][i]

\* The sequences of a turn, element by element.
LEMMA WriteEffect ==
  ASSUME ChannelTypeOK, NEW p \in Peers, NEW take \in BOOLEAN, NEW out,
         Outgoing(p, out), Write(p, take, out)
  PROVE  /\ sent' \in [Peers -> Seq(Frames)]
         /\ wire' \in [Peers -> Seq(Frames \cup {Noise})]
         /\ Len(sent'[p]) = Len(sent[p]) + Len(out)
         /\ SentGrows
         /\ sent'[Other(p)] = sent[Other(p)]
<1> USE DEF Peers
<1>1. out \in Seq(Frames)
  <2>1. CASE out = << >>
    BY <2>1
  <2>2. ASSUME NEW f \in Frames, out = <<f>> PROVE out \in Seq(Frames)
    BY <2>2
  <2> QED
    BY <2>1, <2>2 DEF Outgoing
<1>2. out \in Seq(Frames \cup {Noise})
  BY <1>1
<1>3. sent \in [Peers -> Seq(Frames)] /\ wire \in [Peers -> Seq(Frames \cup {Noise})]
  BY DEF ChannelTypeOK
<1>4. sent' = [sent EXCEPT ![p] = @ \o out]
  BY DEF Write
<1>5. sent[p] \o out \in Seq(Frames) /\ Len(sent[p] \o out) = Len(sent[p]) + Len(out)
      /\ \A i \in 1..Len(sent[p]) : (sent[p] \o out)[i] = sent[p][i]
  BY <1>1, <1>3
<1>6. sent' \in [Peers -> Seq(Frames)]
  BY <1>3, <1>4, <1>5
<1>7. wire' \in [Peers -> Seq(Frames \cup {Noise})]
  <2> SUFFICES ASSUME NEW q \in Peers
               PROVE  wire'[q] \in Seq(Frames \cup {Noise})
    BY DEF Write
  <2>1. CASE q = p
    BY <1>2, <1>3, <2>1 DEF Write
  <2>2. CASE q # p
    <3>1. q = Other(p)
      BY <2>2 DEF Other
    <3> QED
      BY <1>3, <2>2, <3>1 DEF Write
  <2> QED
    BY <2>1, <2>2
<1>8. SentGrows
  <2> SUFFICES ASSUME NEW q \in Peers
               PROVE  /\ Len(sent'[q]) \in Nat
                      /\ Len(sent[q]) <= Len(sent'[q])
                      /\ \A i \in 1..Len(sent[q]) : sent'[q][i] = sent[q][i]
    BY DEF SentGrows
  <2>1. sent[q] \in Seq(Frames) /\ Len(sent[q]) \in Nat /\ Len(out) \in Nat
    BY <1>1, <1>3, LenProperties
  <2>2. CASE q = p
    BY <1>3, <1>4, <1>5, <2>1, <2>2
  <2>3. CASE q # p
    BY <1>3, <1>4, <2>1, <2>3
  <2> QED
    BY <2>2, <2>3
<1>9. Len(sent'[p]) = Len(sent[p]) + Len(out) /\ sent'[Other(p)] = sent[Other(p)]
  BY <1>3, <1>4, <1>5 DEF Other
<1> QED
  BY <1>6, <1>7, <1>8, <1>9

LEMMA SealedStays ==
  ASSUME sent \in [Peers -> Seq(Frames)], SentGrows,
         NEW r \in Peers, NEW j \in 1..Len(sent[r])
  PROVE  j \in 1..Len(sent'[r]) /\ sent'[r][j] = sent[r][j]
<1>1. sent[r] \in Seq(Frames)
  OBVIOUS
<1>2. Len(sent[r]) \in Nat
  BY <1>1, LenProperties
<1>3. Len(sent'[r]) \in Nat /\ Len(sent[r]) <= Len(sent'[r]) /\ sent'[r][j] = sent[r][j]
  BY DEF SentGrows
<1> QED
  BY <1>2, <1>3

LEMMA WriteKeepsRecvInv ==
  ASSUME RecvInv, NEW p \in Peers, NEW take \in BOOLEAN, NEW out,
         Outgoing(p, out), Write(p, take, out)
  PROVE  /\ delivered' \in [Peers -> Seq(Frames)]
         /\ recvSeq' \in [Peers -> Nat]
         /\ RecvCounts' /\ WireSeen' /\ SentOwn' /\ AcceptedAreSent'
<1> USE DEF Peers
<1>t. ChannelTypeOK
  BY DEF RecvInv
<1>w. /\ sent' \in [Peers -> Seq(Frames)]
      /\ wire' \in [Peers -> Seq(Frames \cup {Noise})]
      /\ Len(sent'[p]) = Len(sent[p]) + Len(out)
      /\ sent'[Other(p)] = sent[Other(p)]
      /\ SentGrows
  BY <1>t, WriteEffect
<1>d. /\ sent \in [Peers -> Seq(Frames)]
      /\ wire \in [Peers -> Seq(Frames \cup {Noise})]
      /\ delivered \in [Peers -> Seq(Frames)]
      /\ recvSeq \in [Peers -> Nat]
  BY <1>t DEF ChannelTypeOK
<1>o. Other(p) \in Peers /\ Other(p) # p /\ \A q \in Peers : q = p \/ q = Other(p)
  BY DEF Other
<1>1. SentOwn'
  <2> SUFFICES ASSUME NEW q \in Peers, NEW i \in 1..Len(sent'[q]) PROVE sent'[q][i].from = q
    BY DEF SentOwn
  <2>1. CASE i <= Len(sent[q])
    <3>1. sent[q] \in Seq(Frames) /\ Len(sent[q]) \in Nat
      BY <1>d, LenProperties
    <3>2. i \in 1..Len(sent[q])
      BY <2>1, <3>1
    <3>3. sent'[q][i] = sent[q][i]
      BY <1>w, <1>d, <3>2, SealedStays
    <3>4. sent[q][i].from = q
      BY <3>2 DEF RecvInv, SentOwn
    <3> QED
      BY <3>3, <3>4
  <2>2. CASE i > Len(sent[q])
    <3>1. q = p
      BY <1>w, <1>d, <1>o, <2>2
    <3>2. PICK f \in Frames : out = <<f>> /\ f.from = p
      BY <1>w, <1>d, <2>2, <3>1 DEF Outgoing
    <3>3. sent'[q] = sent[p] \o <<f>>
      BY <1>d, <3>1, <3>2 DEF Write
    <3>4. i = Len(sent[p]) + 1
      BY <1>d, <2>2, <3>1, <3>3
    <3> QED
      BY <1>d, <3>1, <3>2, <3>3, <3>4
  <2>3. i <= Len(sent[q]) \/ i > Len(sent[q])
    <3>1. Len(sent[q]) \in Nat /\ i \in Nat
      BY <1>d, LenProperties
    <3> QED BY <3>1
  <2> QED BY <2>1, <2>2, <2>3, Zenon
<1>2. WireSeen'
  <2> SUFFICES ASSUME NEW q \in Peers, NEW i \in 1..Len(wire'[q])
               PROVE  \/ wire'[q][i] = Noise
                      \/ \E r \in Peers : \E j \in 1..Len(sent'[r]) : wire'[q][i] = sent'[r][j]
    BY DEF WireSeen
  <2>0. ASSUME NEW k \in 1..Len(wire[q]), wire'[q][i] = wire[q][k]
        PROVE  \/ wire'[q][i] = Noise
               \/ \E r \in Peers : \E j \in 1..Len(sent'[r]) : wire'[q][i] = sent'[r][j]
    <3>1. CASE wire[q][k] = Noise
      BY <2>0, <3>1
    <3>2. CASE \E r \in Peers : \E j \in 1..Len(sent[r]) : wire[q][k] = sent[r][j]
      <4>0. PICK r \in Peers : \E j \in 1..Len(sent[r]) : wire[q][k] = sent[r][j]
        BY <3>2
      <4>1. PICK j \in 1..Len(sent[r]) : wire[q][k] = sent[r][j]
        BY <4>0
      <4>2. j \in 1..Len(sent'[r]) /\ sent'[r][j] = sent[r][j]
        BY <1>w, <1>d, SealedStays
      <4> QED
        BY <2>0, <4>1, <4>2
    <3> QED
      BY <3>1, <3>2 DEF RecvInv, WireSeen
  <2>1. CASE q = p
    <3>1. wire'[q] = wire[p] \o out
      BY <2>1 DEF Write
    <3>2. CASE i <= Len(wire[p])
      <4>1. wire'[q][i] = wire[q][i]
        BY <1>d, <2>1, <3>1, <3>2 DEF Outgoing
      <4>2. i \in 1..Len(wire[q])
        BY <1>d, <2>1, <3>2, LenProperties
      <4> QED
        BY <2>0, <4>1, <4>2
    <3>3. CASE i > Len(wire[p])
      <4>1. PICK f \in Frames : out = <<f>>
        BY <1>d, <2>1, <3>1, <3>3 DEF Outgoing
      <4>2. i = Len(wire[p]) + 1 /\ wire'[q][i] = f
        BY <1>d, <3>1, <3>3, <4>1
      <4>3. sent'[p] = sent[p] \o <<f>>
        BY <1>d, <4>1 DEF Write
      <4>4. sent'[p][Len(sent[p]) + 1] = f /\ Len(sent[p]) + 1 \in 1..Len(sent'[p])
        BY <1>d, <4>3
      <4> QED
        BY <4>2, <4>4
    <3>4. i <= Len(wire[p]) \/ i > Len(wire[p])
      <4>1. Len(wire[p]) \in Nat /\ i \in Nat
        BY <1>d, LenProperties
      <4> QED BY <4>1
    <3> QED BY <3>2, <3>3, <3>4, Zenon
  <2>2. CASE q # p
    <3>0. q = Other(p)
      BY <2>2, <1>o
    <3>1. CASE take
      <4>1. wire'[q] = Tail(wire[q]) /\ wire[q] # << >>
        BY <2>2, <3>0, <3>1 DEF Write
      <4>2. i + 1 \in 1..Len(wire[q]) /\ wire'[q][i] = wire[q][i + 1]
        BY <1>d, <4>1
      <4> QED
        BY <2>0, <4>2
    <3>2. CASE ~take
      BY <2>0, <2>2, <3>2 DEF Write
    <3> QED
      BY <3>1, <3>2
  <2> QED
    BY <2>1, <2>2
<1>3. CASE ~Taken(p, take)
  <2>1. delivered' = delivered /\ recvSeq' = recvSeq
    BY <1>3 DEF Write
  <2>2. AcceptedAreSent'
    <3> SUFFICES ASSUME NEW q \in Peers, NEW i \in 1..Len(delivered[q])
                 PROVE  /\ delivered[q][i].seq = i - 1
                        /\ \E j \in 1..Len(sent'[Other(q)]) : delivered[q][i] = sent'[Other(q)][j]
      BY <2>1 DEF AcceptedAreSent
    <3>1. PICK j \in 1..Len(sent[Other(q)]) : delivered[q][i] = sent[Other(q)][j]
      BY DEF RecvInv, AcceptedAreSent
    <3>2. Other(q) \in Peers
      BY DEF Other
    <3>3. j \in 1..Len(sent'[Other(q)]) /\ sent'[Other(q)][j] = sent[Other(q)][j]
      BY <1>w, <1>d, <3>2, SealedStays
    <3> QED
      BY <3>1, <3>3 DEF RecvInv, AcceptedAreSent
  <2> QED
    BY <1>d, <1>1, <1>2, <2>1, <2>2 DEF RecvCounts, RecvInv
<1>4. CASE Taken(p, take)
  <2> DEFINE f == wire[Other(p)][1]
  <2>1. /\ wire[Other(p)] # << >>
        /\ f.from = Other(p)
        /\ f.seq = recvSeq[p]
        /\ delivered' = [delivered EXCEPT ![p] = Append(@, f)]
        /\ recvSeq' = [recvSeq EXCEPT ![p] = @ + 1]
    BY <1>4, <1>d, <1>o DEF Write, Taken, Accepts
  <2>2. PICK j \in 1..Len(sent[Other(p)]) : f = sent[Other(p)][j]
    <3>1. 1 \in 1..Len(wire[Other(p)])
      BY <1>d, <1>o, <2>1
    <3>2. \/ f = Noise
          \/ \E r \in Peers : \E j \in 1..Len(sent[r]) : f = sent[r][j]
      BY <1>o, <3>1 DEF RecvInv, WireSeen
    <3>3. f # Noise
      BY <1>o, <2>1 DEF Noise
    <3>4. PICK r \in Peers : \E j \in 1..Len(sent[r]) : f = sent[r][j]
      BY <3>2, <3>3
    <3>5. r = Other(p)
      BY <2>1, <3>4 DEF RecvInv, SentOwn
    <3> QED
      BY <3>4, <3>5
  <2>3. f \in Frames
    BY <1>d, <1>o, <2>2
  <2> HIDE DEF f
  <2>a. Append(delivered[p], f) \in Seq(Frames)
    BY <1>d, <2>3
  <2>b. delivered' \in [Peers -> Seq(Frames)]
    BY <1>d, <2>1, <2>a
  <2>c. recvSeq' \in [Peers -> Nat]
    BY <1>d, <2>1
  <2>d. delivered'[p] = Append(delivered[p], f) /\ delivered'[Other(p)] = delivered[Other(p)]
    BY <1>d, <1>o, <2>1
  <2>e. /\ Len(delivered[p]) \in Nat
        /\ Len(delivered'[p]) = Len(delivered[p]) + 1
        /\ delivered'[p][Len(delivered[p]) + 1] = f
        /\ \A i \in 1..Len(delivered[p]) : delivered'[p][i] = delivered[p][i]
    BY <1>d, <2>3, <2>d, AppendProperties
  <2>4. delivered' \in [Peers -> Seq(Frames)] /\ recvSeq' \in [Peers -> Nat]
    BY <2>b, <2>c
  <2>5. RecvCounts'
    <3> SUFFICES ASSUME NEW q \in Peers PROVE recvSeq'[q] = Len(delivered'[q])
      BY DEF RecvCounts
    <3>1. recvSeq[q] = Len(delivered[q])
      BY DEF RecvInv, RecvCounts
    <3>2. CASE q = p
      BY <1>d, <2>1, <2>e, <3>1, <3>2
    <3>3. CASE q # p
      BY <1>d, <1>o, <2>1, <2>d, <3>1, <3>3
    <3> QED
      BY <3>2, <3>3
  <2>6. AcceptedAreSent'
    <3> SUFFICES ASSUME NEW q \in Peers, NEW i \in 1..Len(delivered'[q])
                 PROVE  /\ delivered'[q][i].seq = i - 1
                        /\ \E n \in 1..Len(sent'[Other(q)]) : delivered'[q][i] = sent'[Other(q)][n]
      BY DEF AcceptedAreSent
    <3>1. Other(q) \in Peers
      BY DEF Other
    <3>2. CASE i \in 1..Len(delivered[q])
      <4>1. delivered'[q][i] = delivered[q][i]
        BY <1>o, <2>d, <2>e, <3>2
      <4>2. PICK n \in 1..Len(sent[Other(q)]) : delivered[q][i] = sent[Other(q)][n]
        BY <3>2 DEF RecvInv, AcceptedAreSent
      <4>3. n \in 1..Len(sent'[Other(q)]) /\ sent'[Other(q)][n] = sent[Other(q)][n]
        BY <1>w, <1>d, <3>1, SealedStays
      <4> QED
        BY <3>2, <4>1, <4>2, <4>3 DEF RecvInv, AcceptedAreSent
    <3>3. CASE i \notin 1..Len(delivered[q])
      <4>1. q = p /\ i = Len(delivered[p]) + 1 /\ delivered'[q][i] = f
        BY <1>o, <2>d, <2>e, <3>3
      <4>2. f.seq = Len(delivered[p])
        BY <2>1 DEF RecvInv, RecvCounts
      <4>3. j \in 1..Len(sent'[Other(p)]) /\ sent'[Other(p)][j] = f
        BY <1>w, <1>d, <1>o, <2>2, SealedStays
      <4> QED
        BY <1>d, <4>1, <4>2, <4>3
    <3> QED
      BY <3>2, <3>3
  <2> QED
    BY <1>1, <1>2, <2>4, <2>5, <2>6
<1> QED
  BY <1>3, <1>4, <1>1, <1>2

-----------------------------------------------------------------------------
(* The relay's steps only move what was sealed before.                     *)

Elems(s) == {s[i] : i \in 1..Len(s)}

LEMMA ElemsConcat ==
  ASSUME NEW S, NEW s \in Seq(S), NEW t \in Seq(S)
  PROVE  s \o t \in Seq(S) /\ Elems(s \o t) \subseteq Elems(s) \cup Elems(t)
<1>1. /\ s \o t \in Seq(S)
      /\ Len(s \o t) = Len(s) + Len(t)
      /\ \A i \in 1..Len(s) + Len(t) : (s \o t)[i] = IF i <= Len(s) THEN s[i] ELSE t[i - Len(s)]
  BY ConcatProperties
<1>2. Len(s) \in Nat /\ Len(t) \in Nat
  BY LenProperties
<1>3. ASSUME NEW i \in 1..Len(s \o t) PROVE (s \o t)[i] \in Elems(s) \cup Elems(t)
  <2>1. CASE i <= Len(s)
    <3>1. i \in 1..Len(s) /\ (s \o t)[i] = s[i]
      BY <1>1, <1>2, <2>1
    <3> QED
      BY <3>1 DEF Elems
  <2>2. CASE ~(i <= Len(s))
    <3>1. i - Len(s) \in 1..Len(t) /\ (s \o t)[i] = t[i - Len(s)]
      BY <1>1, <1>2, <2>2
    <3> QED
      BY <3>1 DEF Elems
  <2> QED
    BY <2>1, <2>2
<1> QED
  BY <1>1, <1>3 DEF Elems

LEMMA ElemsSubSeq ==
  ASSUME NEW S, NEW s \in Seq(S), NEW m \in Nat \ {0}, NEW n \in Nat, n <= Len(s)
  PROVE  SubSeq(s, m, n) \in Seq(S) /\ Elems(SubSeq(s, m, n)) \subseteq Elems(s)
<1>1. Len(s) \in Nat /\ \A i \in 1..Len(s) : s[i] \in S
  BY LenProperties
<1>2. \A i \in m..n : i \in 1..Len(s) /\ s[i] \in S
  BY <1>1
<1>3. /\ SubSeq(s, m, n) \in Seq(S)
      /\ Len(SubSeq(s, m, n)) = IF m <= n THEN n - m + 1 ELSE 0
      /\ \A i \in 1..n - m + 1 : SubSeq(s, m, n)[i] = s[m + i - 1]
  BY <1>2, SubSeqProperties
<1>4. ASSUME NEW i \in 1..Len(SubSeq(s, m, n)) PROVE SubSeq(s, m, n)[i] \in Elems(s)
  <2>1. i \in 1..n - m + 1 /\ m + i - 1 \in m..n
    BY <1>3
  <2> QED
    BY <1>2, <1>3, <2>1 DEF Elems
<1> QED
  BY <1>3, <1>4 DEF Elems

LEMMA ReplayableElem ==
  ASSUME NEW x
  PROVE  x \in Replayable
           <=> (x = Noise \/ \E q \in Peers : \E j \in 1..Len(sent[q]) : x = sent[q][j])
<1> DEFINE By(q) == {sent[q][j] : j \in 1..Len(sent[q])}
<1>1. Replayable = {Noise} \cup (UNION {By(q) : q \in Peers})
  BY DEF Replayable
<1>2. \A q : x \in By(q) <=> \E j \in 1..Len(sent[q]) : x = sent[q][j]
  OBVIOUS
<1> HIDE DEF By
<1>3. x \in UNION {By(q) : q \in Peers} <=> \E q \in Peers : x \in By(q)
  OBVIOUS
<1> QED
  BY <1>1, <1>2, <1>3

LEMMA RelayKeepsRecvInv ==
  ASSUME RecvInv, NEW p \in Peers, RelayDrops(p) \/ RelayInserts(p)
  PROVE  RecvInv'
<1> DEFINE T == Frames \cup {Noise}
           w == wire[p]
<1>t. ChannelTypeOK /\ WireSeen
  BY DEF RecvInv
<1>d. wire \in [Peers -> Seq(T)] /\ w \in Seq(T) /\ Len(w) \in Nat
  BY <1>t, LenProperties DEF ChannelTypeOK
<1>r. Replayable \subseteq T
  <2>1. \A q \in Peers : sent[q] \in Seq(Frames)
    BY <1>t DEF ChannelTypeOK
  <2>2. \A q \in Peers : \A j \in 1..Len(sent[q]) : sent[q][j] \in Frames
    BY <2>1
  <2> QED
    BY <2>2, ReplayableElem
<1>e. Elems(w) \subseteq Replayable
  <2> SUFFICES ASSUME NEW i \in 1..Len(w) PROVE w[i] \in Replayable
    BY DEF Elems
  <2> QED
    BY <1>t, ReplayableElem DEF WireSeen
<1> HIDE DEF T, w
<1>1. PICK v \in Seq(T) : wire' = [wire EXCEPT ![p] = v] /\ Elems(v) \subseteq Replayable
  <2>1. CASE RelayDrops(p)
    <3>1. PICK i \in 1..Len(w) :
            wire' = [wire EXCEPT ![p] = SubSeq(w, 1, i - 1) \o SubSeq(w, i + 1, Len(w))]
      BY <2>1 DEF RelayDrops, w
    <3>2. SubSeq(w, 1, i - 1) \in Seq(T) /\ Elems(SubSeq(w, 1, i - 1)) \subseteq Elems(w)
      <4>1. i - 1 \in Nat /\ i - 1 <= Len(w) /\ 1 \in Nat \ {0}
        BY <1>d
      <4> QED
        BY <1>d, <4>1, ElemsSubSeq
    <3>3. SubSeq(w, i + 1, Len(w)) \in Seq(T) /\ Elems(SubSeq(w, i + 1, Len(w))) \subseteq Elems(w)
      <4>1. i + 1 \in Nat \ {0} /\ Len(w) <= Len(w)
        BY <1>d
      <4> QED
        BY <1>d, <4>1, ElemsSubSeq
    <3>4. /\ SubSeq(w, 1, i - 1) \o SubSeq(w, i + 1, Len(w)) \in Seq(T)
          /\ Elems(SubSeq(w, 1, i - 1) \o SubSeq(w, i + 1, Len(w))) \subseteq Elems(w)
      <4> DEFINE a == SubSeq(w, 1, i - 1)
                 b == SubSeq(w, i + 1, Len(w))
      <4>1. a \in Seq(T) /\ b \in Seq(T) /\ Elems(a) \subseteq Elems(w) /\ Elems(b) \subseteq Elems(w)
        BY <3>2, <3>3
      <4> HIDE DEF a, b
      <4>2. a \o b \in Seq(T) /\ Elems(a \o b) \subseteq Elems(a) \cup Elems(b)
        BY <4>1, ElemsConcat
      <4>3. a \o b \in Seq(T) /\ Elems(a \o b) \subseteq Elems(w)
        BY <4>1, <4>2
      <4> QED
        BY <4>3 DEF a, b
    <3> QED
      BY <1>e, <3>1, <3>4
  <2>2. CASE RelayInserts(p)
    <3>1. PICK i \in 1..(Len(w) + 1), f \in Replayable :
            wire' = [wire EXCEPT ![p] = SubSeq(w, 1, i - 1) \o <<f>> \o SubSeq(w, i, Len(w))]
      BY <2>2 DEF RelayInserts, w
    <3>2. SubSeq(w, 1, i - 1) \in Seq(T) /\ Elems(SubSeq(w, 1, i - 1)) \subseteq Elems(w)
      <4>1. i - 1 \in Nat /\ i - 1 <= Len(w) /\ 1 \in Nat \ {0}
        BY <1>d
      <4> QED
        BY <1>d, <4>1, ElemsSubSeq
    <3>3. SubSeq(w, i, Len(w)) \in Seq(T) /\ Elems(SubSeq(w, i, Len(w))) \subseteq Elems(w)
      <4>1. i \in Nat \ {0} /\ Len(w) <= Len(w)
        BY <1>d
      <4> QED
        BY <1>d, <4>1, ElemsSubSeq
    <3>4. <<f>> \in Seq(T) /\ Elems(<<f>>) \subseteq Replayable
      BY <1>r DEF Elems
    <3>5. /\ SubSeq(w, 1, i - 1) \o <<f>> \in Seq(T)
          /\ Elems(SubSeq(w, 1, i - 1) \o <<f>>) \subseteq Replayable
      <4>1. Elems(SubSeq(w, 1, i - 1) \o <<f>>)
              \subseteq Elems(SubSeq(w, 1, i - 1)) \cup Elems(<<f>>)
        BY <3>2, <3>4, ElemsConcat
      <4>2. SubSeq(w, 1, i - 1) \o <<f>> \in Seq(T)
        BY <3>2, <3>4, ElemsConcat
      <4> QED
        BY <1>e, <3>2, <3>4, <4>1, <4>2
    <3>6. SubSeq(w, 1, i - 1) \o <<f>> \o SubSeq(w, i, Len(w)) \in Seq(T)
      BY <3>3, <3>5, ElemsConcat
    <3>7. Elems(SubSeq(w, 1, i - 1) \o <<f>> \o SubSeq(w, i, Len(w)))
            \subseteq Elems(SubSeq(w, 1, i - 1) \o <<f>>) \cup Elems(SubSeq(w, i, Len(w)))
      BY <3>3, <3>5, ElemsConcat
    <3> QED
      BY <1>e, <3>1, <3>3, <3>5, <3>6, <3>7
  <2> QED
    BY <2>1, <2>2
<1>2. /\ UNCHANGED <<open, sent, delivered, sendSeq, recvSeq, draining>>
      /\ faults' = faults + 1 /\ faults < MaxFaults
  BY DEF RelayDrops, RelayInserts
<1>3. ChannelTypeOK'
  <2>1. wire' \in [Peers -> Seq(T)]
    BY <1>1, <1>d
  <2>2. faults' \in 0..MaxFaults
    BY <1>t, <1>2, FrameChannelAssumption DEF ChannelTypeOK
  <2> QED
    BY <1>t, <1>2, <2>1, <2>2 DEF ChannelTypeOK, T
<1>4. WireSeen'
  <2> SUFFICES ASSUME NEW q \in Peers, NEW i \in 1..Len(wire'[q])
               PROVE  \/ wire'[q][i] = Noise
                      \/ \E r \in Peers : \E j \in 1..Len(sent[r]) : wire'[q][i] = sent[r][j]
    BY <1>2 DEF WireSeen
  <2>1. CASE q = p
    <3>1. wire'[q][i] \in Elems(v)
      BY <1>1, <1>d, <2>1 DEF Elems
    <3> QED
      BY <1>1, <3>1, ReplayableElem
  <2>2. CASE q # p
    BY <1>1, <1>d, <1>t, <2>2 DEF WireSeen
  <2> QED
    BY <2>1, <2>2
<1> QED
  BY <1>2, <1>3, <1>4 DEF RecvInv, RecvCounts, SentOwn, AcceptedAreSent

-----------------------------------------------------------------------------
(* Every step of the operations is a turn, suspended or not, or touches    *)
(* neither the frames nor the receive trackers.                            *)

PlainTurn(p) ==
  \E take \in BOOLEAN, out \in Seq(Frames) :
    Outgoing(p, out) /\ Turn(p, take, out) /\ open' \in [Peers -> BOOLEAN]

SuspendedTurn(p) ==
  \E k \in Tasks, take \in BOOLEAN, f \in Frames :
    Outgoing(p, <<f>>) /\ TurnSuspended(p, k, take, f) /\ UNCHANGED open

LEMMA OperationIsTurn ==
  ASSUME ChannelTypeOK, NEW p \in Peers, NEW k \in Tasks, SendFrame(p, k) \/ RecvFrame(p, k)
  PROVE  PlainTurn(p) \/ SuspendedTurn(p)
<1>1. CASE SendFrame(p, k)
  <2>1. PICK m \in Messages(p) :
          \/ Turn(p, FALSE, <<Encrypt(p, m[1], m[2])>>)
          \/ TurnSuspended(p, k, FALSE, Encrypt(p, m[1], m[2]))
    BY <1>1 DEF SendFrame
  <2> DEFINE f == Encrypt(p, m[1], m[2])
  <2>2. f \in Frames /\ Outgoing(p, <<f>>)
    BY EncryptedMessage
  <2>3. Turn(p, FALSE, <<f>>) \/ TurnSuspended(p, k, FALSE, f)
    BY <2>1
  <2>4. UNCHANGED open /\ open' \in [Peers -> BOOLEAN]
    BY <1>1 DEF SendFrame, ChannelTypeOK
  <2> HIDE DEF f
  <2>5. <<f>> \in Seq(Frames)
    BY <2>2
  <2> QED
    BY <2>2, <2>3, <2>4, <2>5 DEF PlainTurn, SuspendedTurn
<1>2. CASE RecvFrame(p, k)
  <2> DEFINE ack == AckOf(p, Head(wire[Other(p)]))
             out == IF open[p] THEN ack ELSE << >>
  <2>1. /\ Turn(p, TRUE, out) \/ (ack # << >> /\ TurnSuspended(p, k, TRUE, ack[1]))
        /\ UNCHANGED open /\ open' \in [Peers -> BOOLEAN]
    BY <1>2 DEF RecvFrame, ChannelTypeOK
  <2>2. Outgoing(p, ack) /\ (ack # << >> => ack[1] \in Frames /\ ack = <<ack[1]>>)
    BY Acknowledgement
  <2>3. << >> \in Seq(Frames) /\ Outgoing(p, << >>)
    BY DEF Outgoing
  <2> HIDE DEF ack
  <2>4. ack \in Seq(Frames)
    <3>1. CASE ack = << >>
      BY <3>1
    <3>2. ASSUME NEW f \in Frames, ack = <<f>> PROVE ack \in Seq(Frames)
      BY <3>2
    <3> QED
      BY <2>2, <3>1, <3>2
  <2>5. out \in Seq(Frames) /\ Outgoing(p, out)
    BY <2>2, <2>3, <2>4
  <2> HIDE DEF out
  <2>6. CASE Turn(p, TRUE, out)
    BY <2>1, <2>5, <2>6 DEF PlainTurn
  <2>7. CASE ack # << >> /\ TurnSuspended(p, k, TRUE, ack[1])
    <3>1. ack[1] \in Frames /\ Outgoing(p, <<ack[1]>>)
      BY <2>2, <2>7
    <3> QED
      BY <2>1, <2>7, <3>1 DEF SuspendedTurn
  <2> QED
    BY <2>1, <2>6, <2>7
<1> QED
  BY <1>1, <1>2

-----------------------------------------------------------------------------
(* With and without backpressure.                                          *)

LEMMA PlainTurnKeepsRecvInv ==
  ASSUME RecvInv, NEW p \in Peers, PlainTurn(p)
  PROVE  RecvInv'
<1>t. ChannelTypeOK
  BY DEF RecvInv
<1>1. PICK take \in BOOLEAN, out \in Seq(Frames) :
        Outgoing(p, out) /\ Turn(p, take, out) /\ open' \in [Peers -> BOOLEAN]
  BY DEF PlainTurn
<1>2. Write(p, take, out) /\ UNCHANGED <<draining, faults>>
      /\ sendSeq' = [sendSeq EXCEPT ![p] = @ + Len(out)]
  BY <1>1 DEF Turn, Write
<1>3. sendSeq' \in [Peers -> Nat]
  BY <1>t, <1>2, LenProperties DEF ChannelTypeOK
<1>4. sent' \in [Peers -> Seq(Frames)] /\ wire' \in [Peers -> Seq(Frames \cup {Noise})]
  BY <1>t, <1>1, <1>2, WriteEffect
<1>5. /\ delivered' \in [Peers -> Seq(Frames)] /\ recvSeq' \in [Peers -> Nat]
      /\ RecvCounts' /\ WireSeen' /\ SentOwn' /\ AcceptedAreSent'
  BY <1>1, <1>2, WriteKeepsRecvInv
<1>6. ChannelTypeOK'
  BY <1>t, <1>1, <1>2, <1>3, <1>4, <1>5 DEF ChannelTypeOK
<1> QED
  BY <1>5, <1>6 DEF RecvInv

LEMMA RecvInvStep ==
  ASSUME RecvInv, [ChannelNext]_chanVars
  PROVE  RecvInv'
<1>t. ChannelTypeOK
  BY DEF RecvInv
<1>1. ASSUME NEW p \in Peers, PlainTurn(p) PROVE RecvInv'
  BY <1>1, PlainTurnKeepsRecvInv
<1>2. ASSUME NEW p \in Peers, SuspendedTurn(p) PROVE RecvInv'
  <2>1. PICK k \in Tasks, take \in BOOLEAN, f \in Frames :
          Outgoing(p, <<f>>) /\ TurnSuspended(p, k, take, f) /\ UNCHANGED open
    BY <1>2 DEF SuspendedTurn
  <2>2. Write(p, take, <<f>>) /\ UNCHANGED <<sendSeq, faults>>
        /\ draining' = [draining EXCEPT ![p] = @ \cup {<<k, f.seq>>}]
    BY <2>1 DEF TurnSuspended, Write
  <2>3. draining' \in [Peers -> SUBSET (Tasks \X Nat)]
    <3>1. f.seq \in Nat
      BY DEF Frames
    <3> QED
      BY <1>t, <2>2, <3>1 DEF ChannelTypeOK
  <2>4. sent' \in [Peers -> Seq(Frames)] /\ wire' \in [Peers -> Seq(Frames \cup {Noise})]
    BY <1>t, <2>1, <2>2, WriteEffect
  <2>5. /\ delivered' \in [Peers -> Seq(Frames)] /\ recvSeq' \in [Peers -> Nat]
        /\ RecvCounts' /\ WireSeen' /\ SentOwn' /\ AcceptedAreSent'
    BY <2>1, <2>2, WriteKeepsRecvInv
  <2>6. ChannelTypeOK'
    BY <1>t, <2>1, <2>2, <2>3, <2>4, <2>5 DEF ChannelTypeOK
  <2> QED
    BY <2>5, <2>6 DEF RecvInv
<1>3. ASSUME UNCHANGED <<sent, wire, delivered, recvSeq, faults>>,
             open' \in [Peers -> BOOLEAN], sendSeq' \in [Peers -> Nat],
             draining' \in [Peers -> SUBSET (Tasks \X Nat)]
      PROVE  RecvInv'
  BY <1>3 DEF RecvInv, ChannelTypeOK, RecvCounts, WireSeen, SentOwn, AcceptedAreSent
<1>4. ASSUME NEW p \in Peers, NEW k \in Tasks, SendResumes(p, k) \/ SendCancelled(p, k)
      PROVE  RecvInv'
  <2>1. draining' \in [Peers -> SUBSET (Tasks \X Nat)]
    <3>1. PICK d \in draining[p] : draining' = [draining EXCEPT ![p] = @ \ {d}]
      BY <1>4 DEF SendResumes, SendCancelled
    <3>2. draining[p] \ {d} \in SUBSET (Tasks \X Nat)
      BY <1>t DEF ChannelTypeOK
    <3> QED
      BY <1>t, <3>1, <3>2 DEF ChannelTypeOK
  <2>2. sendSeq' \in [Peers -> Nat]
    BY <1>4, <1>t DEF SendResumes, SendCancelled, ChannelTypeOK
  <2>3. UNCHANGED <<open, sent, wire, delivered, recvSeq, faults>>
    BY <1>4 DEF SendResumes, SendCancelled
  <2> QED
    BY <1>t, <1>3, <2>1, <2>2, <2>3 DEF ChannelTypeOK
<1>5. ASSUME NEW p \in Peers, CloseSocket(p) PROVE RecvInv'
  <2>1. open' \in [Peers -> BOOLEAN]
    BY <1>5, <1>t DEF CloseSocket, ChannelTypeOK
  <2>2. UNCHANGED <<sent, wire, delivered, sendSeq, recvSeq, draining, faults>>
    BY <1>5 DEF CloseSocket
  <2> QED
    BY <1>t, <1>3, <2>1, <2>2 DEF ChannelTypeOK
<1>6. CASE UNCHANGED chanVars
  BY <1>t, <1>3, <1>6 DEF chanVars, ChannelTypeOK
<1>7. CASE ChannelNext
  BY <1>1, <1>2, <1>4, <1>5, <1>7, <1>t, OperationIsTurn, RelayKeepsRecvInv DEF ChannelNext
<1> QED
  BY <1>6, <1>7

LEMMA RecvInvInit ==
  ASSUME ChannelInit PROVE RecvInv
<1> USE DEF ChannelInit
<1>1. /\ sent \in [Peers -> Seq(Frames)] /\ delivered \in [Peers -> Seq(Frames)]
      /\ wire \in [Peers -> Seq(Frames \cup {Noise})]
  OBVIOUS
<1>2. ChannelTypeOK
  BY <1>1, FrameChannelAssumption DEF ChannelTypeOK
<1>3. \A p \in Peers : Len(sent[p]) = 0 /\ Len(wire[p]) = 0 /\ Len(delivered[p]) = 0
  OBVIOUS
<1>4. \A p \in Peers : Other(p) \in Peers
  BY DEF Other, Peers
<1> QED
  BY <1>2, <1>3, <1>4 DEF RecvInv, RecvCounts, WireSeen, SentOwn, AcceptedAreSent

(***************************************************************************)
(* Type correctness of the frame layer: send_frame, recv_frame and the     *)
(* relay keep the trackers, the frames and the wires in their types.       *)
(***************************************************************************)
THEOREM ChannelTypeCorrect == ChannelSpec => []ChannelTypeOK
<1>1. ChannelInit => RecvInv
  BY RecvInvInit
<1>2. RecvInv /\ [ChannelNext]_chanVars => RecvInv'
  BY RecvInvStep
<1>3. RecvInv => ChannelTypeOK
  BY DEF RecvInv
<1> QED
  BY <1>1, <1>2, <1>3, PTL DEF ChannelSpec

(***************************************************************************)
(* For any relay, any number of tasks and with or without backpressure,    *)
(* what recv_frame accepts was sealed by the peer, and accepted only once. *)
(***************************************************************************)
THEOREM AcceptedWereSent == ChannelSpec => []AcceptedAreSent
<1>1. ChannelInit => RecvInv
  BY RecvInvInit
<1>2. RecvInv /\ [ChannelNext]_chanVars => RecvInv'
  BY RecvInvStep
<1>3. RecvInv => AcceptedAreSent
  BY DEF RecvInv
<1> QED
  BY <1>1, <1>2, <1>3, PTL DEF ChannelSpec

-----------------------------------------------------------------------------
(* When no send suspends.                                                  *)

\* A tracker that counts the frames makes what is accepted a prefix.
LEMMA CountsGiveOrder ==
  ASSUME RecvInv, SendCounts PROVE DeliveredInOrder
<1> SUFFICES ASSUME NEW p \in Peers
             PROVE  /\ Len(delivered[p]) <= Len(sent[Other(p)])
                    /\ \A i \in 1..Len(delivered[p]) : delivered[p][i] = sent[Other(p)][i]
  BY DEF DeliveredInOrder
<1>0. Other(p) \in Peers
  BY DEF Other, Peers
<1>1. Len(delivered[p]) \in Nat /\ Len(sent[Other(p)]) \in Nat
  BY <1>0, LenProperties DEF RecvInv, ChannelTypeOK
<1>2. ASSUME NEW i \in 1..Len(delivered[p])
      PROVE  i \in 1..Len(sent[Other(p)]) /\ delivered[p][i] = sent[Other(p)][i]
  <2>1. PICK j \in 1..Len(sent[Other(p)]) : delivered[p][i] = sent[Other(p)][j]
    BY DEF RecvInv, AcceptedAreSent
  <2>2. delivered[p][i].seq = i - 1
    BY DEF RecvInv, AcceptedAreSent
  <2>3. sent[Other(p)][j].seq = j - 1
    BY <1>0 DEF SendCounts
  <2>4. j = i
    BY <1>1, <2>1, <2>2, <2>3
  <2> QED
    BY <2>1, <2>4
<1>3. Len(delivered[p]) <= Len(sent[Other(p)])
  <2>1. CASE Len(delivered[p]) = 0
    BY <1>1, <2>1
  <2>2. CASE Len(delivered[p]) # 0
    <3>1. Len(delivered[p]) \in 1..Len(delivered[p])
      BY <1>1, <2>2
    <3>2. Len(delivered[p]) \in 1..Len(sent[Other(p)])
      BY <1>2, <3>1
    <3> QED
      BY <1>1, <3>2
  <2> QED
    BY <2>1, <2>2
<1> QED
  BY <1>2, <1>3

LEMMA TurnKeepsCounts ==
  ASSUME RecvInv, SendCounts, NEW p \in Peers, PlainTurn(p)
  PROVE  SendCounts'
<1>t. ChannelTypeOK /\ \A q \in Peers : sent[q] \in Seq(Frames) /\ Len(sent[q]) \in Nat
  BY LenProperties DEF RecvInv, ChannelTypeOK
<1>1. PICK take \in BOOLEAN, out \in Seq(Frames) : Outgoing(p, out) /\ Turn(p, take, out)
  BY DEF PlainTurn
<1>2. /\ sent' = [sent EXCEPT ![p] = @ \o out]
      /\ sendSeq' = [sendSeq EXCEPT ![p] = @ + Len(out)]
  BY <1>1 DEF Turn, Write
<1>3. /\ sent' \in [Peers -> Seq(Frames)]
      /\ Len(sent'[p]) = Len(sent[p]) + Len(out)
      /\ SentGrows
  BY <1>t, <1>1, WriteEffect DEF Turn
<1>4. SentOwn'
  BY <1>1, WriteKeepsRecvInv DEF Turn
<1> SUFFICES ASSUME NEW q \in Peers
             PROVE  /\ sendSeq'[q] = Len(sent'[q])
                    /\ \A i \in 1..Len(sent'[q]) : sent'[q][i].seq = i - 1
  BY <1>4 DEF SendCounts, SentOwn
<1>5. CASE q # p
  <2>1. sent'[q] = sent[q] /\ sendSeq'[q] = sendSeq[q]
    BY <1>2, <1>5, <1>t DEF ChannelTypeOK
  <2> QED
    BY <2>1 DEF SendCounts
<1>6. CASE q = p
  <2>1. sendSeq'[p] = Len(sent'[p])
    BY <1>t, <1>2, <1>3 DEF SendCounts, ChannelTypeOK
  <2>2. ASSUME NEW i \in 1..Len(sent'[p]) PROVE sent'[p][i].seq = i - 1
    <3>1. CASE i \in 1..Len(sent[p])
      <4>1. sent'[p][i] = sent[p][i]
        BY <1>3, <3>1 DEF SentGrows
      <4> QED
        BY <3>1, <4>1 DEF SendCounts
    <3>2. CASE i \notin 1..Len(sent[p])
      <4>0. Len(out) \in Nat /\ Len(out) # 0
        BY <1>t, <1>3, <3>2, LenProperties
      <4>1. PICK f \in Frames : out = <<f>> /\ f.seq = sendSeq[p]
        BY <1>1, <4>0 DEF Outgoing
      <4>2. sent'[p] = sent[p] \o <<f>>
        BY <1>t, <1>2, <4>1 DEF ChannelTypeOK
      <4>3. i = Len(sent[p]) + 1 /\ sent'[p][i] = f
        BY <1>t, <3>2, <4>2
      <4>4. sendSeq[p] = Len(sent[p])
        BY DEF SendCounts
      <4> QED
        BY <1>t, <4>1, <4>3, <4>4
    <3> QED
      BY <3>1, <3>2
  <2> QED
    BY <1>6, <2>1, <2>2
<1> QED
  BY <1>5, <1>6

\* In order is genuine and accepted once.
LEMMA OrderGivesGenuine ==
  ASSUME ChannelInv PROVE RecvInv
<1>s. SendCounts
  BY DEF ChannelInv
<1>1. SentOwn
  BY DEF ChannelInv, SendCounts, SentOwn
<1>2. AcceptedAreSent
  <2> SUFFICES ASSUME NEW p \in Peers, NEW i \in 1..Len(delivered[p])
               PROVE  /\ delivered[p][i].seq = i - 1
                      /\ \E j \in 1..Len(sent[Other(p)]) : delivered[p][i] = sent[Other(p)][j]
    BY DEF AcceptedAreSent
  <2>0. Other(p) \in Peers
    BY DEF Other, Peers
  <2>1. Len(delivered[p]) \in Nat /\ Len(sent[Other(p)]) \in Nat
    BY <2>0, LenProperties DEF ChannelInv, ChannelTypeOK
  <2>2. Len(delivered[p]) <= Len(sent[Other(p)]) /\ delivered[p][i] = sent[Other(p)][i]
    BY DEF ChannelInv, DeliveredInOrder
  <2>3. i \in 1..Len(sent[Other(p)])
    BY <2>1, <2>2
  <2> QED
    BY <1>s, <2>0, <2>2, <2>3 DEF SendCounts
<1> QED
  BY <1>1, <1>2 DEF ChannelInv, RecvInv

LEMMA ChannelInvStep ==
  ASSUME Backpressure = FALSE, ChannelInv, [ChannelNext]_chanVars
  PROVE  ChannelInv'
<1>s. SendCounts /\ NoneDraining
  BY DEF ChannelInv
<1>r. RecvInv
  BY OrderGivesGenuine
<1>1. RecvInv'
  BY <1>r, RecvInvStep
<1>2. SendCounts' /\ NoneDraining'
  <2>1. ASSUME NEW p \in Peers, PlainTurn(p) PROVE SendCounts' /\ NoneDraining'
    <3>1. SendCounts'
      BY <1>r, <1>s, <2>1, TurnKeepsCounts
    <3>2. UNCHANGED draining
      BY <2>1 DEF PlainTurn, Turn
    <3> QED
      BY <1>s, <3>1, <3>2 DEF NoneDraining
  <2>2. ASSUME NEW p \in Peers PROVE ~SuspendedTurn(p)
    BY DEF SuspendedTurn, TurnSuspended
  <2>3. ASSUME NEW p \in Peers, NEW k \in Tasks PROVE ~SendResumes(p, k) /\ ~SendCancelled(p, k)
    BY <1>s DEF NoneDraining, SendResumes, SendCancelled
  <2>4. ASSUME UNCHANGED <<sent, sendSeq, draining>> PROVE SendCounts' /\ NoneDraining'
    BY <1>s, <2>4 DEF SendCounts, NoneDraining
  <2>5. ASSUME NEW p \in Peers, CloseSocket(p) \/ RelayDrops(p) \/ RelayInserts(p)
        PROVE  SendCounts' /\ NoneDraining'
    BY <2>4, <2>5 DEF CloseSocket, RelayDrops, RelayInserts
  <2>6. CASE UNCHANGED chanVars
    BY <2>4, <2>6 DEF chanVars
  <2>7. CASE ChannelNext
    <3>1. ChannelTypeOK
      BY <1>r DEF RecvInv
    <3> QED
      BY <2>1, <2>2, <2>3, <2>5, <2>7, <3>1, OperationIsTurn DEF ChannelNext
  <2> QED
    BY <2>6, <2>7
<1>3. DeliveredInOrder'
  BY <1>1, <1>2, CountsGiveOrder, PTL
<1> QED
  BY <1>1, <1>2, <1>3 DEF ChannelInv, RecvInv

LEMMA ChannelInvInit ==
  ASSUME ChannelInit PROVE ChannelInv
<1>1. RecvInv
  BY RecvInvInit
<1>2. SendCounts /\ NoneDraining
  <2>1. \A p \in Peers : sent[p] = << >> /\ sendSeq[p] = 0 /\ draining[p] = {}
    BY DEF ChannelInit
  <2> QED
    BY <2>1 DEF SendCounts, NoneDraining
<1>3. DeliveredInOrder
  BY <1>1, <1>2, CountsGiveOrder
<1> QED
  BY <1>1, <1>2, <1>3 DEF ChannelInv, RecvInv

(***************************************************************************)
(* The inductive invariant of the frame layer: while ws.send never         *)
(* suspends, the trackers count the frames, so the relay cannot make       *)
(* recv_frame accept anything but a prefix of what the peer sent.          *)
(***************************************************************************)
THEOREM ChannelInvariant ==
  ASSUME Backpressure = FALSE PROVE ChannelSpec => []ChannelInv
<1>1. ChannelInit => ChannelInv
  BY ChannelInvInit
<1>2. ChannelInv /\ [ChannelNext]_chanVars => ChannelInv'
  BY ChannelInvStep
<1> QED
  BY <1>1, <1>2, PTL DEF ChannelSpec

\* In-order delivery for any relay, any number of faults and of frames.
THEOREM InOrderDelivery ==
  ASSUME Backpressure = FALSE PROVE ChannelSpec => []DeliveredInOrder
<1>1. ChannelInv => DeliveredInOrder
  BY DEF ChannelInv
<1> QED
  BY <1>1, ChannelInvariant, PTL

\* No sequence number, hence no nonce, is used twice in a direction.
THEOREM FreshSequences ==
  ASSUME Backpressure = FALSE PROVE ChannelSpec => []SequencesFresh
<1>1. ChannelInv => SequencesFresh
  <2> SUFFICES ASSUME ChannelInv, NEW p \in Peers,
                      NEW i \in 1..Len(sent[p]), NEW j \in 1..Len(sent[p]),
                      sent[p][i].seq = sent[p][j].seq
               PROVE  i = j
    BY DEF SequencesFresh
  <2>1. sent[p][i].seq = i - 1 /\ sent[p][j].seq = j - 1
    BY DEF ChannelInv, SendCounts
  <2>2. Len(sent[p]) \in Nat
    BY LenProperties DEF ChannelInv, ChannelTypeOK
  <2>3. i - 1 = j - 1
    BY <2>1
  <2>4. i \in Int /\ j \in Int
    BY <2>2
  <2> QED
    BY <2>3, <2>4
<1> QED
  BY <1>1, ChannelInvariant, PTL

-----------------------------------------------------------------------------
(* Refinement of FifoStream.                                               *)

LEMMA ConcatExtends ==
  ASSUME NEW S, NEW s \in Seq(S), NEW t \in Seq(S), Len(t) \in {0, 1}
  PROVE  Stream!ExtendsByOne(s, s \o t)
<1>1. /\ s \o t \in Seq(S) /\ Len(s \o t) = Len(s) + Len(t)
      /\ \A i \in 1..Len(s) + Len(t) : (s \o t)[i] = IF i <= Len(s) THEN s[i] ELSE t[i - Len(s)]
  BY ConcatProperties
<1>2. Len(s) \in Nat /\ \A i \in 1..Len(s) : s[i] \in S
  BY LenProperties
<1>3. \A i \in 1..Len(s) : (s \o t)[i] = s[i]
  BY <1>1, <1>2
<1>4. /\ SubSeq(s \o t, 1, Len(s)) \in Seq(S)
      /\ Len(SubSeq(s \o t, 1, Len(s))) = Len(s)
      /\ \A i \in 1..Len(s) : SubSeq(s \o t, 1, Len(s))[i] = s[i]
  <2> DEFINE u == s \o t
  <2>1. \A i \in 1..Len(s) : u[i] \in S /\ u[i] = s[i]
    BY <1>2, <1>3
  <2> HIDE DEF u
  <2>2. /\ SubSeq(u, 1, Len(s)) \in Seq(S)
        /\ Len(SubSeq(u, 1, Len(s))) = IF 1 <= Len(s) THEN Len(s) - 1 + 1 ELSE 0
        /\ \A i \in 1..Len(s) - 1 + 1 : SubSeq(u, 1, Len(s))[i] = u[1 + i - 1]
    BY <1>2, <2>1, SubSeqProperties
  <2>3. Len(SubSeq(u, 1, Len(s))) = Len(s)
    BY <1>2, <2>2
  <2>4. \A i \in 1..Len(s) : SubSeq(u, 1, Len(s))[i] = s[i]
    <3> SUFFICES ASSUME NEW i \in 1..Len(s) PROVE SubSeq(u, 1, Len(s))[i] = s[i]
      OBVIOUS
    <3>1. i \in 1..Len(s) - 1 + 1 /\ 1 + i - 1 = i
      BY <1>2
    <3> QED
      BY <2>1, <2>2, <3>1
  <2> QED
    BY <2>2, <2>3, <2>4 DEF u
<1>5. SubSeq(s \o t, 1, Len(s)) = s
  BY <1>4, SeqEqual
<1>6. Len(s \o t) \in {Len(s), Len(s) + 1}
  <2>1. Len(s \o t) = Len(s) + Len(t)
    BY <1>1
  <2>2. CASE Len(t) = 0
    BY <1>2, <2>1, <2>2
  <2>3. CASE Len(t) = 1
    BY <2>1, <2>3
  <2> QED
    BY <2>2, <2>3
<1> QED
  BY <1>5, <1>6 DEF Stream!ExtendsByOne

LEMMA TurnIsStreamTurn ==
  ASSUME ChannelInv, DeliveredInOrder', NEW p \in Peers, PlainTurn(p)
  PROVE  Stream!Turn(p)
<1>t. ChannelTypeOK /\ \A q \in Peers : sent[q] \in Seq(Frames) /\ delivered[q] \in Seq(Frames)
  BY DEF ChannelInv, ChannelTypeOK
<1>o. Other(p) \in Peers /\ Other(p) # p /\ Stream!Other(p) = Other(p)
  BY DEF Other, Peers, Stream!Other
<1>1. PICK take \in BOOLEAN, out \in Seq(Frames) :
        Outgoing(p, out) /\ Turn(p, take, out)
  BY DEF PlainTurn
<1>w. Write(p, take, out)
  BY <1>1 DEF Turn
<1>2. sent'[p] = sent[p] \o out /\ sent'[Other(p)] = sent[Other(p)]
  BY <1>t, <1>o, <1>w DEF Write, ChannelTypeOK
<1>3. Stream!ExtendsByOne(sent[p], sent'[p])
  <2>1. Len(out) \in {0, 1}
    <3>1. CASE out = << >>
      BY <3>1
    <3>2. ASSUME NEW f \in Frames, out = <<f>> PROVE Len(out) \in {0, 1}
      BY <3>2
    <3> QED
      BY <1>1, <3>1, <3>2 DEF Outgoing
  <2> QED
    BY <1>t, <1>2, <2>1, ConcatExtends
<1>4. Stream!ExtendsByOne(delivered[p], delivered'[p]) /\ delivered'[Other(p)] = delivered[Other(p)]
  <2>1. CASE ~Taken(p, take)
    <3>1. delivered' = delivered
      BY <1>w, <2>1 DEF Write
    <3>2. << >> \in Seq(Frames) /\ Len(<< >>) \in {0, 1} /\ delivered[p] \o << >> = delivered[p]
      BY <1>t, ConcatEmptySeq
    <3>3. Stream!ExtendsByOne(delivered[p], delivered[p] \o << >>)
      BY <1>t, <3>2, ConcatExtends
    <3> QED
      BY <3>1, <3>2, <3>3
  <2>2. CASE Taken(p, take)
    <3> DEFINE f == Head(wire[Other(p)])
    <3>1. delivered' = [delivered EXCEPT ![p] = Append(@, f)]
      BY <1>w, <2>2 DEF Write
    <3>2. f \in Frames
      <4>1. wire[Other(p)] \in Seq(Frames \cup {Noise}) /\ wire[Other(p)] # << >>
        BY <1>t, <1>o, <1>w, <2>2 DEF Write, Taken, ChannelTypeOK
      <4>2. f \in Frames \cup {Noise}
        BY <4>1, HeadTailProperties
      <4>3. f.from = Other(p)
        BY <2>2 DEF Taken, Accepts
      <4>4. f # Noise
        BY <1>o, <4>3 DEF Noise, Peers
      <4> QED
        BY <4>2, <4>4
    <3> HIDE DEF f
    <3>3. delivered'[p] = Append(delivered[p], f) /\ delivered'[Other(p)] = delivered[Other(p)]
      BY <1>t, <1>o, <3>1 DEF ChannelTypeOK
    <3>4. <<f>> \in Seq(Frames) /\ Len(<<f>>) \in {0, 1} /\ Append(delivered[p], f) = delivered[p] \o <<f>>
      BY <1>t, <3>2, AppendIsConcat
    <3>5. Stream!ExtendsByOne(delivered[p], delivered[p] \o <<f>>)
      BY <1>t, <3>4, ConcatExtends
    <3> QED
      BY <3>3, <3>4, <3>5
  <2> QED
    BY <2>1, <2>2
<1>5. /\ Len(delivered'[p]) <= Len(sent[Other(p)])
      /\ \A i \in 1..Len(delivered'[p]) : delivered'[p][i] = sent[Other(p)][i]
  BY <1>2 DEF DeliveredInOrder
<1> QED
  BY <1>o, <1>2, <1>3, <1>4, <1>5 DEF Stream!Turn

(***************************************************************************)
(* The frame layer implements FifoStream: every step of send_frame,        *)
(* recv_frame and the relay is a turn of the abstract stream or changes    *)
(* nothing of it.                                                          *)
(***************************************************************************)
THEOREM Refinement ==
  ASSUME Backpressure = FALSE PROVE ChannelSpec => ImplementsStream
<1>1. ChannelInit => Stream!Init
  BY DEF ChannelInit, Stream!Init, Stream!Peers, Peers
<1>2. ChannelInv /\ ChannelInv' /\ [ChannelNext]_chanVars => [Stream!Next]_<<sent, delivered>>
  <2> SUFFICES ASSUME ChannelInv, ChannelInv', [ChannelNext]_chanVars
               PROVE  [Stream!Next]_<<sent, delivered>>
    OBVIOUS
  <2>1. ASSUME NEW p \in Peers, PlainTurn(p) PROVE Stream!Next
    BY <2>1, TurnIsStreamTurn DEF ChannelInv, Stream!Next, Stream!Peers, Peers
  <2>2. ASSUME NEW p \in Peers PROVE ~SuspendedTurn(p)
    BY DEF SuspendedTurn, TurnSuspended
  <2>3. ASSUME NEW p \in Peers, NEW k \in Tasks PROVE ~SendResumes(p, k) /\ ~SendCancelled(p, k)
    BY DEF ChannelInv, NoneDraining, SendResumes, SendCancelled
  <2>4. ASSUME NEW p \in Peers, CloseSocket(p) \/ RelayDrops(p) \/ RelayInserts(p)
        PROVE  UNCHANGED <<sent, delivered>>
    BY <2>4 DEF CloseSocket, RelayDrops, RelayInserts
  <2>5. CASE UNCHANGED chanVars
    BY <2>5 DEF chanVars
  <2>6. CASE ChannelNext
    BY <2>1, <2>2, <2>3, <2>4, <2>6, OperationIsTurn DEF ChannelNext, ChannelInv
  <2> QED
    BY <2>5, <2>6
<1> QED
  BY <1>1, <1>2, ChannelInvariant, PTL DEF ChannelSpec, ImplementsStream, Stream!Spec
=============================================================================
