----------------------------- MODULE FifoStream -----------------------------
(***************************************************************************)
(* What an encrypted relay session promises the two nodes that share it:   *)
(* in each direction the frames a node accepts are the frames its peer     *)
(* sent, in order, each once, with none skipped.  Frames may stay          *)
(* undelivered for ever (the session may break) but nothing else may be    *)
(* delivered in their place.                                               *)
(***************************************************************************)
EXTENDS Naturals, Sequences

VARIABLES sent,       \* sent[p]: the frames p has sent, in order
          delivered   \* delivered[p]: the frames p has accepted, in order

Peers == {"buyer", "provider"}

Other(p) == IF p = "buyer" THEN "provider" ELSE "buyer"

Init ==
  /\ sent = [p \in Peers |-> << >>]
  /\ delivered = [p \in Peers |-> << >>]

\* s2 is s with at most one more element.
ExtendsByOne(s, s2) ==
  /\ Len(s2) \in {Len(s), Len(s) + 1}
  /\ SubSeq(s2, 1, Len(s)) = s

(***************************************************************************)
(* One turn of p: it may accept the next frame of its peer and may send    *)
(* one frame (the answer to the one it accepted, say).                     *)
(***************************************************************************)
Turn(p) ==
  /\ ExtendsByOne(sent[p], sent'[p])
  /\ ExtendsByOne(delivered[p], delivered'[p])
  /\ Len(delivered'[p]) <= Len(sent[Other(p)])
  /\ \A i \in 1..Len(delivered'[p]) : delivered'[p][i] = sent[Other(p)][i]
  /\ sent'[Other(p)] = sent[Other(p)]
  /\ delivered'[Other(p)] = delivered[Other(p)]

Next == \E p \in Peers : Turn(p)

Spec == Init /\ [][Next]_<<sent, delivered>>
=============================================================================
