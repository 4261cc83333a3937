---------------------------- MODULE KeyAgreement ----------------------------
(***************************************************************************)
(* What the handshake of a relay session promises, seen from the two calls *)
(* of connect: they are paired off, each with at most one of the other     *)
(* side that was made for the same session and the same buyer, and a pair  *)
(* is never undone.                                                        *)
(***************************************************************************)
CONSTANTS Callers, Answerers

VARIABLES terms,  \* terms[a]: the session and the buyer that a was made for
          pairs   \* the pairs of an initiator and a responder that share keys

Init == pairs = {}

Pair(b, p) ==
  /\ terms[b] = terms[p]
  /\ \A q \in pairs : q[1] # b /\ q[2] # p
  /\ pairs' = pairs \cup {<<b, p>>}
  /\ UNCHANGED terms

Next == \E b \in Callers, p \in Answerers : Pair(b, p)

Spec == Init /\ [][Next]_<<terms, pairs>>
=============================================================================
