----------------------------- MODULE MCSessions -----------------------------
(***************************************************************************)
(* Model of the four components that make and keep sessions, each by       *)
(* itself: they share no state here, so in a behaviour one of them moves   *)
(* and the others rest in their initial state.                             *)
(***************************************************************************)
EXTENDS ProviderSessions, ConsumerSessions, TrustChannel, Handshake

\* Two sessions of one buyer.
TwoSessions == {[session |-> n, buyer |-> 1] : n \in {1, 2}}

VARIABLE part

MCInit ==
  /\ part \in {"provider", "consumer", "trust", "handshake"}
  /\ Init /\ ConsumerInit /\ TrustInit /\ HsInit
  /\ part # "handshake" => \A a \in Connects : call[a] = CHOOSE c \in TwoSessions : TRUE

MCNext ==
  \/ part = "provider"  /\ Next         /\ UNCHANGED <<consumerVars, trustVars, hsVars, part>>
  \/ part = "consumer"  /\ ConsumerNext /\ UNCHANGED <<vars, trustVars, hsVars, part>>
  \/ part = "trust"     /\ TrustNext    /\ UNCHANGED <<vars, consumerVars, hsVars, part>>
  \/ part = "handshake" /\ HsNext       /\ UNCHANGED <<vars, consumerVars, trustVars, part>>

MCSpec ==
  /\ MCInit /\ [][MCNext]_<<vars, consumerVars, trustVars, hsVars, part>>
  /\ Fairness /\ ConsumerFairness /\ TrustFairness

\* Every task of these components that is to end does: stop() of the provider's
\* handler past its health task, overlapping closes of the consumer's sessions,
\* run() of the trust channel once it is stopped, and every send on it.
TasksEnd == StopCompletes /\ ClosesComplete /\ StopEndsRun /\ SendsEnd
=============================================================================
