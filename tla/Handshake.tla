----------------------------- MODULE Handshake -----------------------------
(***************************************************************************)
(* RelayTransport.connect and HandshakeManager: an initiator and a         *)
(* responder exchange HANDSHAKE_INIT and HANDSHAKE_ACCEPT through a relay  *)
(* and derive the traffic keys.  The relay may lose, repeat, delay and     *)
(* misdirect the messages of all the connects it serves.                   *)
(*                                                                         *)
(* A call of connect has its own HandshakeManager and draws one ephemeral  *)
(* key, which is named by the call.  A signature is valid for the fields   *)
(* that were signed, so a message is the call that made it: what an INIT   *)
(* holds is call[b] and stamp[b], what an ACCEPT holds is call[p],         *)
(* stamp[p] and the key of the initiator peer[p].  Time is counted in      *)
(* units of _MAX_CLOCK_SKEW_MS, and the two clocks agree.                  *)
(***************************************************************************)
EXTENDS Naturals

CONSTANTS Initiators, Responders,  \* calls of connect
          HsCalls,                 \* the [session, buyer] they may be made for
          MaxClock,                \* bound on the time
          NoPeer

ASSUME HandshakeAssumption ==
  /\ Initiators \cap Responders = {}
  /\ NoPeer \notin Initiators \cup Responders

Connects == Initiators \cup Responders

VARIABLES call,   \* call[a]: the session, and the buyer's node, of connect a
          dial,   \* dial[a]: where connect is
          mgr,    \* mgr[a]: the HandshakeManager's state
          peer,   \* peer[a]: whose ephemeral key a holds, _peer_eph_public
          stamp,  \* stamp[a]: the time a signed its message
          took,   \* took[b]: history: the time initiator b took its answer
          clock

hsVars == <<call, dial, mgr, peer, stamp, took, clock>>

HsInit ==
  /\ call \in [Connects -> HsCalls]
  /\ dial = [a \in Connects |-> "idle"]
  /\ mgr = [a \in Connects |-> "IDLE"]
  /\ peer = [a \in Connects |-> NoPeer]
  /\ stamp = [a \in Connects |-> 0]
  /\ took = [b \in Initiators |-> 0]
  /\ clock = 0

-----------------------------------------------------------------------------
\* Mutant of Fresh: any earlier time will do.
FreshAnyAge(t) == t <= clock

\* _validate_timestamp
Fresh(t) == clock - t <= 1

\* What verify_init checks of b's INIT: session, node, time and signature.
GenuineInit(p, b) == call[b] = call[p] /\ Fresh(stamp[b])

\* Mutant of GenuineAccept: the initiator's key is not part of what is signed.
GenuineAcceptAnyKey(b, p) ==
  /\ call[p].session = call[b].session
  /\ Fresh(stamp[p])

\* What verify_accept checks of p's ACCEPT: session, time, and the signature,
\* which covers the initiator's own key.
GenuineAccept(b, p) ==
  /\ call[p].session = call[b].session
  /\ peer[p] = b
  /\ Fresh(stamp[p])

-----------------------------------------------------------------------------

\* websockets.connect returns.  An initiator's create_init and send follow.
HsOpen(a) ==
  /\ dial[a] = "idle"
  /\ dial' = [dial EXCEPT ![a] = "receiving"]
  /\ IF a \in Initiators
     THEN /\ mgr' = [mgr EXCEPT ![a] = "INIT_SENT"]
          /\ stamp' = [stamp EXCEPT ![a] = clock]
     ELSE UNCHANGED <<mgr, stamp>>
  /\ UNCHANGED <<call, peer, took, clock>>

\* An exception ends connect.  It leaves the websocket open and the state HANDSHAKING.
Fails(a) == dial' = [dial EXCEPT ![a] = "raised"]

\* websockets.connect raises, the connection breaks, or what comes is no message of
\* the kind that is due: the manager does not see it.
HsBreaks(a) ==
  /\ dial[a] \in {"idle", "receiving", "answering"}
  /\ Fails(a)
  /\ UNCHANGED <<call, mgr, peer, stamp, took, clock>>

\* The responder receives the INIT of b: verify_init, create_accept, and the send
\* begins.  The manager is ESTABLISHED before the ACCEPT is out.
HsAnswer(p, b) ==
  /\ dial[p] = "receiving"
  /\ mgr[b] # "IDLE"
  /\ IF GenuineInit(p, b)
     THEN /\ mgr' = [mgr EXCEPT ![p] = "ESTABLISHED"]
          /\ peer' = [peer EXCEPT ![p] = b]
          /\ stamp' = [stamp EXCEPT ![p] = clock]
          /\ dial' = [dial EXCEPT ![p] = "answering"]
     ELSE /\ mgr' = [mgr EXCEPT ![p] = "FAILED"]
          /\ Fails(p)
          /\ UNCHANGED <<peer, stamp>>
  /\ UNCHANGED <<call, took, clock>>

\* The send of the ACCEPT returns.
HsAnswered(p) ==
  /\ dial[p] = "answering"
  /\ dial' = [dial EXCEPT ![p] = "up"]
  /\ UNCHANGED <<call, mgr, peer, stamp, took, clock>>

\* The initiator receives the ACCEPT of p.
HsFinish(b, p) ==
  /\ dial[b] = "receiving"
  /\ mgr[p] = "ESTABLISHED"
  /\ IF GenuineAccept(b, p)
     THEN /\ mgr' = [mgr EXCEPT ![b] = "ESTABLISHED"]
          /\ peer' = [peer EXCEPT ![b] = p]
          /\ took' = [took EXCEPT ![b] = clock]
          /\ dial' = [dial EXCEPT ![b] = "up"]
     ELSE /\ mgr' = [mgr EXCEPT ![b] = "FAILED"]
          /\ Fails(b)
          /\ UNCHANGED <<peer, took>>
  /\ UNCHANGED <<call, stamp, clock>>

HsTick ==
  /\ clock < MaxClock
  /\ clock' = clock + 1
  /\ UNCHANGED <<call, dial, mgr, peer, stamp, took>>

HsNext ==
  \/ \E a \in Connects : HsOpen(a) \/ HsBreaks(a)
  \/ \E p \in Responders : HsAnswered(p)
  \/ \E b \in Initiators, p \in Responders : HsAnswer(p, b) \/ HsFinish(b, p)
  \/ HsTick

HsSpec == HsInit /\ [][HsNext]_hsVars

-----------------------------------------------------------------------------
(* Properties.                                                             *)

HsTypeOK ==
  /\ call \in [Connects -> HsCalls]
  /\ dial \in [Connects -> {"idle", "receiving", "answering", "up", "raised"}]
  /\ mgr \in [Connects -> {"IDLE", "INIT_SENT", "ESTABLISHED", "FAILED"}]
  /\ peer \in [Connects -> Connects \cup {NoPeer}]
  /\ stamp \in [Connects -> Nat]
  /\ took \in [Initiators -> Nat]
  /\ clock \in Nat

\* The keys _compute_shared_secret_and_keys derives: of the two ephemeral keys and
\* the session.
Keys(a) == <<{a, peer[a]}, call[a].session>>

(***************************************************************************)
(* An initiator whose transport is up shares its keys with one responder,  *)
(* that was made for the same session and for this buyer, and with nobody  *)
(* else: not with the second responder that a repeated INIT has answered,  *)
(* nor with the responder of another session on the same relay.            *)
(***************************************************************************)
KeysPaired ==
  \A b \in Initiators : dial[b] = "up" =>
    /\ peer[b] \in Responders
    /\ call[peer[b]] = call[b]
    /\ {a \in Connects : peer[a] # NoPeer /\ Keys(a) = Keys(b)} = {b, peer[b]}

(***************************************************************************)
(* Nobody answers an old call and nobody takes an old answer: the answer   *)
(* an initiator came up on was signed at most one window of skew after its *)
(* INIT and taken at most one window after that, however long the relay    *)
(* held either message.  The two checks of the time bound the whole        *)
(* exchange: it takes two windows at most.                                 *)
(***************************************************************************)
AnswerRecent ==
  \A b \in Initiators : dial[b] = "up" =>
    /\ stamp[peer[b]] - stamp[b] \in {0, 1}
    /\ took[b] - stamp[peer[b]] \in {0, 1}

(***************************************************************************)
(* A responder's transport is up only over a manager that is ESTABLISHED   *)
(* with the key of an initiator of its session, and a manager that FAILED  *)
(* never holds keys: a refused message leaves nothing to go on with.       *)
(***************************************************************************)
RefusedHoldsNothing ==
  \A a \in Connects :
    /\ mgr[a] = "FAILED" => peer[a] = NoPeer /\ dial[a] = "raised"
    /\ dial[a] = "up" => mgr[a] = "ESTABLISHED" /\ call[peer[a]] = call[a]

\* No connect comes up on a stale answer, or on a message that it refused.
HandshakeSafe == HsTypeOK /\ AnswerRecent /\ RefusedHoldsNothing

\* The pairs of which the initiator is up.
Agreement == INSTANCE KeyAgreement WITH
  Callers <- Initiators, Answerers <- Responders, terms <- call,
  pairs <- {<<b, peer[b]>> : b \in {i \in Initiators : dial[i] = "up"}}

\* The handshake implements KeyAgreement.
ImplementsAgreement == Agreement!Spec
=============================================================================
