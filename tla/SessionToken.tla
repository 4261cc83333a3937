---------------------------- MODULE SessionToken ----------------------------
(***************************************************************************)
(* The session token and the CSRF token of the management API:             *)
(* CSRFMiddleware.dispatch in management/middleware.py, on a server bound  *)
(* to a remote address.                                                    *)
(*                                                                         *)
(* The first request from a loopback address makes the session token, and  *)
(* its response brings it as a cookie (and in the body of /health); from   *)
(* then on every request needs it.  A request that may change something    *)
(* needs a loopback origin or the CSRF token that every response brings.   *)
(* A request's handler awaits, so requests overlap.                        *)
(***************************************************************************)
EXTENDS Naturals, FiniteSets

CONSTANTS
  Clients, \* browsers and tools that call the API
  Loopback \* those on this machine

ASSUME ClientsAssumption == Loopback \subseteq Clients

VARIABLES
  made,    \* app.state.session_token is set
  request, \* [Clients -> [pc, safe, origin, mine]]: mine - this one made the token
  bearers, \* the clients that have the session token
  csrf,    \* the clients that have the CSRF token
  \* history
  missing  \* the response with the token was never made

accessVars == <<made, request, bearers, csrf, missing>>

NoRequest == [pc |-> "idle", safe |-> TRUE, origin |-> FALSE, mine |-> FALSE]

AccessTypeOK ==
  /\ made \in BOOLEAN /\ missing \in BOOLEAN
  /\ request \in [Clients -> [pc : {"idle", "sent", "handled"}, safe : BOOLEAN,
                              origin : BOOLEAN, mine : BOOLEAN]]
  /\ bearers \in SUBSET Clients /\ csrf \in SUBSET Clients

AccessInit ==
  /\ made = FALSE /\ missing = FALSE
  /\ request = [c \in Clients |-> NoRequest]
  /\ bearers = {} /\ csrf = {}

\* A client sends a request, with the tokens it has.
RequestSent(c) ==
  /\ request[c].pc = "idle"
  /\ \E safe, origin \in BOOLEAN :
       request' = [request EXCEPT ![c] =
                     [pc |-> "sent", safe |-> safe, origin |-> origin, mine |-> FALSE]]
  /\ UNCHANGED <<made, bearers, csrf, missing>>

\* Mutant of Issues: the first request, from wherever.
IssuesToAll(c) == ~made

Issues(c) == ~made /\ c \in Loopback

Admitted(c) == Issues(c) \/ (made /\ c \in bearers)

\* The check of the origin and the CSRF token.
Trusted(c) == request[c].safe \/ request[c].origin \/ c \in csrf

(***************************************************************************)
(* dispatch up to call_next: the token may have been made before the       *)
(* request is refused for its origin, and the refusal does not bring it.   *)
(***************************************************************************)
Dispatched(c) ==
  /\ request[c].pc = "sent"
  /\ made' = (made \/ Issues(c))
  /\ IF Admitted(c) /\ Trusted(c)
     THEN /\ request' = [request EXCEPT ![c].pc = "handled", ![c].mine = Issues(c)]
          /\ UNCHANGED missing
     ELSE /\ request' = [request EXCEPT ![c] = NoRequest]
          /\ missing' = (missing \/ Issues(c))
  /\ UNCHANGED <<bearers, csrf>>

\* The response, with the CSRF token and for its maker the session token.
Responds(c) ==
  /\ request[c].pc = "handled"
  /\ request' = [request EXCEPT ![c] = NoRequest]
  /\ csrf' = csrf \cup {c}
  /\ bearers' = IF request[c].mine THEN bearers \cup {c} ELSE bearers
  /\ UNCHANGED <<made, missing>>

\* The handler raises, or the response does not arrive.
ResponseLost(c) ==
  /\ request[c].pc = "handled"
  /\ request' = [request EXCEPT ![c] = NoRequest]
  /\ missing' = (missing \/ request[c].mine)
  /\ UNCHANGED <<made, bearers, csrf>>

AccessNext ==
  \E c \in Clients : RequestSent(c) \/ Dispatched(c) \/ Responds(c) \/ ResponseLost(c)

AccessSpec == AccessInit /\ [][AccessNext]_accessVars

-----------------------------------------------------------------------------
(***************************************************************************)
(* The session token is made once and brought to the one client that made  *)
(* it, on this machine, whichever requests overlap; and it is on its way   *)
(* or there unless the first response never was.                           *)
(***************************************************************************)
OneOperator ==
  LET makers == {c \in Clients : request[c].mine}
  IN /\ bearers \cup makers \subseteq Loopback
     /\ Cardinality(bearers \cup makers) <= 1
     /\ made /\ ~missing => bearers \cup makers # {}

\* The session token is one loopback client's, and is not lost but with the
\* response that was to bring it.
AccessSafe == AccessTypeOK /\ OneOperator
=============================================================================
