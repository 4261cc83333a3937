---------------------------- MODULE GatewayCalls ----------------------------
(***************************************************************************)
(* The clients of the gateway (gateway_v2): discover, quote, connect,      *)
(* invoke, meter, receipt, publish and buyer.  Each call is one POST, GET  *)
(* or PATCH, preceded by a check of the request for payload fields, with   *)
(* the idempotency key that the request's metadata may have.               *)
(*                                                                         *)
(* The backend (external) effects a request whose key it has not seen, or  *)
(* that has none.  Its answer may be lost, and the caller (external) then  *)
(* calls again with the same request.  Requests are frozen dataclasses     *)
(* without payload fields of their own, so a payload can only be nested in *)
(* one of their dicts.                                                     *)
(***************************************************************************)
EXTENDS Naturals, FiniteSets

CONSTANTS
  Requests, \* requests of the callers
  MaxTries  \* bound: calls with one request

ASSUME CallsAssumption == MaxTries \in Nat \ {0}

VARIABLES
  ask,     \* [Requests -> [surface, key, nested]]: what is asked
  client,  \* [Requests -> "idle", "posted", "effected", "answered", "lost", "raised"]
  tries,   \* [Requests -> Nat]
  keys,    \* the requests whose key the backend has seen
  effects, \* [Requests -> Nat]: how often the backend has effected one
  drafts   \* LocalPublishDraftCache

callsVars == <<ask, client, tries, keys, effects, drafts>>

\* The surfaces of CLIENT_METHODS, with idempotency_required.
IdempotencyRequired ==
  {"quote", "connect", "invoke", "meter_record", "publish", "request_access",
   "create_billing_session"}
Surfaces == IdempotencyRequired \cup
  {"discover", "meter_list", "receipt_get", "receipt_lookup", "patch_listing",
   "verify_provider", "estimate_cost"}

Asks == [surface : Surfaces, key : BOOLEAN, nested : BOOLEAN]

\* What changes something at the backend.
Writes == IdempotencyRequired \cup {"patch_listing"}

CallsTypeOK ==
  /\ ask \in [Requests -> Asks]
  /\ client \in [Requests -> {"idle", "posted", "effected", "answered", "lost", "raised"}]
  /\ tries \in [Requests -> 0..MaxTries] /\ effects \in [Requests -> 0..MaxTries]
  /\ keys \in SUBSET Requests /\ drafts \in SUBSET Requests

CallsInit ==
  /\ ask \in [Requests -> Asks]
  /\ client = [r \in Requests |-> "idle"]
  /\ tries = [r \in Requests |-> 0] /\ effects = [r \in Requests |-> 0]
  /\ keys = {} /\ drafts = {}

\* Mutant of SendsKey: the buyer's calls are all without.
SendsKeyLess(r) == ask[r].key /\ ask[r].surface \in {"quote", "connect", "publish", "patch_listing"}

\* The calls that send the key there is: quote, connect, invoke, publish and
\* patch always, those of meter and buyer where they change something.
SendsKey(r) == ask[r].key /\ ask[r].surface \in Writes

\* assert_no_payload_deep.  The others look at the request's own fields only.
ChecksNested(r) == ask[r].surface \in {"publish", "patch_listing"}

\* The check raises, or the key that both calls of meter look up is missing.
Raises(r) ==
  \/ ask[r].nested /\ ChecksNested(r)
  \/ ~ask[r].key /\ ask[r].surface \in {"meter_record", "meter_list"}

-----------------------------------------------------------------------------
\* save_draft and delete_draft.
SaveDraft(r) ==
  /\ ask[r].surface = "publish" /\ ~Raises(r) /\ r \notin drafts
  /\ drafts' = drafts \cup {r}
  /\ UNCHANGED <<ask, client, tries, keys, effects>>

DeleteDraft(r) ==
  /\ r \in drafts
  /\ drafts' = drafts \ {r}
  /\ UNCHANGED <<ask, client, tries, keys, effects>>

Call(r) ==
  /\ client[r] \in {"idle", "lost"}
  /\ tries[r] < MaxTries
  /\ client' = [client EXCEPT ![r] = IF Raises(r) THEN "raised" ELSE "posted"]
  /\ tries' = [tries EXCEPT ![r] = @ + 1]
  /\ UNCHANGED <<ask, keys, effects, drafts>>

Handled(r) ==
  /\ client[r] = "posted"
  /\ client' = [client EXCEPT ![r] = "effected"]
  /\ IF ask[r].surface \in Writes /\ ~(SendsKey(r) /\ r \in keys)
     THEN effects' = [effects EXCEPT ![r] = @ + 1]
     ELSE UNCHANGED effects
  /\ keys' = IF SendsKey(r) THEN keys \cup {r} ELSE keys
  /\ UNCHANGED <<ask, tries, drafts>>

\* raise_for_status, and the answer parsed: the backend refused, or answered.
Returns(r) ==
  /\ \/ client[r] = "effected" /\ client' = [client EXCEPT ![r] = "answered"]
     \/ client[r] = "posted" /\ client' = [client EXCEPT ![r] = "raised"]
  /\ UNCHANGED <<ask, tries, keys, effects, drafts>>

\* The request or its answer is lost: the caller cannot tell which.
Breaks(r) ==
  /\ client[r] \in {"posted", "effected"}
  /\ client' = [client EXCEPT ![r] = "lost"]
  /\ UNCHANGED <<ask, tries, keys, effects, drafts>>

CallsNext ==
  \E r \in Requests :
    SaveDraft(r) \/ DeleteDraft(r) \/ Call(r) \/ Handled(r) \/ Returns(r) \/ Breaks(r)

CallsSpec == CallsInit /\ [][CallsNext]_callsVars

-----------------------------------------------------------------------------
\* A call that had a key takes effect once, however often its caller has to
\* repeat it: every surface that changes something sends the key.
KeyedOnce == \A r \in Requests : ask[r].key => effects[r] <= 1

\* No listing, as a draft or published, takes a payload with it.
ListingsCarryNoPayload ==
  \A r \in Requests : ask[r].nested /\ ask[r].surface \in {"publish", "patch_listing"} =>
    r \notin drafts /\ effects[r] = 0

\* A repeated call with a key takes effect once, and no listing that takes
\* effect has a payload in it.
CallsSafe == CallsTypeOK /\ KeyedOnce /\ ListingsCarryNoPayload
=============================================================================
