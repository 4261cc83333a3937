---------------------------- MODULE MarketAccess ----------------------------
(***************************************************************************)
(* MarketplaceFacade, MarketClient._request and AuthService: the requests  *)
(* by which the management routes read the node's tools, through a cache,  *)
(* and change them; the one retry after a 401; and the tokens they share.  *)
(* Several requests run at once, and an answer is on its way for a while.  *)
(*                                                                         *)
(* The market's list of tools is its version.  A token is a number, 0 is   *)
(* none, and the access and the refresh token of one grant have one        *)
(* number.  The token file always holds the tokens that are in memory.     *)
(***************************************************************************)
EXTENDS Naturals, FiniteSets

CONSTANTS Reads, Writes,  \* calls of tools_list; of tools_publish, tool_update, tool_delete
          Ttl,            \* cache_ttl_s
          MaxTime, MaxTokens

ASSUME MarketAssumption ==
  Reads \cap Writes = {} /\ Ttl \in Nat /\ MaxTokens \in Nat \ {0}

Calls == Reads \cup Writes

VARIABLES at,       \* at[r]: where request r is
          cred,     \* cred[r]: the token it carries, 0 for the API key
          retried,  \* the requests in their second attempt, _is_retry
          got,      \* got[r]: the version, or the refresh token, it was answered
          tokens,   \* access_token, refresh_token, and is expires_at ahead?
          cache,    \* what invalidate_cache deletes: a version and when it was set
          clock,
          version,  \* the market's
          applied,  \* applied[w]: how often the market has done w
          honoured, \* the access and the refresh tokens the market takes
          issued,
          acked,    \* the version of the last change whose caller has its answer
          faults

requestVs == <<at, cred, retried, got>>
serverVs == <<version, applied, honoured, issued>>
marketVars == <<requestVs, tokens, cache, clock, serverVs, acked, faults>>

Empty == [version |-> 0, since |-> 0]

MarketInit ==
  /\ at = [r \in Calls |-> "idle"]
  /\ cred = [r \in Calls |-> 0]
  /\ retried = {}
  /\ got = [r \in Calls |-> 0]
  /\ \/ tokens = [access |-> 0, refresh |-> 0, fresh |-> FALSE] /\ issued = 0
     \/ tokens = [access |-> 1, refresh |-> 1, fresh |-> TRUE] /\ issued = 1
  /\ honoured = [access |-> {issued} \ {0}, refresh |-> {issued} \ {0}]
  /\ cache = Empty
  /\ clock = 0
  /\ version = 1
  /\ applied = [w \in Writes |-> 0]
  /\ acked = 0
  /\ faults = {}

-----------------------------------------------------------------------------
(* The node.                                                               *)

Goes(r, place) == at' = [at EXCEPT ![r] = place]

Carries(r, token, place) ==
  /\ cred' = [cred EXCEPT ![r] = token]
  /\ Goes(r, place)

\* get_auth_headers: the API key while there are no tokens, the access token while
\* it is not expired, else first a refresh.
Sends(r) ==
  IF tokens.access = 0 /\ tokens.refresh = 0 THEN Carries(r, 0, "asking")
  ELSE IF tokens.access # 0 /\ tokens.fresh THEN Carries(r, tokens.access, "asking")
  ELSE Carries(r, tokens.refresh, "renewing")

\* _get_cache finds a payload.
Cached == cache # Empty /\ clock <= cache.since + Ttl

\* A read is made again and again.
Call(r) ==
  /\ at[r] = "idle" \/ (r \in Reads /\ at[r] = "ok")
  /\ retried' = retried \ {r}
  /\ IF r \in Reads /\ Cached
     THEN got' = [got EXCEPT ![r] = cache.version] /\ Goes(r, "ok") /\ UNCHANGED cred
     ELSE Sends(r) /\ UNCHANGED got
  /\ UNCHANGED <<tokens, cache, clock, serverVs, acked, faults>>

\* A read is answered: _set_cache, with what may be an old answer by now.
ReadReturns(r) ==
  /\ r \in Reads /\ at[r] = "answered"
  /\ Goes(r, "ok")
  /\ cache' = [version |-> got[r], since |-> clock]
  /\ UNCHANGED <<cred, retried, got, tokens, clock, serverVs, acked, faults>>

\* Mutant of Invalidated: publish leaves the cache.
InvalidatedNot == cache

\* invalidate_cache
Invalidated == Empty

\* A write is answered: invalidate_cache.
WriteReturns(r) ==
  /\ r \in Writes /\ at[r] = "answered"
  /\ Goes(r, "ok")
  /\ cache' = Invalidated
  /\ acked' = IF got[r] > acked THEN got[r] ELSE acked
  /\ faults' = IF \E g \in Reads : at[g] = "answered" THEN faults \cup {"raced"} ELSE faults
  /\ UNCHANGED <<cred, retried, got, tokens, clock, serverVs>>

\* Mutant of Rejected: the request is made again as it was.
RejectedAgain(r) ==
  /\ at[r] = "rejected"
  /\ Goes(r, "asking")
  /\ UNCHANGED <<cred, retried, got, tokens, cache, clock, serverVs, acked, faults>>

\* A 401: one refresh and one more attempt, else the error is the caller's.
Rejected(r) ==
  /\ at[r] = "rejected"
  /\ IF r \notin retried
     THEN Carries(r, tokens.refresh, "renewing") /\ retried' = retried \cup {r}
     ELSE Goes(r, "failed") /\ UNCHANGED <<cred, retried>>
  /\ UNCHANGED <<got, tokens, cache, clock, serverVs, acked, faults>>

\* Mutant of StoredTokens: a new refresh token is not kept.
StoredTokensOld(n, refresh) == [tokens EXCEPT !.access = n, !.fresh = TRUE]

\* _store_tokens: the answer's tokens, or those it had.
StoredTokens(n, refresh) ==
  [access |-> n, refresh |-> IF refresh # 0 THEN refresh ELSE tokens.refresh, fresh |-> TRUE]

\* authenticate or refresh returns; the request goes out with the new token.
TokensArrive(r) ==
  /\ at[r] = "granted"
  /\ tokens' = StoredTokens(cred[r], got[r])
  /\ Goes(r, "asking")
  /\ UNCHANGED <<cred, retried, got, cache, clock, serverVs, acked, faults>>

-----------------------------------------------------------------------------
(* The market and the network.                                             *)

Honours(r) == cred[r] = 0 \/ cred[r] \in honoured.access

\* The market does what r asks, or answers 401 and does nothing.
MarketAnswers(r) ==
  /\ at[r] = "asking"
  /\ IF ~Honours(r) THEN Goes(r, "rejected") /\ UNCHANGED <<got, version, applied>>
     ELSE /\ Goes(r, "answered")
          /\ version' = IF r \in Writes THEN version + 1 ELSE version
          /\ applied' = IF r \in Writes THEN [applied EXCEPT ![r] = @ + 1] ELSE applied
          /\ got' = [got EXCEPT ![r] = version']
  /\ UNCHANGED <<cred, retried, tokens, cache, clock, honoured, issued, acked, faults>>

\* It refuses the API key, for a while.
MarketRejectsKey(r) ==
  /\ at[r] = "asking" /\ cred[r] = 0
  /\ Goes(r, "rejected")
  /\ UNCHANGED <<cred, retried, got, tokens, cache, clock, serverVs, acked, faults>>

\* It grants tokens for the API key, or for a refresh token, which it may replace.
MarketGrants(r) ==
  /\ at[r] = "renewing" /\ issued < MaxTokens
  /\ cred[r] = 0 \/ cred[r] \in honoured.refresh
  /\ issued' = issued + 1
  /\ Carries(r, issued', "granted")
  /\ \E new \in IF cred[r] = 0 THEN {TRUE} ELSE BOOLEAN :
       /\ got' = [got EXCEPT ![r] = IF new THEN issued' ELSE 0]
       /\ honoured' = [access |-> honoured.access \cup {issued'},
                       refresh |-> IF new THEN (honoured.refresh \ {cred[r]}) \cup {issued'}
                                   ELSE honoured.refresh]
  /\ UNCHANGED <<retried, tokens, cache, clock, version, applied, acked, faults>>

\* It refuses a refresh token, and the request is an AUTH_FAILED.  The API key is
\* not tried.
MarketRefuses(r) ==
  /\ at[r] = "renewing" /\ cred[r] # 0 /\ cred[r] \notin honoured.refresh
  /\ Goes(r, "auth_failed")
  /\ UNCHANGED <<cred, retried, got, tokens, cache, clock, serverVs, acked, faults>>

\* What a time-out or an error of the network makes of a request.
Lost(r) == IF at[r] \in {"renewing", "granted"} THEN "auth_failed" ELSE "failed"

NetworkFails(r) ==
  /\ at[r] \in {"asking", "answered", "renewing", "granted"}
  /\ Goes(r, Lost(r))
  /\ faults' = faults \cup (IF at[r] \in {"answered", "granted"} THEN {"lost"} ELSE {})
  /\ UNCHANGED <<cred, retried, got, tokens, cache, clock, serverVs, acked>>

\* The access tokens expire at the market.  expires_at may not say so.
TokensExpire ==
  /\ honoured.access # {}
  /\ honoured' = [honoured EXCEPT !.access = {}]
  /\ \E fresh \in {FALSE, tokens.fresh} : tokens' = [tokens EXCEPT !.fresh = fresh]
  /\ UNCHANGED <<requestVs, cache, clock, version, applied, issued, acked, faults>>

MarketRevokes ==
  /\ honoured.refresh # {}
  /\ honoured' = [access |-> {}, refresh |-> {}]
  /\ faults' = faults \cup {"revoked"}
  /\ UNCHANGED <<requestVs, tokens, cache, clock, version, applied, issued, acked>>

MarketTick ==
  /\ clock < MaxTime
  /\ clock' = clock + 1
  /\ UNCHANGED <<requestVs, tokens, cache, serverVs, acked, faults>>

CallSteps(r) ==
  \/ ReadReturns(r) \/ WriteReturns(r) \/ Rejected(r) \/ TokensArrive(r)
  \/ MarketAnswers(r) \/ MarketGrants(r) \/ MarketRefuses(r) \/ NetworkFails(r)

MarketNext ==
  \/ \E r \in Calls : Call(r) \/ CallSteps(r) \/ MarketRejectsKey(r)
  \/ TokensExpire \/ MarketRevokes \/ MarketTick

MarketSpec == MarketInit /\ [][MarketNext]_marketVars

\* Every await of a request is bounded by the client's timeout.
MarketFairness == \A r \in Calls : WF_marketVars(CallSteps(r))

-----------------------------------------------------------------------------
(* Properties.                                                             *)

MarketTypeOK ==
  /\ at \in [Calls -> {"idle", "asking", "answered", "rejected", "renewing", "granted",
                       "ok", "failed", "auth_failed"}]
  /\ cred \in [Calls -> 0..MaxTokens]
  /\ retried \subseteq Calls
  /\ got \in [Calls -> Nat]
  /\ tokens \in [access : 0..MaxTokens, refresh : 0..MaxTokens, fresh : BOOLEAN]
  /\ cache \in [version : Nat, since : Nat] /\ clock \in Nat
  /\ version \in Nat /\ acked \in Nat /\ applied \in [Writes -> Nat]
  /\ honoured \in [access : SUBSET (1..MaxTokens), refresh : SUBSET (1..MaxTokens)]
  /\ issued \in 0..MaxTokens
  /\ faults \subseteq {"raced", "lost", "revoked"}

(***************************************************************************)
(* The cache never holds a list older than a change the user was told of,  *)
(* unless a read was on its way back when that change was: such a read     *)
(* puts the old list into the cache that was just emptied, and for Ttl the *)
(* tools page shows it.                                                    *)
(***************************************************************************)
CacheFresh ==
  "raced" \notin faults /\ cache # Empty => cache.version >= acked

(***************************************************************************)
(* The market does a change at most once, and exactly once if the user was *)
(* told so, whatever was retried after a 401 and whatever was lost.        *)
(***************************************************************************)
WritesOnce ==
  \A w \in Writes : applied[w] <= 1 /\ (at[w] = "ok" => applied[w] = 1)

(***************************************************************************)
(* The refresh token in memory is one the market takes, however the        *)
(* refreshes of several requests overlap, unless the market revoked it or  *)
(* an answer with the next one was lost; a token of which neither is true  *)
(* would lock the node out, as the API key is never tried again.           *)
(***************************************************************************)
RefreshTokenHonoured ==
  /\ faults \cap {"revoked", "lost"} = {}
  /\ \A r \in Calls : at[r] # "granted"
  /\ tokens.refresh # 0
  => tokens.refresh \in honoured.refresh

\* The retry after a 401 makes no change twice, and overlapping refreshes leave
\* a refresh token that the market still takes.
MarketSafe == MarketTypeOK /\ WritesOnce /\ RefreshTokenHonoured

\* Every request comes to an end: a 401 is not answered by retries for ever.
CallsEnd ==
  \A r \in Calls : at[r] = "asking" ~> at[r] \in {"ok", "failed", "auth_failed"}
=============================================================================
