----------------------------- MODULE MCRequests -----------------------------
(***************************************************************************)
(* Model of the components that answer the management application's        *)
(* requests and whose requests must end, each by itself: they share no     *)
(* state here, so in a behaviour one of them moves and the others rest in  *)
(* their initial state.                                                    *)
(***************************************************************************)
EXTENDS NodeLifecycle, MarketAccess, Assistant

VARIABLE part

MCInit ==
  /\ part \in {"lifecycle", "market", "assistant"}
  /\ Init /\ MarketInit /\ AssistantInit
  /\ part # "market" => issued = 0

MCNext ==
  \/ part = "lifecycle" /\ Next          /\ UNCHANGED <<marketVars, assistantVars, part>>
  \/ part = "market"    /\ MarketNext    /\ UNCHANGED <<vars, assistantVars, part>>
  \/ part = "assistant" /\ AssistantNext /\ UNCHANGED <<vars, marketVars, part>>

MCSpec ==
  /\ MCInit /\ [][MCNext]_<<vars, marketVars, assistantVars, part>>
  /\ LifecycleFairness /\ MarketFairness /\ AssistantFairness

\* Every request ends: those that start, stop, lock and unlock the node, whatever
\* they overlap; those to the market, whatever it refuses; and the assistant's
\* chats, whatever it proposes.
RequestsAllEnd == RequestsEnd /\ CallsEnd /\ ChatsEnd
=============================================================================
