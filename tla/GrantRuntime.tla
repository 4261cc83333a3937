---------------------------- MODULE GrantRuntime ----------------------------
(***************************************************************************)
(* The gateway's connector runtime: ConnectorRuntime.invoke of gateway_v2/ *)
(* invoke.py.  A call is checked against its grant, counted under the      *)
(* grant in active_per_grant, given the connector's chunks up to its caps, *)
(* and uncounted in a finally clause, which puts back the number it had    *)
(* read before it began.                                                   *)
(*                                                                         *)
(* invoke is synchronous and without a lock: two calls overlap where one   *)
(* is made from the other's chunks, and where they run in two threads.     *)
(* Reading the count and writing it are two steps for that.                *)
(***************************************************************************)
EXTENDS Naturals, Sequences, FiniteSets

CONSTANTS
  Invokes,    \* calls of invoke
  Grants,     \* access grants
  GrantLimit, \* GrantLimit[c]: InvokeLimits.per_grant_concurrency of c's request
  ChunkCap,   \* InvokeLimits.record_cap, or what byte_cap leaves of it
  MaxChunks   \* bound: chunks of one call

ASSUME RuntimeAssumption ==
  /\ IsFiniteSet(Invokes)
  /\ GrantLimit \in [Invokes -> Nat]
  /\ ChunkCap \in Nat /\ MaxChunks \in Nat /\ ChunkCap < MaxChunks

VARIABLES
  counted,  \* active_per_grant
  invoke,   \* [Invokes -> [pc, grant, active, records]]
  \* history
  order,    \* the calls between their count and their end, the last one last,
            \* until crossed
  crossed   \* a call came between a read and a write, or ended before a later one

runtimeVars == <<counted, invoke, order, crossed>>

RuntimeTypeOK ==
  /\ counted \in [Grants -> 0..Cardinality(Invokes)]
  /\ invoke \in [Invokes -> [pc : {"idle", "read", "running", "completed", "refused",
                                   "timed out", "partial"},
                             grant : Grants, active : 0..Cardinality(Invokes),
                             records : 0..MaxChunks]]
  /\ order \in Seq(Invokes) /\ crossed \in BOOLEAN

RuntimeInit ==
  /\ counted = [g \in Grants |-> 0]
  /\ invoke \in [Invokes -> {[pc |-> "idle", grant |-> g, active |-> 0, records |-> 0] : g \in Grants}]
  /\ order = <<>> /\ crossed = FALSE

Of(g) == {c \in Invokes : invoke[c].grant = g /\ invoke[c].pc = "running"}
\* The calls of the same grant that were counted before the i-th one.
Mates(i) == {c \in {order[j] : j \in 1..(i - 1)} : invoke[c].grant = invoke[order[i]].grant}

Reading == \E c \in Invokes : invoke[c].pc = "read"

-----------------------------------------------------------------------------
(***************************************************************************)
(* _validate_grant_binding and the checks after it: a grant that is not    *)
(* active or has expired, a request that differs from it, a revocation, or *)
(* a resume that the connector does not support.                           *)
(***************************************************************************)
NotBound(c) ==
  /\ invoke[c].pc = "idle"
  /\ invoke' = [invoke EXCEPT ![c].pc = "refused"]
  /\ UNCHANGED <<counted, order, crossed>>

\* The limit is the request's own: calls of one grant may bring different ones.
AtLimit(c) == counted[invoke[c].grant] >= GrantLimit[c]

ReadsCount(c) ==
  /\ invoke[c].pc = "idle"
  /\ invoke' = [invoke EXCEPT ![c].pc = IF AtLimit(c) THEN "refused" ELSE "read",
                              ![c].active = counted[invoke[c].grant]]
  /\ crossed' = (crossed \/ Reading)
  /\ UNCHANGED <<counted, order>>

Counts(c) ==
  /\ invoke[c].pc = "read"
  /\ counted' = [counted EXCEPT ![invoke[c].grant] = invoke[c].active + 1]
  /\ invoke' = [invoke EXCEPT ![c].pc = "running"]
  /\ order' = Append(order, c)
  /\ UNCHANGED crossed

\* Mutant of Uncounts: no finally clause.
UncountsNot(c) == UNCHANGED counted

\* The finally clause.
Uncounts(c) == counted' = [counted EXCEPT ![invoke[c].grant] = invoke[c].active]

Ends(c, how) ==
  /\ invoke' = [invoke EXCEPT ![c].pc = how]
  /\ Uncounts(c)
  /\ crossed' = (crossed \/ Reading \/ order[Len(order)] # c)
  /\ order' = IF order[Len(order)] = c THEN SubSeq(order, 1, Len(order) - 1) ELSE order

\* A chunk has come that is over a cap.
OverCap(c) == invoke[c].records + 1 > ChunkCap

(***************************************************************************)
(* A chunk: the wall clock is looked at when one comes, and never between. *)
(***************************************************************************)
Chunk(c) ==
  /\ invoke[c].pc = "running" /\ invoke[c].records < MaxChunks
  /\ \/ Ends(c, "timed out")
     \/ OverCap(c) /\ Ends(c, "partial")
     \/ /\ ~OverCap(c)
        /\ invoke' = [invoke EXCEPT ![c].records = @ + 1]
        /\ UNCHANGED <<counted, order, crossed>>

\* The connector has no more chunks.  If it raises, the call ends as well.
ChunksEnd(c) ==
  /\ invoke[c].pc = "running"
  /\ \E how \in {"completed", "refused"} : Ends(c, how)

RuntimeNext ==
  \E c \in Invokes : NotBound(c) \/ ReadsCount(c) \/ Counts(c) \/ Chunk(c) \/ ChunksEnd(c)

RuntimeSpec == RuntimeInit /\ [][RuntimeNext]_runtimeVars

-----------------------------------------------------------------------------
(***************************************************************************)
(* While calls nest, the count of a grant is the number of its running     *)
(* calls: what a call puts back at its end is right although it read it    *)
(* before the calls inside it came and went.  And each runs inside fewer   *)
(* calls of its grant than its own request allows.                         *)
(***************************************************************************)
NestedCountExact ==
  ~crossed =>
    /\ \A g \in Grants : counted[g] = Cardinality(Of(g))
    /\ \A i \in DOMAIN order : Cardinality(Mates(i)) < GrantLimit[order[i]]

\* The counts of the grants are well formed, and right for nested calls.
RuntimeSafe == RuntimeTypeOK /\ NestedCountExact
=============================================================================
