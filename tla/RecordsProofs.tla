--------------------------- MODULE RecordsProofs ----------------------------
(***************************************************************************)
(* Theorems about the records a node keeps: its session token, the         *)
(* catalogue of tools, the log streams, the metrics, and the setup with    *)
(* the keystores; and about the samples made from the tools' schemas.      *)
(***************************************************************************)
EXTENDS NodeSetup, ToolCatalog, ToolSchema, Metrics, LogStream, SessionToken, Integers,
        SequenceTheorems, FiniteSetTheorems, InductionFacts, TLAPS

-----------------------------------------------------------------------------
(* SessionToken.                                                           *)

\* The clients that have the token, or that will with their response.
Operates(c) == c \in bearers \/ request[c].mine

\* Only a request in its handler is the maker's; a client operates once the token
\* is made, there is one such client, it is on this machine, and there is none only
\* if the first response was lost.
AccessInv ==
  /\ AccessTypeOK
  /\ \A c \in Clients : request[c].mine => request[c].pc = "handled"
  /\ \A c \in Clients : Operates(c) => made /\ c \in Loopback
  /\ \A b, c \in Clients : Operates(b) /\ Operates(c) => b = c
  /\ made /\ ~missing => \E c \in Clients : Operates(c)

\* The invariant is the property: at most one element makes a set of at most one.
LEMMA AccessImplied == AccessInv => AccessSafe
<1> SUFFICES ASSUME AccessInv PROVE AccessSafe
  OBVIOUS
<1> DEFINE operators == bearers \cup {c \in Clients : request[c].mine}
<1>1. operators = {c \in Clients : Operates(c)}
  BY DEF AccessInv, AccessTypeOK, Operates
<1>2. operators \subseteq Loopback /\ (made /\ ~missing => operators # {})
  BY <1>1 DEF AccessInv
<1>3. Cardinality(operators) <= 1
  <2>1. CASE operators = {}
    BY <2>1, FS_EmptySet
  <2>2. CASE operators # {}
    <3>1. PICK c \in operators : TRUE
      BY <2>2
    <3>2. operators = {c}
      BY <1>1, <3>1 DEF AccessInv
    <3> QED
      BY <3>2, FS_Singleton
  <2> QED
    BY <2>1, <2>2
<1> QED
  BY <1>2, <1>3 DEF AccessInv, AccessSafe, OneOperator

\* No request, no token.
LEMMA AccessInitial == AccessInit => AccessInv
<1> SUFFICES ASSUME AccessInit PROVE AccessInv
  OBVIOUS
<1>1. AccessTypeOK
  BY DEF AccessInit, AccessTypeOK, NoRequest
<1>2. ~made /\ \A c \in Clients : ~request[c].mine /\ ~Operates(c)
  BY DEF AccessInit, NoRequest, Operates
<1> QED
  BY <1>1, <1>2 DEF AccessInv

\* A step in which no client begins to operate, and one ceases to only when its
\* response is lost, keeps the invariant.
LEMMA OperatorsKeep ==
  ASSUME AccessInv, AccessTypeOK',
         \A c \in Clients : request'[c].mine => request'[c].pc = "handled",
         made => made', missing => missing',
         \A c \in Clients : Operates(c)' => Operates(c),
         missing' \/ (made' = made /\ \A c \in Clients : Operates(c) => Operates(c)')
  PROVE  AccessInv'
BY DEF AccessInv

\* Every step keeps it.
LEMMA AccessStep == AccessInv /\ [AccessNext]_accessVars => AccessInv'
<1> SUFFICES ASSUME AccessInv, [AccessNext]_accessVars PROVE AccessInv'
  OBVIOUS
<1> USE ClientsAssumption
<1>0. AccessTypeOK
  BY DEF AccessInv
<1>1. CASE UNCHANGED accessVars
  BY <1>1 DEF AccessInv, AccessTypeOK, Operates, accessVars
<1>2. ASSUME NEW c \in Clients, RequestSent(c) PROVE AccessInv'
  <2>1. AccessTypeOK'
    BY <1>0, <1>2 DEF RequestSent, AccessTypeOK
  <2>2. ~request[c].mine /\ ~request'[c].mine
        /\ \A d \in Clients \ {c} : request'[d] = request[d]
    BY <1>0, <1>2 DEF AccessInv, RequestSent, AccessTypeOK
  <2>3. UNCHANGED <<made, bearers, missing>>
    BY <1>2 DEF RequestSent
  <2> QED
    BY <2>1, <2>2, <2>3 DEF AccessInv, Operates
<1>3. ASSUME NEW c \in Clients, Dispatched(c) PROVE AccessInv'
  <2>1. AccessTypeOK'
    <3>1. made' \in BOOLEAN /\ missing' \in BOOLEAN
      BY <1>0, <1>3 DEF Dispatched, AccessTypeOK, Issues
    <3>2. Issues(c) \in BOOLEAN
      BY DEF Issues
    <3>3. request' \in [Clients -> [pc : {"idle", "sent", "handled"}, safe : BOOLEAN,
                                    origin : BOOLEAN, mine : BOOLEAN]]
      <4> DEFINE Type == [pc : {"idle", "sent", "handled"}, safe : BOOLEAN,
                          origin : BOOLEAN, mine : BOOLEAN]
                 new == [request[c] EXCEPT !.pc = "handled", !.mine = Issues(c)]
      <4>1. new \in Type /\ NoRequest \in Type
        BY <1>0, <3>2 DEF AccessTypeOK, NoRequest
      <4>2. request' = [request EXCEPT ![c] = new] \/ request' = [request EXCEPT ![c] = NoRequest]
        BY <1>0, <1>3 DEF Dispatched, AccessTypeOK
      <4> HIDE DEF new
      <4> QED
        BY <1>0, <4>1, <4>2 DEF AccessTypeOK
    <3> QED
      BY <1>0, <1>3, <3>1, <3>3 DEF Dispatched, AccessTypeOK
  <2>2. /\ ~request[c].mine /\ bearers' = bearers
        /\ \A d \in Clients \ {c} : request'[d] = request[d]
        /\ request'[c].mine => Issues(c) /\ request'[c].pc = "handled"
    BY <1>0, <1>3 DEF AccessInv, Dispatched, AccessTypeOK, NoRequest, Issues
  <2>3. CASE Issues(c)
    <3>1. \A d \in Clients : ~Operates(d)
      BY <2>3 DEF Issues, AccessInv
    <3>2. made' /\ (missing' \/ request'[c].mine)
      <4>1. made'
        BY <1>3, <2>3 DEF Dispatched
      <4>2. CASE Trusted(c)
        BY <1>0, <1>3, <2>3, <4>2 DEF Dispatched, AccessTypeOK, Admitted
      <4>3. CASE ~Trusted(c)
        BY <1>3, <2>3, <4>3 DEF Dispatched
      <4> QED
        BY <4>1, <4>2, <4>3
    <3>3. \A d \in Clients : Operates(d)' => d = c /\ request'[c].mine
      BY <2>2, <3>1 DEF Operates
    <3> QED
      BY <2>1, <2>2, <2>3, <3>1, <3>2, <3>3 DEF AccessInv, Operates, Issues
  <2>4. CASE ~Issues(c)
    <3>1. made' = made /\ missing' = missing
      BY <1>0, <1>3, <2>4 DEF Dispatched, AccessTypeOK
    <3> QED
      BY <2>1, <2>2, <2>4, <3>1 DEF AccessInv, Operates
  <2> QED
    BY <2>3, <2>4
<1>4. ASSUME NEW c \in Clients, Responds(c) PROVE AccessInv'
  <2>1. AccessTypeOK'
    BY <1>0, <1>4 DEF Responds, AccessTypeOK, NoRequest
  <2>2. /\ ~request'[c].mine /\ \A d \in Clients \ {c} : request'[d] = request[d]
        /\ bearers' = IF request[c].mine THEN bearers \cup {c} ELSE bearers
        /\ UNCHANGED <<made, missing>>
    BY <1>0, <1>4 DEF Responds, AccessTypeOK, NoRequest
  <2>3. \A d \in Clients : Operates(d)' <=> Operates(d)
    BY <1>0, <2>2 DEF Operates, AccessTypeOK
  <2> QED
    BY <2>1, <2>2, <2>3 DEF AccessInv
<1>5. ASSUME NEW c \in Clients, ResponseLost(c) PROVE AccessInv'
  <2>1. AccessTypeOK'
    BY <1>0, <1>5 DEF ResponseLost, AccessTypeOK, NoRequest
  <2>2. /\ ~request'[c].mine /\ \A d \in Clients \ {c} : request'[d] = request[d]
        /\ missing' = (missing \/ request[c].mine) /\ UNCHANGED <<made, bearers>>
    BY <1>0, <1>5 DEF ResponseLost, AccessTypeOK, NoRequest
  <2>3. \A d \in Clients : Operates(d)' => Operates(d)
    BY <2>2 DEF Operates
  <2>4. ~missing' => \A d \in Clients : Operates(d) => Operates(d)'
    BY <2>2 DEF Operates
  <2> QED
    BY <2>1, <2>2, <2>3, <2>4 DEF AccessInv
<1> QED
  BY <1>1, <1>2, <1>3, <1>4, <1>5 DEF AccessNext

\* The session token is one client's, on this machine, and does not go astray
\* but with the response that was to bring it.
THEOREM AccessStaysSafe == AccessSpec => []AccessSafe
<1>1. AccessSpec => []AccessInv
  BY AccessInitial, AccessStep, PTL DEF AccessSpec
<1> QED
  BY <1>1, AccessImplied, PTL

-----------------------------------------------------------------------------
(* ToolCatalog.                                                            *)

\* The file has what the upstream last said of t.
ToolCurrent(t) ==
  catalog[t].schema # 0 =>
    IF catalog[t].status = "pending" THEN judged[t] = NotJudged
    ELSE judged[t] = [schema |-> catalog[t].schema, verdict |-> catalog[t].status]

\* Requests that never overlapped are in flight one at a time.
OneInFlight ==
  /\ \A r, s \in Scans : InFlight(scan[r].pc) /\ InFlight(scan[s].pc) => r = s
  /\ \A u, v \in Validations : InFlight(valid[u].pc) /\ InFlight(valid[v].pc) => u = v
  /\ \A s \in Scans, v \in Validations : ~(InFlight(scan[s].pc) /\ InFlight(valid[v].pc))

\* A validation in flight judges by the schema that the file still shows, and its
\* verdict, until it is written, is the only thing the file may lack.
CatalogInv ==
  /\ CatalogTypeOK
  /\ ~crossing =>
       /\ OneInFlight
       /\ \A v \in Validations : InFlight(valid[v].pc) =>
            /\ valid[v].schema # 0
            /\ catalog[valid[v].tool].schema = valid[v].schema
       /\ \A v \in Validations : valid[v].pc = "answered" =>
            judged[valid[v].tool] = [schema |-> valid[v].schema, verdict |-> valid[v].verdict]
       /\ \A t \in Tools :
            ToolCurrent(t) \/ \E v \in Validations : valid[v].pc = "answered" /\ valid[v].tool = t

\* With no request in flight the file lacks nothing.
LEMMA CatalogImplied == CatalogInv => CatalogSafe
BY DEF CatalogInv, CatalogSafe, VerdictsCurrent, ToolCurrent, Pending, InFlight

\* The file lists no tool.
LEMMA CatalogInitial == CatalogInit => CatalogInv
<1> SUFFICES ASSUME CatalogInit PROVE CatalogInv
  OBVIOUS
<1>1. {0, 1} \subseteq Revisions /\ 0 \in Revisions
  BY CatalogAssumption DEF Revisions
<1>2. (CHOOSE t \in Tools : TRUE) \in Tools
  BY CatalogAssumption
<1>3. NoScan \in [pc : {"idle", "asked", "answered", "done"}, got : [Tools -> Revisions]]
  BY <1>1 DEF NoScan
<1>4. CatalogTypeOK
  BY <1>1, <1>2, <1>3 DEF CatalogInit, CatalogTypeOK, NotListed, NotJudged, Verdicts
<1>5. /\ \A s \in Scans : ~InFlight(scan[s].pc)
      /\ \A v \in Validations : ~InFlight(valid[v].pc) /\ valid[v].pc # "answered"
      /\ \A t \in Tools : ToolCurrent(t)
  BY DEF CatalogInit, InFlight, NoScan, NotListed, ToolCurrent
<1> QED
  BY <1>4, <1>5 DEF CatalogInv, OneInFlight

\* Every step keeps the file well formed.
LEMMA CatalogTypes == CatalogTypeOK /\ [CatalogNext]_catalogVars => CatalogTypeOK'
<1> SUFFICES ASSUME CatalogTypeOK, [CatalogNext]_catalogVars PROVE CatalogTypeOK'
  OBVIOUS
<1> DEFINE ScanType == [pc : {"idle", "asked", "answered", "done"}, got : [Tools -> Revisions]]
           CallType == [pc : {"idle", "asked", "answered", "done"}, tool : Tools,
                        schema : Revisions, verdict : Verdicts]
<1>0. 0 \in Revisions /\ "failed" \in Verdicts /\ Verdicts \subseteq Verdicts \cup {"pending"}
  BY CatalogAssumption DEF Revisions, Verdicts
<1>1. CASE UNCHANGED catalogVars
  BY <1>1 DEF CatalogTypeOK, catalogVars
<1>2. ASSUME NEW t \in Tools, UpstreamChanges(t) PROVE CatalogTypeOK'
  <2>1. offer' \in [Tools -> Revisions]
    <3>1. \E n \in Revisions : offer' = [offer EXCEPT ![t] = n]
      BY <1>2, CatalogAssumption DEF UpstreamChanges, CatalogTypeOK, Revisions
    <3> QED
      BY <3>1 DEF CatalogTypeOK
  <2> QED
    BY <1>2, <2>1 DEF UpstreamChanges, CatalogTypeOK
<1>3. ASSUME NEW s \in Scans, ScanAsks(s) \/ UpstreamLists(s) \/ ScanWrites(s) \/ ScanFails(s)
      PROVE  CatalogTypeOK'
  <2>1. \A pc \in {"asked", "done"} : [scan[s] EXCEPT !.pc = pc] \in ScanType
    BY DEF CatalogTypeOK
  <2>2. [pc |-> "answered", got |-> offer] \in ScanType
    BY DEF CatalogTypeOK
  <2>3. [NoScan EXCEPT !.pc = "done"] \in ScanType
    BY <1>0 DEF NoScan
  <2>4. \E new \in ScanType : scan' = [scan EXCEPT ![s] = new]
    BY <1>3, <2>1, <2>2, <2>3
      DEF CatalogTypeOK, ScanAsks, UpstreamLists, ScanWrites, ScanFails
  <2>5. scan' \in [Scans -> ScanType]
    BY <2>4 DEF CatalogTypeOK
  <2>6. catalog' \in [Tools -> [schema : Revisions, status : Verdicts \cup {"pending"}]]
    BY <1>3 DEF CatalogTypeOK, ScanAsks, UpstreamLists, ScanWrites, ScanFails, Listed
  <2>7. judged' \in [Tools -> [schema : Revisions, verdict : Verdicts]]
    BY <1>0, <1>3
      DEF CatalogTypeOK, ScanAsks, UpstreamLists, ScanWrites, ScanFails, NotJudged
  <2>8. crossing' \in BOOLEAN /\ UNCHANGED <<offer, sound, valid>>
    BY <1>3 DEF CatalogTypeOK, ScanAsks, UpstreamLists, ScanWrites, ScanFails, Pending
  <2> QED
    BY <2>5, <2>6, <2>7, <2>8 DEF CatalogTypeOK
<1>4. ASSUME NEW v \in Validations, NEW t \in Tools, ToolCalled(v, t) PROVE CatalogTypeOK'
  <2> DEFINE new == [pc |-> IF catalog[t].schema = 0 THEN "done" ELSE "asked",
                     tool |-> t, schema |-> catalog[t].schema, verdict |-> "failed"]
  <2>1. new \in CallType
    BY <1>0 DEF CatalogTypeOK
  <2>2. valid' \in [Validations -> CallType]
    BY <1>4, <2>1 DEF ToolCalled, CatalogTypeOK
  <2>3. crossing' \in BOOLEAN
    BY <1>4 DEF ToolCalled, CatalogTypeOK, Pending
  <2> QED
    BY <1>4, <2>2, <2>3 DEF ToolCalled, CatalogTypeOK
<1>5. ASSUME NEW v \in Validations, UpstreamRuns(v) PROVE CatalogTypeOK'
  <2>1. PICK verdict \in Verdicts :
          /\ valid' = [valid EXCEPT ![v] = [valid[v] EXCEPT !.pc = "answered", !.verdict = verdict]]
          /\ judged' = [judged EXCEPT ![valid[v].tool] =
                          [schema |-> valid[v].schema, verdict |-> verdict]]
    BY <1>5 DEF UpstreamRuns, CatalogTypeOK, Verdicts
  <2>0. valid[v] \in CallType
    BY DEF CatalogTypeOK
  <2>2. [valid[v] EXCEPT !.pc = "answered", !.verdict = verdict] \in CallType
    BY <2>0
  <2>3. /\ valid' \in [Validations -> CallType]
        /\ judged' \in [Tools -> [schema : Revisions, verdict : Verdicts]]
    BY <2>1, <2>2 DEF CatalogTypeOK
  <2> QED
    BY <1>5, <2>3 DEF UpstreamRuns, CatalogTypeOK
<1>6. ASSUME NEW v \in Validations, ValidationWrites(v) PROVE CatalogTypeOK'
  <2>0. valid[v] \in CallType
    BY DEF CatalogTypeOK
  <2>1. [valid[v] EXCEPT !.pc = "done", !.schema = 0, !.verdict = "failed"] \in CallType
    BY <1>0, <2>0
  <2>2. valid' = [valid EXCEPT ![v] = [valid[v] EXCEPT !.pc = "done", !.schema = 0, !.verdict = "failed"]]
    BY <1>6 DEF ValidationWrites, CatalogTypeOK
  <2>3. valid' \in [Validations -> CallType]
    BY <2>1, <2>2 DEF CatalogTypeOK
  <2>4. catalog' \in [Tools -> [schema : Revisions, status : Verdicts \cup {"pending"}]]
    BY <1>6 DEF ValidationWrites, Judged, CatalogTypeOK
  <2> QED
    BY <1>6, <2>3, <2>4 DEF ValidationWrites, CatalogTypeOK
<1>7. ASSUME NEW v \in Validations, ValidationFails(v) PROVE CatalogTypeOK'
  <2>0. valid[v] \in CallType
    BY DEF CatalogTypeOK
  <2>1. [valid[v] EXCEPT !.pc = "done", !.schema = 0] \in CallType
    BY <1>0, <2>0
  <2>2. valid' = [valid EXCEPT ![v] = [valid[v] EXCEPT !.pc = "done", !.schema = 0]]
    BY <1>7 DEF ValidationFails, CatalogTypeOK
  <2>3. valid' \in [Validations -> CallType]
    BY <2>1, <2>2 DEF CatalogTypeOK
  <2> QED
    BY <1>7, <2>3 DEF ValidationFails, CatalogTypeOK
<1> QED
  BY <1>1, <1>2, <1>3, <1>4, <1>5, <1>6, <1>7 DEF CatalogNext

\* Every step keeps the invariant.
LEMMA CatalogStep == CatalogInv /\ [CatalogNext]_catalogVars => CatalogInv'
<1> SUFFICES ASSUME CatalogInv, [CatalogNext]_catalogVars, ~crossing' PROVE CatalogInv'
  BY CatalogTypes DEF CatalogInv
<1>0. CatalogTypeOK /\ CatalogTypeOK'
  BY CatalogTypes DEF CatalogInv
<1>1. CASE UNCHANGED catalogVars
  BY <1>0, <1>1 DEF CatalogInv, OneInFlight, ToolCurrent, catalogVars
<1>2. ASSUME NEW t \in Tools, UpstreamChanges(t) PROVE CatalogInv'
  BY <1>0, <1>2 DEF UpstreamChanges, CatalogInv, OneInFlight, ToolCurrent
\* A request for the list begins when no other is in flight.
<1>3. ASSUME NEW s \in Scans, ScanAsks(s) PROVE CatalogInv'
  <2>1. ~crossing /\ ~Pending
    BY <1>0, <1>3 DEF ScanAsks, CatalogTypeOK
  <2>2. /\ \A r \in Scans \ {s} : scan'[r] = scan[r]
        /\ UNCHANGED <<catalog, valid, judged>>
    BY <1>3 DEF ScanAsks
  <2> QED
    BY <1>0, <2>1, <2>2 DEF CatalogInv, OneInFlight, ToolCurrent, Pending
\* While the list is awaited or written no validation is in flight.
<1>4. ASSUME NEW s \in Scans, UpstreamLists(s) \/ ScanFails(s) PROVE CatalogInv'
  <2>1. /\ ~crossing /\ InFlight(scan[s].pc)
        /\ \A r \in Scans : InFlight(scan'[r].pc) => InFlight(scan[r].pc)
        /\ UNCHANGED <<catalog, valid, judged>>
    BY <1>0, <1>4 DEF UpstreamLists, ScanFails, CatalogTypeOK, InFlight
  <2> QED
    BY <1>0, <2>1 DEF CatalogInv, OneInFlight, ToolCurrent
<1>5. ASSUME NEW s \in Scans, ScanWrites(s) PROVE CatalogInv'
  <2>1. /\ ~crossing /\ InFlight(scan[s].pc)
        /\ \A r \in Scans : InFlight(scan'[r].pc) => InFlight(scan[r].pc)
        /\ valid' = valid
    BY <1>0, <1>5 DEF ScanWrites, CatalogTypeOK, InFlight, NoScan
  <2>2. \A v \in Validations : ~InFlight(valid'[v].pc) /\ valid'[v].pc # "answered"
    BY <2>1 DEF CatalogInv, OneInFlight, InFlight
  <2>3. \A t \in Tools : ToolCurrent(t)'
    BY <1>5 DEF ScanWrites, Listed, ToolCurrent
  <2> QED
    BY <1>0, <2>1, <2>2, <2>3 DEF CatalogInv, OneInFlight
\* A tool is looked up and called when no other request is in flight, or it is
\* not there to be called.
<1>6. ASSUME NEW v \in Validations, NEW t \in Tools, ToolCalled(v, t) PROVE CatalogInv'
  <2>1. /\ ~crossing /\ (catalog[t].schema = 0 \/ ~Pending)
        /\ UNCHANGED <<catalog, scan, judged>>
        /\ valid[v].pc = "idle" /\ valid'[v].tool = t /\ valid'[v].schema = catalog[t].schema
        /\ valid'[v].pc = IF catalog[t].schema = 0 THEN "done" ELSE "asked"
        /\ \A u \in Validations \ {v} : valid'[u] = valid[u]
    BY <1>0, <1>6 DEF ToolCalled, CatalogTypeOK
  <2> QED
    BY <1>0, <2>1 DEF CatalogInv, OneInFlight, ToolCurrent, Pending, InFlight
\* The verdict and the history of the verdicts are one.
<1>7. ASSUME NEW v \in Validations, UpstreamRuns(v) PROVE CatalogInv'
  <2>1. /\ ~crossing /\ UNCHANGED <<catalog, scan>> /\ valid[v].pc = "asked"
        /\ valid'[v].pc = "answered" /\ valid'[v].tool = valid[v].tool
        /\ valid'[v].schema = valid[v].schema
        /\ judged'[valid[v].tool] = [schema |-> valid'[v].schema, verdict |-> valid'[v].verdict]
        /\ \A u \in Validations \ {v} : valid'[u] = valid[u]
        /\ \A t \in Tools \ {valid[v].tool} : judged'[t] = judged[t]
    BY <1>0, <1>7 DEF UpstreamRuns, CatalogTypeOK
  <2>2. \A u \in Validations \ {v} : ~InFlight(valid[u].pc) /\ valid[u].pc # "answered"
    BY <2>1 DEF CatalogInv, OneInFlight, InFlight
  <2>3. OneInFlight'
    BY <2>1, <2>2 DEF CatalogInv, OneInFlight, InFlight
  <2>4. \A t \in Tools : ToolCurrent(t)' \/ t = valid[v].tool
    BY <2>1, <2>2 DEF CatalogInv, ToolCurrent
  <2> QED
    BY <1>0, <2>1, <2>2, <2>3, <2>4 DEF CatalogInv, InFlight
\* It is written beside the schema it was about.
<1>8. ASSUME NEW v \in Validations, ValidationWrites(v) PROVE CatalogInv'
  <2>0. PICK t \in Tools : t = valid[v].tool
    BY <1>0 DEF CatalogTypeOK
  <2>1. /\ ~crossing /\ UNCHANGED <<scan, judged>> /\ valid[v].pc = "answered"
        /\ valid'[v].pc = "done" /\ valid'[v].tool = t
        /\ \A u \in Validations \ {v} : valid'[u] = valid[u]
    BY <1>0, <1>8, <2>0 DEF ValidationWrites, CatalogTypeOK
  <2>2. \A u \in Validations \ {v} : ~InFlight(valid[u].pc) /\ valid[u].pc # "answered"
    BY <2>1 DEF CatalogInv, OneInFlight, InFlight
  <2>3. /\ catalog[t].schema = valid[v].schema /\ valid[v].schema # 0
        /\ judged[t] = [schema |-> valid[v].schema, verdict |-> valid[v].verdict]
        /\ valid[v].verdict \in Verdicts
    BY <1>0, <2>0, <2>1 DEF CatalogInv, InFlight, CatalogTypeOK
  <2>4. /\ catalog'[t].schema = valid[v].schema /\ catalog'[t].status = valid[v].verdict
        /\ \A w \in Tools \ {t} : catalog'[w] = catalog[w]
    BY <1>0, <1>8, <2>0, <2>1, <2>3 DEF ValidationWrites, Judged, CatalogTypeOK
  <2>5. ToolCurrent(t)'
    BY <2>1, <2>3, <2>4 DEF ToolCurrent, Verdicts
  <2>6. \A w \in Tools \ {t} : ToolCurrent(w)'
    BY <2>0, <2>1, <2>2, <2>4 DEF CatalogInv, ToolCurrent
  <2>7. OneInFlight'
    BY <2>1, <2>2 DEF CatalogInv, OneInFlight, InFlight
  <2> QED
    BY <1>0, <2>1, <2>2, <2>5, <2>6, <2>7 DEF CatalogInv, InFlight
<1>9. ASSUME NEW v \in Validations, ValidationFails(v) PROVE CatalogInv'
  <2>1. /\ ~crossing /\ UNCHANGED <<catalog, scan, judged>> /\ valid[v].pc = "asked"
        /\ valid'[v].pc = "done" /\ \A u \in Validations \ {v} : valid'[u] = valid[u]
    BY <1>0, <1>9 DEF ValidationFails, CatalogTypeOK
  <2> QED
    BY <1>0, <2>1 DEF CatalogInv, OneInFlight, ToolCurrent, InFlight
<1> QED
  BY <1>1, <1>2, <1>3, <1>4, <1>5, <1>6, <1>7, <1>8, <1>9 DEF CatalogNext

\* The catalogue is well formed, and the verdicts of requests that did not overlap
\* are on the schemas it shows.
THEOREM CatalogStaysSafe == CatalogSpec => []CatalogSafe
<1>1. CatalogSpec => []CatalogInv
  BY CatalogInitial, CatalogStep, PTL DEF CatalogSpec
<1> QED
  BY <1>1, CatalogImplied, PTL

-----------------------------------------------------------------------------
(* LogStream.                                                              *)

\* A stream that has not begun has nothing, and one holds an entry while it sends.
StreamInv ==
  /\ StreamTypeOK
  /\ \A s \in Streams : first[s] \in 0..logged /\ missed[s] \subseteq 1..logged
  /\ \A s \in Streams : stream[s] = "idle" =>
       s \notin subs /\ feed[s] = <<>> /\ received[s] = <<>> /\ missed[s] = {}
  /\ \A s \in Streams : stream[s] = "sending" => holds[s] # 0
  /\ \A s \in Streams : stream[s] \in {"idle", "accepting", "waiting"} => holds[s] = 0
  /\ StreamsFaithful /\ SubscribersLive

\* A number greater than those listed is listed at the end.
LEMMA AppendLists ==
  ASSUME NEW entries \in Seq(Nat), NEW wanted, Lists(entries, wanted),
         NEW e \in Nat, \A n \in wanted : n < e
  PROVE  Lists(Append(entries, e), wanted \cup {e})
<1> DEFINE longer == Append(entries, e)
<1>1. /\ Len(entries) \in Nat /\ DOMAIN entries = 1..Len(entries)
      /\ \A k \in 1..Len(entries) : entries[k] \in wanted
  BY LenProperties DEF Lists
<1>2. /\ longer \in Seq(Nat) /\ Len(longer) = Len(entries) + 1
      /\ \A k \in 1..Len(entries) : longer[k] = entries[k]
      /\ longer[Len(entries) + 1] = e
  BY AppendProperties
<1>3. DOMAIN longer = 1..(Len(entries) + 1)
  BY <1>2, LenProperties
<1> HIDE DEF longer
<1>4. \A j, k \in DOMAIN longer : j < k => longer[j] < longer[k]
  <2> SUFFICES ASSUME NEW j \in DOMAIN longer, NEW k \in DOMAIN longer, j < k
               PROVE  longer[j] < longer[k]
    OBVIOUS
  <2>1. j \in 1..Len(entries)
    BY <1>1, <1>3
  <2>2. CASE k \in 1..Len(entries)
    BY <1>1, <1>2, <2>1, <2>2 DEF Lists
  <2>3. CASE k = Len(entries) + 1
    BY <1>1, <1>2, <2>1, <2>3
  <2> QED
    BY <1>1, <1>3, <2>2, <2>3
<1>5. {longer[k] : k \in DOMAIN longer} = wanted \cup {e}
  <2>1. {longer[k] : k \in DOMAIN longer} = {longer[k] : k \in 1..Len(entries)} \cup {e}
    BY <1>1, <1>2, <1>3
  <2>2. {longer[k] : k \in 1..Len(entries)} = {entries[k] : k \in 1..Len(entries)}
    BY <1>2
  <2> QED
    BY <1>1, <2>1, <2>2 DEF Lists
<1> QED
  BY <1>4, <1>5 DEF Lists, longer

\* What is appended to the end is appended to the whole.
LEMMA AppendOutside ==
  ASSUME NEW S, NEW s \in Seq(S), NEW t \in Seq(S), NEW e \in S
  PROVE  s \o Append(t, e) = Append(s \o t, e)
<1>1. <<e>> \in Seq(S)
  OBVIOUS
<1>2. PICK u : u = <<e>>
  OBVIOUS
<1>3. u \in Seq(S)
  BY <1>1, <1>2
<1>4. Append(t, e) = t \o u /\ Append(s \o t, e) = (s \o t) \o u
  BY <1>2, AppendIsConcat, ConcatProperties
<1>5. (s \o t) \o u = s \o (t \o u)
  BY <1>3, ConcatAssociative
<1> QED
  BY <1>4, <1>5

\* The head of the second sequence may be at the end of the first.
LEMMA HeadPassesOn ==
  ASSUME NEW S, NEW s \in Seq(S), NEW t \in Seq(S), t # <<>>
  PROVE  Append(s, Head(t)) \o Tail(t) = s \o t
<1>1. Head(t) \in S /\ Tail(t) \in Seq(S) /\ <<Head(t)>> \in Seq(S)
  BY HeadTailProperties
<1>2. PICK u : u = <<Head(t)>>
  OBVIOUS
<1>3. u \in Seq(S)
  BY <1>1, <1>2
<1>4. Append(s, Head(t)) = s \o u /\ u \o Tail(t) = t
  BY <1>1, <1>2, AppendIsConcat
<1>5. (s \o u) \o Tail(t) = s \o (u \o Tail(t))
  BY <1>1, <1>3, ConcatAssociative
<1> QED
  BY <1>4, <1>5

\* The empty sequence lists nothing.
LEMMA EmptyLists == Lists(<<>> \o <<>>, {})
<1>1. <<>> \o <<>> = <<>>
  BY EmptySeq, ConcatEmptySeq
<1> QED
  BY <1>1 DEF Lists

\* No stream has begun.
LEMMA StreamInitial == StreamInit => StreamInv
<1> SUFFICES ASSUME StreamInit PROVE StreamInv
  OBVIOUS
<1>1. StreamTypeOK
  BY StreamAssumption DEF StreamInit, StreamTypeOK
<1>2. StreamsFaithful /\ SubscribersLive
  BY DEF StreamInit, StreamsFaithful, SubscribersLive
<1> QED
  BY <1>1, <1>2 DEF StreamInit, StreamInv

\* Every step keeps the types, the ring and the queues their sizes.
LEMMA StreamTypes == StreamInv /\ [StreamNext]_streamVars => StreamTypeOK'
<1> SUFFICES ASSUME StreamInv, [StreamNext]_streamVars PROVE StreamTypeOK'
  OBVIOUS
<1>0. StreamTypeOK
  BY DEF StreamInv
<1>b. /\ logged \in Nat /\ (logged < MaxLogged => logged + 1 \in Logs)
      /\ \A s \in Streams : Len(feed[s]) \in Nat /\ Len(feed[s]) <= QueueSize
      /\ QueueSize \in Nat \ {0} /\ RingSize \in Nat \ {0}
  <2>1. logged \in Logs \cup {0} /\ MaxLogged \in Nat
    BY <1>0, StreamAssumption DEF StreamTypeOK
  <2>2. logged \in Nat /\ (logged < MaxLogged => logged + 1 \in Logs)
    BY <2>1 DEF Logs
  <2>3. \A s \in Streams : Len(feed[s]) \in Nat /\ Len(feed[s]) <= QueueSize
    BY <1>0, LenProperties DEF StreamTypeOK
  <2> QED
    BY <2>2, <2>3, StreamAssumption
<1>1. CASE UNCHANGED streamVars
  BY <1>0, <1>1 DEF StreamTypeOK, streamVars
<1>2. CASE Emit
  <2>1. logged + 1 \in Logs /\ logged' = logged + 1
    BY <1>b, <1>2 DEF Emit
  <2>2. ring' \in Seq(Logs) /\ Len(ring') <= RingSize
    <3> DEFINE longer == Append(ring, logged + 1)
    <3>1. longer \in Seq(Logs) /\ longer # <<>> /\ Len(longer) = Len(ring) + 1
      <4>1. ring \in Seq(Logs)
        BY <1>0 DEF StreamTypeOK
      <4> QED
        BY <2>1, <4>1, AppendProperties
    <3>2. Tail(longer) \in Seq(Logs) /\ Len(Tail(longer)) = Len(ring)
      <4>1. Tail(longer) \in Seq(Logs) /\ Len(Tail(longer)) = Len(longer) - 1
        BY <3>1, HeadTailProperties
      <4>2. Len(ring) \in Nat
        BY <1>0, LenProperties DEF StreamTypeOK
      <4> QED
        BY <3>1, <4>1, <4>2
    <3>3. ring' = Ringed(longer) /\ Len(ring) <= RingSize /\ Len(ring) \in Nat
      BY <1>0, <1>2, LenProperties DEF Emit, StreamTypeOK
    <3> HIDE DEF longer
    <3>4. CASE Len(longer) > RingSize
      BY <3>2, <3>3, <3>4 DEF Ringed
    <3>5. CASE ~(Len(longer) > RingSize)
      <4>1. Len(ring) + 1 <= RingSize
        BY <1>b, <3>1, <3>3, <3>5
      <4> QED
        BY <3>1, <3>3, <3>5, <4>1 DEF Ringed
    <3> QED
      BY <3>4, <3>5
  <2>3. /\ feed' \in [Streams -> Seq(Logs)]
        /\ \A s \in Streams : Len(feed'[s]) <= QueueSize
    <3>1. \A s \in Streams :
            /\ Append(feed[s], logged + 1) \in Seq(Logs)
            /\ Len(Append(feed[s], logged + 1)) = Len(feed[s]) + 1
            /\ Len(feed[s]) \in Nat
      <4>1. \A s \in Streams : feed[s] \in Seq(Logs)
        BY <1>0 DEF StreamTypeOK
      <4> QED
        BY <2>1, <4>1, AppendProperties, LenProperties
    <3>2. feed' = [s \in Streams |-> IF s \in subs /\ ~NoRoom(s)
                                     THEN Append(feed[s], logged + 1) ELSE feed[s]]
      BY <1>0, <1>2 DEF Emit
    <3>3. \A s \in Streams : feed[s] \in Seq(Logs) /\ (~NoRoom(s) => Len(feed[s]) + 1 <= QueueSize)
      <4>1. \A s \in Streams : feed[s] \in Seq(Logs)
        BY <1>0 DEF StreamTypeOK
      <4>2. \A s \in Streams : ~NoRoom(s) => Len(feed[s]) + 1 <= QueueSize
        BY <1>b DEF NoRoom
      <4> QED
        BY <4>1, <4>2
    <3>4. \A s \in Streams :
            /\ feed'[s] \in Seq(Logs)
            /\ Len(feed'[s]) <= QueueSize
      BY <1>b, <3>1, <3>2, <3>3
    <3> QED
      BY <3>2, <3>4
  <2>4. logged' \in Logs \cup {0} /\ UNCHANGED <<subs, stream, holds, received, first>>
    BY <1>2, <2>1 DEF Emit
  <2>5. missed' \in [Streams -> SUBSET Logs]
    BY <1>0, <1>2, <2>1 DEF Emit, StreamTypeOK
  <2> QED
    BY <1>0, <2>2, <2>3, <2>4, <2>5 DEF StreamTypeOK
<1>3. ASSUME NEW s \in Streams, Subscribe(s) \/ AcceptFails(s) \/ AcceptReturns(s) \/ StreamEnds(s)
      PROVE  StreamTypeOK'
  <2>1. /\ subs' \in SUBSET Streams
        /\ \E pc \in {"idle", "accepting", "waiting", "sending", "ended", "not accepted"} :
             stream' = [stream EXCEPT ![s] = pc]
        /\ first' \in [Streams -> Logs \cup {0}]
        /\ UNCHANGED <<ring, feed, holds, logged, received, missed>>
    BY <1>0, <1>3 DEF Subscribe, AcceptFails, AcceptReturns, StreamEnds, Unsubscribed, StreamTypeOK
  <2> QED
    BY <1>0, <2>1 DEF StreamTypeOK
<1>4. ASSUME NEW s \in Streams, GetReturns(s) PROVE StreamTypeOK'
  <2>1. /\ Head(feed[s]) \in Logs /\ Tail(feed[s]) \in Seq(Logs)
        /\ Len(Tail(feed[s])) <= QueueSize
    <3>1. feed[s] \in Seq(Logs) /\ feed[s] # <<>> /\ Len(feed[s]) <= QueueSize
      BY <1>0, <1>4 DEF GetReturns, StreamTypeOK
    <3>2. Len(feed[s]) \in Nat
      BY <3>1, LenProperties
    <3>3. /\ Head(feed[s]) \in Logs /\ Tail(feed[s]) \in Seq(Logs)
          /\ Len(Tail(feed[s])) = Len(feed[s]) - 1
      BY <3>1, HeadTailProperties
    <3> QED
      BY <1>b, <3>1, <3>2, <3>3
  <2>2. holds' \in [Streams -> Logs \cup {0}]
    BY <1>0, <1>4, <2>1 DEF GetReturns, Taken1, StreamTypeOK
  <2>3. /\ feed' \in [Streams -> Seq(Logs)]
        /\ \A r \in Streams : Len(feed'[r]) <= QueueSize
    BY <1>0, <1>4, <2>1 DEF GetReturns, StreamTypeOK
  <2>4. stream' \in [Streams -> {"idle", "accepting", "waiting", "sending", "ended", "not accepted"}]
    BY <1>0, <1>4 DEF GetReturns, StreamTypeOK
  <2> QED
    BY <1>0, <1>4, <2>2, <2>3, <2>4 DEF GetReturns, StreamTypeOK
<1>5. ASSUME NEW s \in Streams, SendJson(s) PROVE StreamTypeOK'
  <2>1. holds[s] \in Logs
    BY <1>0, <1>5 DEF SendJson, StreamInv, StreamTypeOK
  <2>2. Append(received[s], holds[s]) \in Seq(Logs)
    BY <1>0, <2>1, AppendProperties DEF StreamTypeOK
  <2>3. received' \in [Streams -> Seq(Logs)]
    BY <1>0, <1>5, <2>2 DEF SendJson, StreamTypeOK
  <2>4. /\ stream' \in [Streams -> {"idle", "accepting", "waiting", "sending", "ended", "not accepted"}]
        /\ holds' \in [Streams -> Logs \cup {0}]
    BY <1>0, <1>5 DEF SendJson, StreamTypeOK
  <2> QED
    BY <1>0, <1>5, <2>3, <2>4 DEF SendJson, StreamTypeOK
<1> QED
  BY <1>1, <1>2, <1>3, <1>4, <1>5 DEF StreamNext

\* A step in which the streams keep what they are promised keeps the property.
LEMMA PromisesKept ==
  ASSUME StreamInv, UNCHANGED <<logged, missed>>,
         \A s \in subs' : s \in subs /\ Promised(s)' = Promised(s) /\ first'[s] = first[s]
  PROVE  StreamsFaithful'
<1>1. \A s \in subs' : Lists(Promised(s), ((first[s] + 1)..logged) \ missed[s])
  BY DEF StreamInv, StreamsFaithful
<1> QED
  BY <1>1 DEF StreamsFaithful, Lists

\* Every step keeps the invariant.
LEMMA StreamStep == StreamInv /\ [StreamNext]_streamVars => StreamInv'
<1> SUFFICES ASSUME StreamInv, [StreamNext]_streamVars PROVE StreamInv'
  OBVIOUS
<1>0. StreamTypeOK /\ StreamTypeOK'
  BY StreamTypes DEF StreamInv
<1>b. /\ logged \in Nat /\ (logged < MaxLogged => logged + 1 \in Logs)
      /\ \A s \in Streams : Len(feed[s]) \in Nat /\ Len(feed[s]) <= QueueSize
      /\ QueueSize \in Nat \ {0} /\ RingSize \in Nat \ {0}
  <2>1. logged \in Logs \cup {0} /\ MaxLogged \in Nat
    BY <1>0, StreamAssumption DEF StreamTypeOK
  <2>2. logged \in Nat /\ (logged < MaxLogged => logged + 1 \in Logs)
    BY <2>1 DEF Logs
  <2>3. \A s \in Streams : Len(feed[s]) \in Nat /\ Len(feed[s]) <= QueueSize
    BY <1>0, LenProperties DEF StreamTypeOK
  <2> QED
    BY <2>2, <2>3, StreamAssumption
<1>1. CASE UNCHANGED streamVars
  <2>1. StreamsFaithful'
    BY <1>1, PromisesKept DEF streamVars, Promised
  <2> QED
    BY <1>0, <1>1, <2>1 DEF StreamInv, SubscribersLive, streamVars
\* A new entry is the greatest: a queue with room for it has it at its end, and
\* one without room has missed it.
<1>2. CASE Emit
  <2> DEFINE e == logged + 1
             Wanted(s) == ((first[s] + 1)..logged) \ missed[s]
  <2>0. e \in Logs /\ e \in Nat
    BY <1>b, <1>2 DEF Emit
  <2>1. /\ logged' = e
        /\ UNCHANGED <<subs, stream, holds, received, first>>
        /\ \A s \in Streams : feed'[s] = IF s \in subs /\ ~NoRoom(s) THEN Append(feed[s], e) ELSE feed[s]
        /\ \A s \in Streams : missed'[s] = IF s \in subs /\ Len(feed[s]) = QueueSize
                                           THEN missed[s] \cup {e} ELSE missed[s]
    BY <1>2 DEF Emit
  <2>2. ASSUME NEW s \in subs
        PROVE  Lists(Promised(s)', ((first'[s] + 1)..logged') \ missed'[s])
    <3> DEFINE sent == IF holds[s] = 0 THEN received[s] ELSE Append(received[s], holds[s])
    <3>1. /\ s \in Streams /\ first[s] \in 0..logged /\ missed[s] \subseteq 1..logged
          /\ logged \in Nat /\ Len(feed[s]) \in Nat /\ Len(feed[s]) <= QueueSize
          /\ feed[s] \in Seq(Nat) /\ sent \in Seq(Nat)
      <4>1. s \in Streams
        BY <1>0 DEF StreamTypeOK
      <4>2. feed[s] \in Seq(Logs) /\ received[s] \in Seq(Logs) /\ holds[s] \in Nat
        <5>1. feed[s] \in Seq(Logs) /\ received[s] \in Seq(Logs) /\ holds[s] \in Logs \cup {0}
          BY <1>0, <4>1 DEF StreamTypeOK
        <5>2. Logs \cup {0} \subseteq Nat
          BY DEF Logs
        <5> QED
          BY <5>1, <5>2
      <4>3. feed[s] \in Seq(Nat) /\ received[s] \in Seq(Nat)
        <5>1. Logs \subseteq Nat
          BY DEF Logs
        <5> QED
          BY <4>2, <5>1, SeqMonotonic
      <4>4. sent \in Seq(Nat)
        BY <4>2, <4>3, AppendProperties
      <4> QED
        BY <1>b, <4>1, <4>3, <4>4 DEF StreamInv
    <3>2. Lists(Promised(s), Wanted(s)) /\ Promised(s) = sent \o feed[s]
      BY DEF StreamInv, StreamsFaithful, Promised
    <3>3. Promised(s) \in Seq(Nat)
      BY <3>1, <3>2, ConcatProperties
    <3>4. CASE Len(feed[s]) = QueueSize
      <4>1. feed'[s] = feed[s] /\ missed'[s] = missed[s] \cup {e}
        BY <2>1, <3>1, <3>4 DEF NoRoom
      <4>2. ((first'[s] + 1)..logged') \ missed'[s] = Wanted(s)
        BY <2>1, <3>1, <4>1
      <4>3. Promised(s)' = Promised(s)
        BY <2>1, <4>1 DEF Promised
      <4> QED
        BY <3>2, <4>2, <4>3
    <3>5. CASE Len(feed[s]) # QueueSize
      <4>1. feed'[s] = Append(feed[s], e) /\ missed'[s] = missed[s]
        <5>1. ~NoRoom(s)
          BY <1>b, <3>1, <3>5 DEF NoRoom
        <5> QED
          BY <2>1, <3>1, <3>5, <5>1
      <4>2. ((first'[s] + 1)..logged') \ missed'[s] = Wanted(s) \cup {e}
        BY <2>1, <3>1, <4>1
      <4>3. Promised(s)' = Append(Promised(s), e)
        <5>1. Promised(s)' = sent \o feed'[s]
          BY <2>1 DEF Promised
        <5>2. e \in Nat /\ sent \in Seq(Nat) /\ feed[s] \in Seq(Nat)
          BY <2>0, <3>1
        <5> HIDE DEF sent, e
        <5>3. sent \o Append(feed[s], e) = Append(sent \o feed[s], e)
          BY <5>2, AppendOutside
        <5> QED
          BY <3>2, <4>1, <5>1, <5>3
      <4>4. e \in Nat /\ \A n \in Wanted(s) : n < e
        BY <3>1
      <4>5. Lists(Append(Promised(s), e), Wanted(s) \cup {e})
        <5>1. Lists(Promised(s), Wanted(s))
          BY <3>2
        <5> HIDE DEF e, Wanted
        <5> QED
          BY <3>3, <4>4, <5>1, AppendLists
      <4> QED
        BY <4>2, <4>3, <4>5
    <3> QED
      BY <3>4, <3>5
  <2>3. StreamsFaithful'
    BY <2>1, <2>2 DEF StreamsFaithful
  <2>4. \A s \in Streams : first'[s] \in 0..logged' /\ missed'[s] \subseteq 1..logged'
    <3>1. \A s \in Streams : first[s] \in 0..logged /\ missed[s] \subseteq 1..logged
      BY DEF StreamInv
    <3>2. \A s \in Streams : missed'[s] \subseteq missed[s] \cup {e} /\ first'[s] = first[s]
      BY <2>1
    <3>3. 0..logged \subseteq 0..logged' /\ 1..logged \subseteq 1..logged' /\ e \in 1..logged'
      BY <1>b, <2>1
    <3> HIDE DEF e
    <3> QED
      BY <3>1, <3>2, <3>3
  <2>5. \A s \in Streams : s \notin subs => feed'[s] = feed[s] /\ missed'[s] = missed[s]
    BY <2>1
  <2> HIDE DEF e
  <2> QED
    BY <1>0, <2>1, <2>3, <2>4, <2>5 DEF StreamInv, SubscribersLive
\* A stream begins with nothing, and is promised what comes from now on.
<1>3. ASSUME NEW s \in Streams, Subscribe(s) PROVE StreamInv'
  <2>1. /\ stream[s] = "idle" /\ subs' = subs \cup {s} /\ stream'[s] = "accepting"
        /\ first'[s] = logged
        /\ \A r \in Streams \ {s} : stream'[r] = stream[r] /\ first'[r] = first[r]
        /\ UNCHANGED <<ring, feed, holds, logged, received, missed>>
    BY <1>0, <1>3 DEF Subscribe, StreamTypeOK
  <2>2. logged \in Nat /\ first'[s] \in 0..logged
    BY <1>b, <2>1
  <2>3. Lists(Promised(s)', ((first'[s] + 1)..logged') \ missed'[s])
    <3>1. Promised(s)' = <<>> \o <<>>
      BY <2>1 DEF StreamInv, Promised
    <3>2. ((first'[s] + 1)..logged') \ missed'[s] = {}
      BY <2>1, <2>2
    <3> QED
      BY <3>1, <3>2, EmptyLists
  <2>4. ASSUME NEW r \in subs \ {s}
        PROVE  Lists(Promised(r)', ((first'[r] + 1)..logged') \ missed'[r])
    <3>1. Promised(r)' = Promised(r) /\ first'[r] = first[r] /\ r \in Streams
      BY <1>0, <2>1 DEF Promised, StreamTypeOK
    <3> QED
      BY <2>1, <3>1 DEF StreamInv, StreamsFaithful
  <2>5. StreamsFaithful'
    BY <2>1, <2>3, <2>4 DEF StreamsFaithful
  <2>7. \A r \in Streams : first'[r] \in 0..logged' /\ missed'[r] \subseteq 1..logged'
    BY <2>1, <2>2 DEF StreamInv
  <2>8. /\ \A r \in Streams : stream'[r] = "sending" => holds'[r] # 0
        /\ \A r \in Streams : stream'[r] \in {"idle", "accepting", "waiting"} => holds'[r] = 0
        /\ \A r \in Streams : stream'[r] = "idle" =>
             r \notin subs' /\ feed'[r] = <<>> /\ received'[r] = <<>> /\ missed'[r] = {}
    BY <2>1, <2>2 DEF StreamInv
  <2>9. SubscribersLive'
    BY <1>0, <2>1 DEF StreamInv, SubscribersLive, StreamTypeOK
  <2> QED
    BY <1>0, <2>5, <2>7, <2>8, <2>9 DEF StreamInv
<1>4. ASSUME NEW s \in Streams, AcceptFails(s) \/ AcceptReturns(s) \/ StreamEnds(s)
      PROVE  StreamInv'
  <2>1. /\ stream[s] \in {"accepting", "sending", "waiting"}
        /\ stream'[s] \in {"not accepted", "waiting", "ended"}
        /\ stream'[s] = "waiting" => stream[s] = "accepting"
        /\ \A r \in Streams \ {s} : stream'[r] = stream[r]
        /\ subs' \subseteq subs /\ (stream'[s] = "ended" => s \notin subs')
        /\ UNCHANGED <<feed, holds, logged, received, first, missed>>
    BY <1>0, <1>4
      DEF AcceptFails, AcceptReturns, StreamEnds, Unsubscribed, StreamTypeOK
  <2>2. \A r \in subs' : Promised(r)' = Promised(r)
    BY <2>1 DEF Promised
  <2>3. StreamsFaithful'
    BY <2>1, <2>2, PromisesKept
  <2> QED
    BY <1>0, <2>1, <2>3 DEF StreamInv, SubscribersLive, StreamTypeOK
\* The head of the queue is what is sent.
<1>5. ASSUME NEW s \in Streams, GetReturns(s) PROVE StreamInv'
  <2>1. /\ stream[s] = "waiting" /\ feed[s] # <<>> /\ holds'[s] = Head(feed[s])
        /\ feed'[s] = Tail(feed[s]) /\ stream'[s] = "sending"
        /\ \A r \in Streams \ {s} : /\ holds'[r] = holds[r] /\ feed'[r] = feed[r]
                                    /\ stream'[r] = stream[r]
        /\ UNCHANGED <<subs, logged, received, first, missed>>
    BY <1>0, <1>5 DEF GetReturns, Taken1, StreamTypeOK
  <2>2. /\ feed[s] \in Seq(Logs) /\ received[s] \in Seq(Logs) /\ holds[s] = 0
        /\ Head(feed[s]) \in Logs /\ Tail(feed[s]) \in Seq(Logs)
    BY <1>0, <2>1, HeadTailProperties DEF StreamInv, StreamTypeOK
  <2>3. 0 \notin Logs
    BY DEF Logs
  <2>4. Promised(s)' = Promised(s)
    <3>1. Promised(s)' = Append(received[s], Head(feed[s])) \o Tail(feed[s])
      BY <2>1, <2>2, <2>3 DEF Promised
    <3>2. Promised(s) = received[s] \o feed[s]
      BY <2>2 DEF Promised
    <3> QED
      BY <2>1, <2>2, <3>1, <3>2, HeadPassesOn
  <2>5. \A r \in subs : Promised(r)' = Promised(r)
    BY <1>0, <2>1, <2>4 DEF Promised, StreamTypeOK
  <2>6. StreamsFaithful'
    BY <2>1, <2>5, PromisesKept
  <2>7. \A r \in Streams : first'[r] \in 0..logged' /\ missed'[r] \subseteq 1..logged'
    BY <2>1, <2>2 DEF StreamInv
  <2>8. /\ \A r \in Streams : stream'[r] = "sending" => holds'[r] # 0
        /\ \A r \in Streams : stream'[r] \in {"idle", "accepting", "waiting"} => holds'[r] = 0
        /\ \A r \in Streams : stream'[r] = "idle" =>
             r \notin subs' /\ feed'[r] = <<>> /\ received'[r] = <<>> /\ missed'[r] = {}
    BY <2>1, <2>2, <2>3 DEF StreamInv
  <2>9. SubscribersLive'
    BY <1>0, <2>1 DEF StreamInv, SubscribersLive, StreamTypeOK
  <2> QED
    BY <1>0, <2>6, <2>7, <2>8, <2>9 DEF StreamInv
\* It is received after all that was.
<1>6. ASSUME NEW s \in Streams, SendJson(s) PROVE StreamInv'
  <2>1. /\ stream[s] = "sending" /\ received'[s] = Append(received[s], holds[s])
        /\ holds'[s] = 0 /\ stream'[s] = "waiting"
        /\ \A r \in Streams \ {s} : /\ holds'[r] = holds[r] /\ received'[r] = received[r]
                                    /\ stream'[r] = stream[r]
        /\ UNCHANGED <<subs, logged, feed, first, missed>>
    BY <1>0, <1>6 DEF SendJson, StreamTypeOK
  <2>2. /\ feed[s] \in Seq(Logs) /\ received[s] \in Seq(Logs)
        /\ holds[s] # 0 /\ holds[s] \in Logs
    BY <1>0, <2>1 DEF StreamInv, StreamTypeOK
  <2>3. Promised(s)' = Promised(s)
    BY <2>1, <2>2 DEF Promised
  <2>4. \A r \in subs : Promised(r)' = Promised(r)
    BY <1>0, <2>1, <2>3 DEF Promised, StreamTypeOK
  <2>5. StreamsFaithful'
    BY <2>1, <2>4, PromisesKept
  <2>7. \A r \in Streams : first'[r] \in 0..logged' /\ missed'[r] \subseteq 1..logged'
    BY <2>1, <2>2 DEF StreamInv
  <2>8. /\ \A r \in Streams : stream'[r] = "sending" => holds'[r] # 0
        /\ \A r \in Streams : stream'[r] \in {"idle", "accepting", "waiting"} => holds'[r] = 0
        /\ \A r \in Streams : stream'[r] = "idle" =>
             r \notin subs' /\ feed'[r] = <<>> /\ received'[r] = <<>> /\ missed'[r] = {}
    BY <2>1, <2>2 DEF StreamInv
  <2>9. SubscribersLive'
    BY <1>0, <2>1 DEF StreamInv, SubscribersLive, StreamTypeOK
  <2> QED
    BY <1>0, <2>5, <2>7, <2>8, <2>9 DEF StreamInv
<1> QED
  BY <1>1, <1>2, <1>3, <1>4, <1>5, <1>6 DEF StreamNext

\* Every client receives the entries in order, without those it had no room for,
\* and a stream that is over is fed no more.
THEOREM StreamsStaySafe == StreamSpec => []StreamsSafe
<1>1. StreamInv => StreamsSafe
  BY DEF StreamInv, StreamsSafe
<1>2. StreamSpec => []StreamInv
  BY StreamInitial, StreamStep, PTL DEF StreamSpec
<1> QED
  BY <1>1, <1>2, PTL

-----------------------------------------------------------------------------
(* Metrics.                                                                *)

\* A series is in the order of time, up to now, until the clock is set back; no
\* bucket has more errors than calls or more calls than there were.
SeriesInOrder(buckets) ==
  /\ ~back => \A j, k \in DOMAIN buckets : j < k => buckets[j].slot < buckets[k].slot
  /\ \A k \in DOMAIN buckets : /\ ~back => buckets[k].slot <= slot
                               /\ buckets[k].errors <= buckets[k].calls
                               /\ buckets[k].calls <= ever

\* So are those on the disk; the total counts no call twice.
MetricsInv ==
  /\ MetricsTypeOK
  /\ aged \in [mem : Int, disk : Int]
  /\ SeriesInOrder(series) /\ SeriesInOrder(disk.series)
  /\ totals.errors <= totals.calls /\ totals.calls <= ever
  /\ disk.totals.errors <= disk.totals.calls /\ disk.totals.calls <= ever
  /\ HistoriesAgree /\ StoppedIsSaved

\* The invariant has the property.
LEMMA MetricsImplied == MetricsInv => MetricsSafe
BY DEF MetricsInv, MetricsSafe, SeriesInOrder, BucketsInOrder

\* The calls of a series are finitely many.
LEMMA CallsCounted ==
  ASSUME NEW buckets \in Seq(Buckets)
  PROVE  /\ CallsOf(buckets) \in Nat
         /\ IsFiniteSet({c \in (DOMAIN buckets) \X (1..MaxCounted) : c[2] <= buckets[c[1]].calls})
<1> DEFINE pairs == (DOMAIN buckets) \X (1..MaxCounted)
           calls == {c \in pairs : c[2] <= buckets[c[1]].calls}
<1>1. IsFiniteSet(DOMAIN buckets)
  <2>1. DOMAIN buckets = 1..Len(buckets) /\ Len(buckets) \in Int /\ 1 \in Int
    BY LenProperties
  <2> QED
    BY <2>1, FS_Interval
<1>2. IsFiniteSet(1..MaxCounted)
  BY MetricsAssumption, FS_Interval
<1>3. IsFiniteSet(pairs)
  BY <1>1, <1>2, FS_Product
<1>4. calls \in SUBSET pairs
  OBVIOUS
<1>5. IsFiniteSet(calls)
  BY <1>3, <1>4, FS_Subset
<1> QED
  BY <1>5, FS_CardinalityType DEF CallsOf

\* One more call in the last bucket is one more call in the series.
LEMMA OneMoreCall ==
  ASSUME NEW buckets \in Seq(Buckets), buckets # <<>>, NEW bucket \in Buckets,
         bucket.calls = buckets[Len(buckets)].calls + 1
  PROVE  CallsOf([buckets EXCEPT ![Len(buckets)] = bucket]) = CallsOf(buckets) + 1
<1> DEFINE m == Len(buckets)
           next == [buckets EXCEPT ![m] = bucket]
           calls == {c \in (DOMAIN buckets) \X (1..MaxCounted) : c[2] <= buckets[c[1]].calls}
           more == {c \in (DOMAIN next) \X (1..MaxCounted) : c[2] <= next[c[1]].calls}
<1>1. /\ m \in DOMAIN buckets /\ DOMAIN next = DOMAIN buckets /\ next[m] = bucket
      /\ \A k \in DOMAIN buckets : k # m => next[k] = buckets[k]
  <2>1. DOMAIN buckets = 1..m /\ m \in Nat /\ m # 0
    BY LenProperties, EmptySeq
  <2> QED
    BY <2>1
<1>2. bucket.calls \in 1..MaxCounted /\ \A k \in DOMAIN buckets : buckets[k].calls \in 0..MaxCounted
  <2>1. \A k \in DOMAIN buckets : buckets[k] \in Buckets
    BY ElementOfSeq, LenProperties
  <2>2. bucket.calls \in 0..MaxCounted /\ \A k \in DOMAIN buckets : buckets[k].calls \in 0..MaxCounted
    BY <2>1 DEF Buckets
  <2>3. buckets[m].calls \in 0..MaxCounted
    BY <1>1, <2>2
  <2> QED
    BY <2>2, <2>3, MetricsAssumption
<1>3. PICK last : last = <<m, bucket.calls>>
  OBVIOUS
<1>4. last \in (DOMAIN buckets) \X (1..MaxCounted) /\ last[1] = m /\ last[2] = bucket.calls
  BY <1>1, <1>2, <1>3
<1>5. ASSUME NEW c \in (DOMAIN buckets) \X (1..MaxCounted)
      PROVE  c \in more <=> c \in calls \/ c = last
  <2>1. c = <<c[1], c[2]>> /\ c[1] \in DOMAIN buckets /\ c[2] \in 1..MaxCounted
    OBVIOUS
  <2>2. CASE c[1] # m
    BY <1>1, <1>4, <2>1, <2>2
  <2>3. CASE c[1] = m
    <3>1. c = last <=> c[2] = bucket.calls
      BY <1>3, <2>1, <2>3
    <3>2. c \in more <=> c[2] <= bucket.calls
      BY <1>1, <2>1, <2>3
    <3>3. c \in calls <=> c[2] <= buckets[m].calls
      BY <2>1, <2>3
    <3>4. buckets[m].calls \in Nat /\ c[2] \in Nat /\ bucket.calls = buckets[m].calls + 1
      BY <1>1, <1>2, <2>1
    <3>5. c[2] <= bucket.calls <=> c[2] <= buckets[m].calls \/ c[2] = bucket.calls
      BY <3>4
    <3> QED
      BY <3>1, <3>2, <3>3, <3>5
  <2> QED
    BY <2>2, <2>3
<1>6. more = calls \cup {last} /\ last \notin calls
  <2>1. more \subseteq (DOMAIN buckets) \X (1..MaxCounted)
    BY <1>1
  <2>2. last \notin calls
    <3>1. buckets[m].calls \in Nat
      BY <1>1, <1>2
    <3> QED
      BY <1>4, <3>1
  <2> QED
    BY <1>4, <1>5, <2>1, <2>2
<1>7. IsFiniteSet(calls)
  BY CallsCounted
<1>8. Cardinality(more) = Cardinality(calls) + 1
  <2> HIDE DEF more, calls
  <2> QED
    BY <1>6, <1>7, FS_AddElement
<1> QED
  BY <1>8 DEF CallsOf

\* No request has been counted.
LEMMA MetricsInitial == MetricsInit => MetricsInv
<1> SUFFICES ASSUME MetricsInit PROVE MetricsInv
  OBVIOUS
<1>1. None0 \in Counting /\ <<>> \in Seq(Buckets) /\ 0 \in 0..MaxSlot /\ 0 \in 0..MaxCounted
  BY MetricsAssumption DEF None0, Counting
<1>2. Len(<<>>) = 0 /\ 0 <= MaxBuckets
  BY MetricsAssumption
<1>3. MetricsTypeOK
  BY <1>1, <1>2 DEF MetricsInit, MetricsTypeOK
<1>4. CallsOf(<<>>) = 0
  <2>1. {c \in (DOMAIN <<>>) \X (1..MaxCounted) : c[2] <= <<>>[c[1]].calls} = {}
    OBVIOUS
  <2> QED
    BY <2>1, FS_EmptySet DEF CallsOf
<1>5. HistoriesAgree
  BY <1>4 DEF MetricsInit, HistoriesAgree, None0
<1>6. SeriesInOrder(<<>>)
  BY DEF SeriesInOrder
<1>7. StoppedIsSaved
  BY DEF MetricsInit, StoppedIsSaved
<1>8. aged \in [mem : Int, disk : Int]
  BY DEF MetricsInit
<1> QED
  BY <1>3, <1>5, <1>6, <1>7, <1>8 DEF MetricsInit, MetricsInv, None0

\* The fields of a bucket.
LEMMA BucketFields ==
  ASSUME NEW bucket \in Buckets
  PROVE  /\ bucket.slot \in Nat /\ bucket.calls \in Nat /\ bucket.errors \in Nat
         /\ bucket.calls <= MaxCounted
BY MetricsAssumption DEF Buckets

\* The series to count in ends in a bucket of now.
LEMMA CurrentFacts ==
  ASSUME MetricsInv
  PROVE  /\ Current \in Seq(Buckets) /\ Current # <<>> /\ Len(Current) <= MaxBuckets
         /\ SeriesInOrder(Current)
<1> DEFINE new == [slot |-> slot, calls |-> 0, errors |-> 0]
           longer == Append(series, new)
<1>0. /\ series \in Seq(Buckets) /\ Len(series) <= MaxBuckets /\ SeriesInOrder(series)
      /\ slot \in 0..MaxSlot /\ ever \in 0..MaxCounted
  BY DEF MetricsInv, MetricsTypeOK
<1>1. /\ new \in Buckets /\ slot \in Nat /\ ever \in Nat /\ MaxBuckets \in Nat /\ MaxBuckets # 0
      /\ 0 <= slot /\ 0 <= ever
  BY <1>0, MetricsAssumption DEF Buckets
<1>2. Len(series) \in Nat /\ DOMAIN series = 1..Len(series)
  BY <1>0, LenProperties
<1>3. CASE series # <<>> /\ series[Len(series)].slot = slot
  BY <1>0, <1>3 DEF Current
<1>4. CASE ~(series # <<>> /\ series[Len(series)].slot = slot)
  <2>1. /\ longer \in Seq(Buckets) /\ longer # <<>> /\ Len(longer) = Len(series) + 1
        /\ \A k \in 1..Len(series) : longer[k] = series[k]
        /\ longer[Len(series) + 1] = new
    BY <1>0, <1>1, AppendProperties
  <2>2. DOMAIN longer = 1..Len(longer)
    BY <2>1, LenProperties
  <2>3. new.slot = slot /\ new.calls = 0 /\ new.errors = 0
    OBVIOUS
  <2>4. Current = IF Len(longer) > MaxBuckets THEN Tail(longer) ELSE longer
    BY <1>4 DEF Current
  <2>5. \A k \in 1..Len(series) : /\ series[k].slot \in Nat /\ (~back => series[k].slot < slot)
                                  /\ series[k].errors <= series[k].calls
                                  /\ series[k].calls <= ever
    <3>1. \A k \in 1..Len(series) : series[k] \in Buckets
      BY <1>0, ElementOfSeq
    <3>2. \A k \in 1..Len(series) : series[k].slot \in Nat
      BY <3>1, BucketFields
    <3>3. SUFFICES ASSUME NEW k \in 1..Len(series), ~back PROVE series[k].slot < slot
      BY <1>0, <1>2, <3>2 DEF SeriesInOrder
    <3>4. series # <<>> /\ Len(series) \in 1..Len(series)
      BY <1>2
    <3>5. series[Len(series)].slot < slot
      BY <1>0, <1>1, <1>2, <1>4, <3>2, <3>3, <3>4 DEF SeriesInOrder
    <3>6. CASE k < Len(series)
      BY <1>0, <1>1, <1>2, <3>2, <3>3, <3>4, <3>5, <3>6 DEF SeriesInOrder
    <3>7. CASE k = Len(series)
      BY <3>5, <3>7
    <3>8. \A m \in Nat : \A j \in 1..m : j < m \/ j = m
      OBVIOUS
    <3>9. k < Len(series) \/ k = Len(series)
      BY <1>2, <3>8, Zenon
    <3> QED
      BY <3>6, <3>7, <3>9, Zenon
  <2> HIDE DEF longer, new
  <2>6. SeriesInOrder(longer)
    <3>1. ASSUME ~back, NEW j \in DOMAIN longer, NEW k \in DOMAIN longer, j < k
          PROVE  longer[j].slot < longer[k].slot
      <4>1. j \in 1..Len(series)
        BY <1>2, <2>1, <2>2, <3>1
      <4>2. CASE k \in 1..Len(series)
        BY <1>0, <1>2, <2>1, <3>1, <4>1, <4>2 DEF SeriesInOrder
      <4>3. CASE k = Len(series) + 1
        BY <2>1, <2>3, <2>5, <3>1, <4>1, <4>3
      <4> QED
        BY <1>2, <2>1, <2>2, <4>2, <4>3
    <3>2. ASSUME NEW k \in DOMAIN longer
          PROVE  /\ (~back => longer[k].slot <= slot) /\ longer[k].errors <= longer[k].calls
                 /\ longer[k].calls <= ever
      <4>1. CASE k \in 1..Len(series)
        BY <1>1, <2>1, <2>5, <4>1
      <4>2. CASE k = Len(series) + 1
        BY <1>1, <2>1, <2>3, <4>2
      <4> QED
        BY <1>2, <2>1, <2>2, <4>1, <4>2
    <3> QED
      BY <3>1, <3>2 DEF SeriesInOrder
  <2>7. CASE Len(longer) > MaxBuckets
    <3> DEFINE tail == Tail(longer)
    <3>1. /\ tail \in Seq(Buckets) /\ Len(tail) = Len(series)
          /\ \A k \in 1..Len(tail) : tail[k] = longer[k + 1]
      <4>1. /\ tail \in Seq(Buckets) /\ Len(tail) = Len(longer) - 1
            /\ \A k \in 1..Len(tail) : tail[k] = longer[k + 1]
        BY <2>1, HeadTailProperties
      <4> QED
        BY <1>2, <2>1, <4>1
    <3>2. DOMAIN tail = 1..Len(series)
      BY <3>1, LenProperties
    <3>3. Current = tail /\ Len(series) # 0
      BY <1>1, <1>2, <2>1, <2>4, <2>7
    <3> HIDE DEF tail
    <3>4. \A k \in DOMAIN tail : k + 1 \in DOMAIN longer /\ tail[k] = longer[k + 1]
      BY <1>2, <2>1, <2>2, <3>1, <3>2
    <3>5. \A j, k \in DOMAIN tail : j < k => j + 1 < k + 1
      BY <1>2, <3>2
    <3>6. SeriesInOrder(tail)
      BY <2>6, <3>4, <3>5 DEF SeriesInOrder
    <3>7. tail # <<>>
      BY <3>1, <3>3
    <3> QED
      BY <1>0, <3>1, <3>3, <3>6, <3>7
  <2>8. CASE ~(Len(longer) > MaxBuckets)
    <3>1. Len(longer) <= MaxBuckets
      BY <1>1, <1>2, <2>1, <2>8
    <3> QED
      BY <2>1, <2>4, <2>6, <2>8, <3>1
  <2> QED
    BY <2>7, <2>8
<1> QED
  BY <1>3, <1>4

\* A step that counts nothing, keeps the totals and the series and moves the time
\* forward, or notes that it went back, keeps what is in the memory.
LEMMA MemoryKept ==
  ASSUME MetricsInv, UNCHANGED <<totals, series, ever>>, slot' \in Nat,
         back \in BOOLEAN, ~back' => ~back /\ slot <= slot'
  PROVE  /\ SeriesInOrder(series)' /\ totals'.errors <= totals'.calls /\ totals'.calls <= ever'
         /\ \A b \in Seq(Buckets) : SeriesInOrder(b) => SeriesInOrder(b)'
<1>1. slot \in Nat
  BY MetricsAssumption DEF MetricsInv, MetricsTypeOK
<1>2. ASSUME NEW b \in Seq(Buckets), SeriesInOrder(b) PROVE SeriesInOrder(b)'
  <2>1. \A k \in DOMAIN b : b[k].slot \in Nat
    <3>1. \A k \in DOMAIN b : b[k] \in Buckets
      BY ElementOfSeq, LenProperties
    <3> QED
      BY <3>1, BucketFields
  <2>2. ~back' => ~back /\ \A k \in DOMAIN b : b[k].slot <= slot'
    BY <1>1, <1>2, <2>1 DEF SeriesInOrder
  <2> QED
    BY <1>2, <2>2 DEF SeriesInOrder
<1>3. series \in Seq(Buckets) /\ SeriesInOrder(series)
  BY DEF MetricsInv, MetricsTypeOK
<1>4. SeriesInOrder(series)'
  BY <1>2, <1>3
<1> QED
  BY <1>2, <1>4 DEF MetricsInv

\* What a flush may write is right, or the files are known to be torn.
LEMMA DiskKept ==
  ASSUME MetricsInv, UNCHANGED <<totals, series, slot, ever, back>>,
         \/ UNCHANGED <<disk, aged, torn>>
         \/ FlushBoth
         \/ /\ disk' = [disk EXCEPT !.totals = totals]
            /\ torn' = TRUE
            /\ UNCHANGED aged
  PROVE  /\ disk' \in [totals : Counting, series : Seq(Buckets)] /\ torn' \in BOOLEAN
         /\ Len(disk'.series) <= MaxBuckets /\ SeriesInOrder(disk.series)'
         /\ disk'.totals.errors <= disk'.totals.calls /\ disk'.totals.calls <= ever'
         /\ aged' \in [mem : Int, disk : Int] /\ HistoriesAgree'
<1>0. /\ disk \in [totals : Counting, series : Seq(Buckets)]
      /\ totals \in Counting /\ series \in Seq(Buckets) /\ torn \in BOOLEAN
      /\ Len(series) <= MaxBuckets /\ Len(disk.series) <= MaxBuckets
      /\ aged \in [mem : Int, disk : Int]
  BY DEF MetricsInv, MetricsTypeOK
<1>1. /\ SeriesInOrder(series) /\ SeriesInOrder(disk.series)
      /\ totals.errors <= totals.calls /\ totals.calls <= ever
      /\ disk.totals.errors <= disk.totals.calls /\ disk.totals.calls <= ever
      /\ HistoriesAgree
  BY DEF MetricsInv
<1>2. CASE UNCHANGED <<disk, aged, torn>>
  BY <1>0, <1>1, <1>2 DEF SeriesInOrder, HistoriesAgree, CallsOf
<1>3. CASE FlushBoth
  <2>1. /\ disk' = [totals |-> totals, series |-> series] /\ torn' = torn
        /\ aged' \in [mem : Int, disk : Int]
        /\ aged'.mem = aged.mem /\ aged'.disk = aged.mem
    BY <1>0, <1>3 DEF FlushBoth, Flushed
  <2>2. disk'.totals = totals /\ disk'.series = series
    BY <2>1
  <2>3. SeriesInOrder(disk.series)'
    BY <1>1, <2>2 DEF SeriesInOrder
  <2>4. HistoriesAgree'
    BY <1>1, <2>1, <2>2 DEF HistoriesAgree, CallsOf
  <2> QED
    BY <1>0, <1>1, <2>1, <2>2, <2>3, <2>4
<1>4. CASE disk' = [disk EXCEPT !.totals = totals] /\ torn' = TRUE /\ UNCHANGED aged
  <2>1. /\ disk' \in [totals : Counting, series : Seq(Buckets)]
        /\ disk'.totals = totals /\ disk'.series = disk.series
    BY <1>0, <1>4
  <2>2. SeriesInOrder(disk.series)'
    BY <1>1, <2>1 DEF SeriesInOrder
  <2> QED
    BY <1>0, <1>1, <1>4, <2>1, <2>2 DEF HistoriesAgree
<1> QED
  BY <1>2, <1>3, <1>4

\* A request that is counted is counted in the total and in one bucket.
LEMMA CallRecorded ==
  ASSUME MetricsInv, NEW error \in BOOLEAN, RecordCall(error)
  PROVE  MetricsInv'
<1> DEFINE m == Len(Current)
           wrong == IF error THEN 1 ELSE 0
           bucket == [Current[m] EXCEPT !.calls = @ + 1, !.errors = @ + wrong]
           count == [totals EXCEPT !.calls = @ + 1, !.errors = @ + wrong]
<1>0. /\ MetricsTypeOK /\ life = "up" /\ ever < MaxCounted /\ ever' = ever + 1
      /\ totals' = count /\ series' = [Current EXCEPT ![m] = bucket]
      /\ aged' = [aged EXCEPT !.mem = @ + CallsOf(series) - CallsOf(Current)]
      /\ UNCHANGED <<disk, slot, life, loop, lives, torn, back>>
  BY DEF MetricsInv, RecordCall
<1>1. /\ Current \in Seq(Buckets) /\ Current # <<>> /\ m <= MaxBuckets /\ SeriesInOrder(Current)
  BY CurrentFacts
<1>2. m \in 1..m /\ DOMAIN Current = 1..m /\ Current[m] \in Buckets
  BY <1>1, EmptySeq, LenProperties, ElementOfSeq
<1>3. ever \in Nat /\ ever + 1 \in 0..MaxCounted /\ wrong \in {0, 1} /\ slot \in Nat
  BY <1>0, MetricsAssumption DEF MetricsTypeOK
<1>4. /\ bucket \in Buckets /\ bucket.slot = Current[m].slot
      /\ bucket.calls = Current[m].calls + 1 /\ bucket.calls <= ever + 1
      /\ bucket.errors <= bucket.calls
  <2>1. /\ Current[m].calls \in Nat /\ Current[m].errors \in Nat
        /\ Current[m].errors <= Current[m].calls /\ Current[m].calls <= ever
    BY <1>1, <1>2, BucketFields DEF SeriesInOrder
  <2>2. Current[m].calls + 1 \in 0..MaxCounted /\ Current[m].errors + wrong \in 0..MaxCounted
    BY <1>3, <2>1, MetricsAssumption
  <2>3. /\ bucket.slot = Current[m].slot /\ bucket.calls = Current[m].calls + 1
        /\ bucket.errors = Current[m].errors + wrong
    BY <1>2 DEF Buckets
  <2>4. bucket \in Buckets
    BY <1>2, <2>2 DEF Buckets
  <2> HIDE DEF bucket, wrong, m
  <2> QED
    BY <1>3, <2>1, <2>3, <2>4
<1>5. /\ count \in Counting /\ count.calls = totals.calls + 1
      /\ count.errors <= count.calls /\ count.calls <= ever + 1 /\ totals.calls \in Int
  <2>1. /\ totals \in Counting /\ totals.calls \in Nat /\ totals.errors \in Nat
        /\ totals.errors <= totals.calls /\ totals.calls <= ever
    BY <1>0 DEF MetricsInv, MetricsTypeOK, Counting
  <2>2. totals.calls + 1 \in 0..MaxCounted /\ totals.errors + wrong \in 0..MaxCounted
    BY <1>3, <2>1, MetricsAssumption
  <2>3. count.calls = totals.calls + 1 /\ count.errors = totals.errors + wrong
    BY <2>1 DEF Counting
  <2>4. count \in Counting
    BY <2>1, <2>2 DEF Counting
  <2> HIDE DEF count, wrong
  <2> QED
    BY <1>3, <2>1, <2>3, <2>4
<1>6. /\ CallsOf(series') = CallsOf(Current) + 1
      /\ CallsOf(Current) \in Int /\ CallsOf(series) \in Int
  <2>1. series \in Seq(Buckets)
    BY <1>0 DEF MetricsTypeOK
  <2>2. CallsOf(series') = CallsOf(Current) + 1
    <3> HIDE DEF bucket
    <3> QED
      BY <1>0, <1>1, <1>4, OneMoreCall
  <2>3. CallsOf(Current) \in Nat
    BY <1>1, CallsCounted
  <2>4. CallsOf(series) \in Nat
    BY <2>1, CallsCounted
  <2> QED
    BY <2>2, <2>3, <2>4
<1> HIDE DEF bucket, count, wrong
<1>7. /\ series' \in Seq(Buckets) /\ Len(series') = m
      /\ DOMAIN series' = 1..m
      /\ \A k \in 1..m : series'[k] = IF k = m THEN bucket ELSE Current[k]
  <2>1. /\ series' \in Seq(Buckets) /\ Len(series') = m
        /\ \A k \in 1..m : series'[k] = IF k = m THEN bucket ELSE Current[k]
    BY <1>0, <1>1, <1>2, <1>4, ExceptSeq
  <2> QED
    BY <2>1, LenProperties
<1> HIDE DEF m
<1>8. SeriesInOrder(series)'
  <2>1. \A k \in 1..m : series'[k].slot = Current[k].slot
    BY <1>4, <1>7
  <2>2. ~back' => \A j, k \in 1..m : j < k => series'[j].slot < series'[k].slot
    BY <1>0, <1>1, <1>2, <2>1 DEF SeriesInOrder
  <2>3. ~back' => \A k \in 1..m : series'[k].slot <= slot'
    BY <1>0, <1>1, <1>2, <2>1 DEF SeriesInOrder
  <2>4. ASSUME NEW k \in 1..m PROVE series'[k].errors <= series'[k].calls /\ series'[k].calls <= ever'
    <3>1. CASE k = m
      BY <1>0, <1>4, <1>7, <3>1
    <3>2. CASE k # m
      <4>1. series'[k] = Current[k] /\ Current[k] \in Buckets
        BY <1>1, <1>2, <1>7, <3>2, ElementOfSeq DEF m
      <4>2. Current[k].errors <= Current[k].calls /\ Current[k].calls <= ever /\ Current[k].calls \in Nat
        BY <1>1, <1>2, <4>1, BucketFields DEF SeriesInOrder
      <4> QED
        BY <1>0, <1>3, <4>1, <4>2
    <3> QED
      BY <3>1, <3>2
  <2> QED
    BY <1>7, <2>2, <2>3, <2>4 DEF SeriesInOrder
<1>9. aged' \in [mem : Int, disk : Int] /\ HistoriesAgree'
  <2>1. /\ aged' \in [mem : Int, disk : Int]
        /\ aged'.mem = aged.mem + CallsOf(series) - CallsOf(Current)
        /\ aged'.disk = aged.disk /\ aged.mem \in Int
    BY <1>0, <1>6 DEF MetricsInv
  <2>2. ~torn => totals.calls = CallsOf(series) + aged.mem
    BY DEF MetricsInv, HistoriesAgree
  <2>3. ~torn => totals'.calls = CallsOf(series') + aged'.mem
    BY <1>0, <1>5, <1>6, <2>1, <2>2
  <2>4. ~torn' => disk'.totals.calls = CallsOf(disk'.series) + aged'.disk
    BY <1>0, <2>1 DEF MetricsInv, HistoriesAgree
  <2> QED
    BY <1>0, <2>1, <2>3, <2>4 DEF HistoriesAgree, CallsOf
<1>10. /\ SeriesInOrder(disk.series)'
       /\ disk'.totals.errors <= disk'.totals.calls /\ disk'.totals.calls <= ever'
  <2>1. disk \in [totals : Counting, series : Seq(Buckets)]
    BY <1>0 DEF MetricsTypeOK
  <2>2. \A k \in DOMAIN disk.series : disk.series[k] \in Buckets
    BY <2>1, ElementOfSeq, LenProperties
  <2>3. \A k \in DOMAIN disk.series : disk.series[k].calls \in Nat
    BY <2>2, BucketFields
  <2>4. SeriesInOrder(disk.series)
    BY DEF MetricsInv
  <2>5. \A k \in DOMAIN disk.series : disk.series[k].calls <= ever + 1
    BY <1>3, <2>3, <2>4 DEF SeriesInOrder
  <2>6. disk.totals.calls \in Nat /\ disk.totals.calls <= ever /\ disk.totals.errors <= disk.totals.calls
    BY <2>1 DEF MetricsInv, Counting
  <2>7. disk.totals.calls <= ever + 1
    BY <1>3, <2>6
  <2> QED
    BY <1>0, <2>4, <2>5, <2>6, <2>7 DEF SeriesInOrder
<1>11. MetricsTypeOK'
  <2>1. /\ totals' \in Counting /\ ever' \in 0..MaxCounted /\ Len(series') <= MaxBuckets
    BY <1>0, <1>1, <1>3, <1>5, <1>7
  <2> QED
    BY <1>0, <1>7, <2>1 DEF MetricsTypeOK
<1>12. StoppedIsSaved' /\ totals'.errors <= totals'.calls /\ totals'.calls <= ever'
  BY <1>0, <1>5 DEF StoppedIsSaved
<1> QED
  BY <1>8, <1>9, <1>10, <1>11, <1>12 DEF MetricsInv

\* Every step keeps the invariant.
LEMMA MetricsStep == MetricsInv /\ [MetricsNext]_metricsVars => MetricsInv'
<1> SUFFICES ASSUME MetricsInv, [MetricsNext]_metricsVars PROVE MetricsInv'
  OBVIOUS
<1>0. MetricsTypeOK /\ slot \in Nat /\ MaxSlot \in Nat
  BY MetricsAssumption DEF MetricsInv, MetricsTypeOK
<1>1. CASE UNCHANGED metricsVars
  <2>1. UNCHANGED <<totals, series, disk, slot, life, ever, aged, torn, back>>
    BY <1>1 DEF metricsVars
  <2>2. MetricsTypeOK'
    BY <1>0, <1>1 DEF MetricsTypeOK, metricsVars
  <2> QED
    BY <2>1, <2>2
      DEF MetricsInv, SeriesInOrder, HistoriesAgree, CallsOf, StoppedIsSaved
<1>2. CASE SlotPasses
  <2>1. /\ slot' \in 0..MaxSlot /\ back' = (back \/ slot' < slot)
        /\ UNCHANGED <<totals, series, disk, life, loop, lives, ever, aged, torn>>
    BY <1>2 DEF SlotPasses
  <2>2. slot' \in Nat /\ back \in BOOLEAN /\ back' \in BOOLEAN
    <3>1. back \in BOOLEAN
      BY <1>0 DEF MetricsTypeOK
    <3> QED
      BY <1>0, <2>1, <3>1
  <2>7. ~back' => ~back /\ slot <= slot'
    <3>1. ~back' => ~back /\ ~(slot' < slot)
      BY <2>1, Zenon
    <3>2. ~(slot' < slot) => slot <= slot'
      BY <1>0, <2>2
    <3> QED
      BY <3>1, <3>2, Zenon
  <2>3. MetricsTypeOK'
    BY <1>0, <2>1, <2>2 DEF MetricsTypeOK
  <2>4. disk.series \in Seq(Buckets) /\ SeriesInOrder(disk.series)
    BY <1>0 DEF MetricsInv, MetricsTypeOK
  <2>5. SeriesInOrder(series)' /\ \A b \in Seq(Buckets) : SeriesInOrder(b) => SeriesInOrder(b)'
    BY <2>1, <2>2, <2>7, MemoryKept
  <2>6. SeriesInOrder(disk.series)'
    <3>1. PICK b \in Seq(Buckets) : b = disk.series /\ SeriesInOrder(b)
      BY <2>4
    <3>2. SeriesInOrder(b)' /\ disk'.series = b
      BY <2>1, <2>5, <3>1
    <3> QED
      BY <3>2 DEF SeriesInOrder
  <2> QED
    BY <2>1, <2>3, <2>5, <2>6 DEF MetricsInv, HistoriesAgree, CallsOf, StoppedIsSaved
\* Flushes, the end of the server and its death touch the disk at most.
<1>3. ASSUME LoopFlushes \/ Ending \/ Ended \/ NodeDies PROVE MetricsInv'
  <2>1. /\ UNCHANGED <<totals, series, slot, ever, lives, back>>
        /\ life' \in {"up", "ending", "stopped", "broken", "down"}
        /\ loop' \in {"runs", "failed", "cancelled"}
    BY <1>0, <1>3 DEF LoopFlushes, Ending, Ended, NodeDies, LastFlush, MetricsTypeOK
  <2>2. \/ UNCHANGED <<disk, aged, torn>>
        \/ FlushBoth
        \/ disk' = [disk EXCEPT !.totals = totals] /\ torn' = TRUE /\ UNCHANGED aged
    BY <1>3 DEF LoopFlushes, Ending, Ended, NodeDies, LastFlush, FlushFails
  <2>3. life' = "stopped" => FlushBoth
    BY <1>3 DEF LoopFlushes, Ending, Ended, NodeDies, LastFlush
  <2>4. /\ disk' \in [totals : Counting, series : Seq(Buckets)] /\ torn' \in BOOLEAN
        /\ Len(disk'.series) <= MaxBuckets /\ SeriesInOrder(disk.series)'
        /\ disk'.totals.errors <= disk'.totals.calls /\ disk'.totals.calls <= ever'
        /\ aged' \in [mem : Int, disk : Int] /\ HistoriesAgree'
    BY <2>1, <2>2, DiskKept
  <2>5. StoppedIsSaved'
    BY <2>1, <2>3 DEF StoppedIsSaved, FlushBoth, Flushed
  <2>6. SeriesInOrder(series)' /\ totals'.errors <= totals'.calls /\ totals'.calls <= ever'
    BY <2>1 DEF MetricsInv, SeriesInOrder
  <2>7. MetricsTypeOK'
    BY <1>0, <2>1, <2>4 DEF MetricsTypeOK
  <2> QED
    BY <2>4, <2>5, <2>6, <2>7 DEF MetricsInv
\* A start takes the disk for the memory.
<1>4. CASE Start
  <2>1. /\ totals' = disk.totals /\ series' = disk.series /\ life' = "up" /\ loop' = "runs"
        /\ aged' = [aged EXCEPT !.mem = aged.disk] /\ UNCHANGED <<disk, slot, ever, torn, back>>
    BY <1>4 DEF Start
  <2>2. /\ disk \in [totals : Counting, series : Seq(Buckets)] /\ Len(disk.series) <= MaxBuckets
        /\ SeriesInOrder(disk.series) /\ aged \in [mem : Int, disk : Int]
        /\ disk.totals.errors <= disk.totals.calls /\ disk.totals.calls <= ever
    BY <1>0 DEF MetricsInv, MetricsTypeOK
  <2>3. /\ aged' \in [mem : Int, disk : Int] /\ aged'.mem = aged.disk /\ aged'.disk = aged.disk
    BY <2>1, <2>2
  <2>4. SeriesInOrder(series)' /\ SeriesInOrder(disk.series)'
    BY <2>1, <2>2 DEF SeriesInOrder
  <2>5. HistoriesAgree'
    BY <2>1, <2>3 DEF MetricsInv, HistoriesAgree, CallsOf
  <2>6. MetricsTypeOK'
    BY <1>0, <2>1, <2>2 DEF MetricsTypeOK
  <2> QED
    BY <2>1, <2>2, <2>3, <2>4, <2>5, <2>6 DEF MetricsInv, StoppedIsSaved
<1>5. ASSUME NEW error \in BOOLEAN, RecordCall(error) PROVE MetricsInv'
  BY <1>5, CallRecorded
<1> QED
  BY <1>1, <1>2, <1>3, <1>4, <1>5 DEF MetricsNext

\* The totals and the buckets tell one story, in memory and on the disk, across
\* restarts and aged buckets, and an orderly end saves it.
THEOREM MetricsStaySafe == MetricsSpec => []MetricsSafe
<1>1. MetricsSpec => []MetricsInv
  BY MetricsInitial, MetricsStep, PTL DEF MetricsSpec
<1> QED
  BY <1>1, MetricsImplied, PTL

-----------------------------------------------------------------------------
(* NodeSetup.                                                              *)

\* The types, one for each record, so that a step can be seen to keep each.
KeystoreType == [wizard : KeyStates, runtime : KeyStates, drawn : 0..MaxKeys]
Steps == {0, 2, 3, 5}
ConfigType == [file : {"absent", "written", "torn"}, done : BOOLEAN, step : Steps,
               mode : Modes \cup {"none"}, upstream : BOOLEAN, nodeId : BOOLEAN,
               serial : BOOLEAN]
StoreType == [done : BOOLEAN, step : Steps, mode : Modes \cup {"none"},
              pass : Passphrases, locked : BOOLEAN, unlocked : BOOLEAN]
HarmKinds == {"overlap", "market_failed", "switched", "untold", "unwritten", "cut"}
\* No two requests that tell the market overlapped, and none failed to.
Clean == harms \cap {"overlap", "market_failed", "untold"} = {}

\* A new key is at its path; the other keystore is as it was.
LEMMA DrawnFacts ==
  ASSUME NEW ks \in KeystoreType, ks.drawn < MaxKeys, NEW path \in {"wizard", "runtime"},
         NEW pass \in Passphrases
  PROVE  /\ Drawn(ks, path, pass) \in KeystoreType
         /\ Drawn(ks, path, pass).drawn = ks.drawn + 1
         /\ Drawn(ks, path, pass).wizard =
              IF Spot(path) = "wizard" THEN [key |-> ks.drawn + 1, seal |-> pass] ELSE ks.wizard
<1>1. Spot(path) \in {"wizard", "runtime"}
  BY DEF Spot
<1>2. ks.drawn + 1 \in 0..MaxKeys
  BY SetupAssumption DEF KeystoreType
<1>3. [key |-> ks.drawn + 1, seal |-> pass] \in KeyStates
  BY <1>2 DEF KeyStates
<1>4. CASE Spot(path) = "wizard"
  BY <1>2, <1>3, <1>4 DEF Drawn, KeystoreType
<1>5. CASE Spot(path) = "runtime"
  BY <1>2, <1>3, <1>5 DEF Drawn, KeystoreType
<1> QED
  BY <1>1, <1>4, <1>5

\* A keystore that has a key keeps it, whatever path is opened.
LEMMA CreatedFacts ==
  ASSUME NEW ks \in KeystoreType, NEW path \in {"wizard", "runtime"}, NEW pass \in Passphrases,
         Opens(ks, path, pass)
  PROVE  /\ Created(ks, path, pass) \in KeystoreType
         /\ ks.wizard.key # 0 => Created(ks, path, pass).wizard = ks.wizard
         /\ path = "wizard" => Created(ks, path, pass).wizard.key # 0
<1>1. Spot(path) \in {"wizard", "runtime"} /\ (path = "wizard" => Spot(path) = "wizard")
  BY DEF Spot
<1>2. CASE ks[Spot(path)].key # 0
  BY <1>1, <1>2 DEF Created
<1>3. CASE ks[Spot(path)].key = 0
  <2>1. ks.drawn < MaxKeys /\ Created(ks, path, pass) = Drawn(ks, path, pass)
    BY <1>3 DEF Opens, Created
  <2>2. ks.drawn + 1 # 0
    BY SetupAssumption DEF KeystoreType
  <2>3. Spot(path) = "wizard" => ks.wizard.key = 0
    BY <1>3
  <2> DEFINE new == Drawn(ks, path, pass)
  <2>4. /\ new \in KeystoreType
        /\ new.wizard = IF Spot(path) = "wizard" THEN [key |-> ks.drawn + 1, seal |-> pass]
                        ELSE ks.wizard
    BY <2>1, DrawnFacts
  <2> HIDE DEF new
  <2>5. new.wizard.key # 0 \/ (Spot(path) # "wizard" /\ new.wizard = ks.wizard)
    BY <2>2, <2>4
  <2>6. ks.wizard.key # 0 => new.wizard = ks.wizard
    BY <2>3, <2>4
  <2>7. Created(ks, path, pass) = new
    BY <2>1 DEF new
  <2> QED
    BY <1>1, <2>4, <2>5, <2>6, <2>7
<1> QED
  BY <1>2, <1>3

\* A start of the provider takes no key away from the wizard's keystore.
LEMMA StartFacts ==
  ASSUME NEW may \in BOOLEAN, NEW s \in StoreType, NEW ks \in KeystoreType,
         may => Opens(ks, "runtime", s.pass), StartsIf(may, s, ks)
  PROVE  /\ keystores' \in KeystoreType /\ serving' \in BOOLEAN
         /\ ks.wizard.key # 0 => keystores'.wizard = ks.wizard
<1>1. s.pass \in Passphrases
  BY DEF StoreType
<1>2. CASE may
  <2>1. /\ Created(ks, "runtime", s.pass) \in KeystoreType
        /\ ks.wizard.key # 0 => Created(ks, "runtime", s.pass).wizard = ks.wizard
    BY <1>1, <1>2, CreatedFacts
  <2> QED
    BY <1>2, <2>1 DEF StartsIf
<1>3. CASE ~may
  BY <1>3 DEF StartsIf
<1> QED
  BY <1>2, <1>3

\* A start of the provider makes a keystore if there is none; the wizard's key stays.
LEMMA AutostartFacts ==
  ASSUME NEW s \in StoreType, NEW c \in ConfigType, NEW ks \in KeystoreType,
         serving \in BOOLEAN, Autostarts(s, c, ks)
  PROVE  /\ keystores' \in KeystoreType /\ serving' \in BOOLEAN
         /\ ks.wizard.key # 0 => keystores'.wizard = ks.wizard
<1>1. Startable(s, c, ks) \in BOOLEAN /\ (Startable(s, c, ks) => Opens(ks, "runtime", s.pass))
  BY DEF Startable
<1>2. CASE s.mode = "provider" /\ ~serving
  <2>1. StartsIf(Startable(s, c, ks), s, ks)
    BY <1>2 DEF Autostarts
  <2> QED
    BY <1>1, <2>1, StartFacts
<1>3. CASE ~(s.mode = "provider" /\ ~serving)
  BY <1>3 DEF Autostarts
<1> QED
  BY <1>2, <1>3

\* Deriving whether the node is locked leaves the setup's state alone.
LEMMA DerivedFacts ==
  ASSUME NEW s \in StoreType
  PROVE  /\ StepDerived(s) \in StoreType /\ StepDerived(s).done = s.done
         /\ StepDerived(s).step = s.step /\ StepDerived(s).mode = s.mode
BY DEF StepDerived, StoreType

\* What a start or a reload reads of the configuration.
LEMMA LoadedFacts ==
  ASSUME NEW s \in StoreType, config \in ConfigType,
         config.file = "absent" => config = NoConfig /\ s.mode = "none"
  PROVE  /\ Loaded(s) \in StoreType /\ Loaded(s).done = config.done
         /\ Loaded(s).step = config.step /\ Loaded(s).mode = config.mode
<1>1. CASE config.file = "absent"
  <2>1. config.done = FALSE /\ config.step = 0 /\ config.mode = "none" /\ s.mode = "none"
    BY <1>1 DEF NoConfig
  <2>2. Loaded(s) = [s EXCEPT !.done = FALSE, !.step = 0]
    BY <1>1 DEF Loaded
  <2> QED
    BY <2>1, <2>2 DEF StoreType, Steps
<1>2. CASE config.file # "absent"
  BY <1>2 DEF Loaded, StoreType, ConfigType
<1> QED
  BY <1>1, <1>2

\* The parts of the type invariant that the setup's requests touch.
SetupRest ==
  /\ {up, facade, serving} \subseteq BOOLEAN
  /\ market \in 0..MaxKeys
  /\ asks \in [SetupRequests -> [for : {"nothing", "health", "register", "rotate", "done"},
                                 key : 0..MaxKeys, upstream : BOOLEAN]]
  /\ crashes \in 0..MaxCrashes /\ broken \in 0..MaxBroken
  /\ harms \subseteq HarmKinds

\* Without a file there is no setup; a torn file was not written through; a setup that is
\* complete has its serial; and a dead process awaits nothing.
SetupFiles ==
  /\ config.file = "absent" => config = NoConfig /\ store.mode = "none"
  /\ config.file = "torn" => {"unwritten", "cut"} \subseteq harms
  /\ config.done /\ "cut" \notin harms => config.serial
  /\ ~up => \A r \in SetupRequests : asks[r].for \in {"nothing", "done"}

\* A provider that is to be registered has an endpoint, unless the file lost lines.
RegistersUsable ==
  "cut" \notin harms =>
    \A r \in SetupRequests : asks[r].for = "register" => asks[r].upstream \/ config.upstream

\* While nothing has gone wrong at most one request tells the market of a key, and
\* the key is the keystore's.
TellingOurs ==
  Clean =>
    /\ \A r, s \in Telling : r = s
    /\ \A r \in Telling : asks[r].key = keystores.wizard.key /\ asks[r].key # 0
    /\ Telling = {} /\ market # 0 => market = keystores.wizard.key

\* The inductive invariant behind SetupSafe and MarketHasOurKey: what a request that
\* awaits the market will still write is part of it.
SetupInv ==
  /\ config \in ConfigType /\ keystores \in KeystoreType /\ store \in StoreType /\ SetupRest
  /\ StoreAgrees /\ CompleteIsUsable /\ SetupFiles /\ RegistersUsable /\ TellingOurs

\* What the runs check follows.
LEMMA SetupImplied == SetupInv => SetupSafe /\ MarketHasOurKey
BY DEF SetupInv, SetupSafe, MarketHasOurKey, SetupTypeOK, SetupRest, ConfigType, KeystoreType,
       StoreType, Steps, HarmKinds, TellingOurs, Clean

\* Nothing is set up.
LEMMA SetupInitial == SetupInit => SetupInv
<1> SUFFICES ASSUME SetupInit PROVE SetupInv
  OBVIOUS
<1>1. 0 \in 0..MaxKeys /\ 0 \in 0..MaxCrashes /\ 0 \in 0..MaxBroken
  BY SetupAssumption
<1>2. NoConfig \in ConfigType /\ NewStore \in StoreType
  <2>1. /\ "none" \in Modes \cup {"none"} /\ FALSE \in BOOLEAN /\ 0 \in Steps
        /\ "absent" \in {"absent", "written", "torn"} /\ "open" \in Passphrases
    BY DEF Steps, Passphrases
  <2>2. NoConfig \in ConfigType
    BY <2>1 DEF NoConfig, ConfigType
  <2> QED
    BY <2>1, <2>2 DEF NewStore, StoreType
<1>3. NoKey \in KeyStates
  BY <1>1 DEF NoKey, KeyStates, Passphrases
<1>4. keystores \in KeystoreType
  BY <1>1, <1>3 DEF SetupInit, KeystoreType
<1>5. SetupRest
  BY <1>1 DEF SetupInit, SetupRest, Idle
<1>6. \A r \in SetupRequests : asks[r].for = "nothing"
  BY DEF SetupInit, Idle
<1>7. StoreAgrees /\ CompleteIsUsable /\ SetupFiles
  BY <1>6 DEF SetupInit, StoreAgrees, CompleteIsUsable, SetupFiles, NoConfig, NewStore
<1>8. RegistersUsable /\ TellingOurs
  BY <1>6 DEF RegistersUsable, TellingOurs, Telling, SetupInit
<1> QED
  BY <1>2, <1>4, <1>5, <1>7, <1>8 DEF SetupInit, SetupInv

\* What a request awaits.
AskType == [for : {"nothing", "health", "register", "rotate", "done"}, key : 0..MaxKeys,
            upstream : BOOLEAN]

\* A step that leaves the requests that tell the market, and the keys that were
\* there, as they are.
LEMMA SetupKept ==
  ASSUME SetupInv, keystores' \in KeystoreType, serving' \in BOOLEAN, store' \in StoreType,
         config' \in ConfigType, up' \in BOOLEAN, facade' \in BOOLEAN,
         asks' \in [SetupRequests -> AskType],
         \A r \in SetupRequests :
           asks'[r] = asks[r] \/ (r \notin Telling /\ asks'[r].for \in {"done", "health"}),
         UNCHANGED <<market, crashes>>, broken' \in 0..MaxBroken, harms' \subseteq HarmKinds,
         Clean' = Clean, "cut" \in harms => "cut" \in harms',
         "cut" \notin harms' => (config.upstream => config'.upstream),
         StoreAgrees', CompleteIsUsable', SetupFiles',
         keystores.wizard.key # 0 => keystores'.wizard = keystores.wizard
  PROVE  SetupInv'
<1>1. SetupRest'
  BY DEF SetupInv, SetupRest, AskType
<1>2. RegistersUsable'
  <2>1. \A r \in SetupRequests : asks'[r].for = "register" => asks'[r] = asks[r]
    OBVIOUS
  <2> QED
    BY <2>1 DEF SetupInv, RegistersUsable
<1>3. Telling' = Telling /\ \A r \in Telling : r \in SetupRequests /\ asks'[r] = asks[r]
  BY DEF Telling
<1>5. TellingOurs'
  BY <1>3 DEF SetupInv, TellingOurs
<1> QED
  BY <1>1, <1>2, <1>5 DEF SetupInv

\* A write that breaks off leaves what it found, or has cut the file.
LEMMA BrokenFacts ==
  ASSUME NEW old \in ConfigType, NEW new \in ConfigType, BreaksOff(old, new),
         broken \in 0..MaxBroken, harms \subseteq HarmKinds
  PROVE  /\ config' \in ConfigType /\ broken' \in 0..MaxBroken
         /\ harms \subseteq harms' /\ "unwritten" \in harms'
         /\ harms' \subseteq harms \cup {"unwritten", "cut"} /\ harms' \subseteq HarmKinds
         /\ config' = old \/ ("cut" \in harms' /\ config'.file # "absent")
<1>1. harms' = harms \cup {"unwritten"} \cup (IF config' = old THEN {} ELSE {"cut"})
  BY DEF BreaksOff
<1>2. broken' \in 0..MaxBroken
  BY SetupAssumption DEF BreaksOff
<1>3. config' \in ConfigType /\ (config' = old \/ config'.file # "absent")
  <2> DEFINE shred == [NoConfig EXCEPT !.file = "torn"]
             kept == [file : {"written"}, done : {new.done, FALSE}, step : {new.step, 0},
                      mode : {new.mode, "none"}, upstream : {new.upstream, FALSE},
                      nodeId : {new.nodeId, FALSE}, serial : {new.serial, FALSE}]
  <2>1. config' \in {old, shred} \cup kept
    BY DEF BreaksOff, Remains
  <2>2. shred \in ConfigType /\ shred.file = "torn"
    BY DEF NoConfig, ConfigType, Steps
  <2>3. \A c \in kept : c \in ConfigType /\ c.file = "written"
    BY DEF ConfigType, Steps
  <2> HIDE DEF shred, kept
  <2> QED
    BY <2>1, <2>2, <2>3
<1> QED
  BY <1>1, <1>2, <1>3 DEF HarmKinds

\* A route whose write was not done, and that has told the store of no more than a step.
LEMMA UnwrittenFacts ==
  ASSUME SetupInv, up, NEW c \in ConfigType, Unwritten(c), store' \in StoreType,
         store'.done = store.done, store'.mode = store.mode, UNCHANGED <<up, facade>>
  PROVE  /\ config' \in ConfigType /\ broken' \in 0..MaxBroken /\ harms' \subseteq HarmKinds
         /\ Clean' = Clean /\ ("cut" \in harms => "cut" \in harms')
         /\ "cut" \notin harms' => (config.upstream => config'.upstream)
         /\ StoreAgrees' /\ CompleteIsUsable' /\ SetupFiles'
<1>0. /\ config \in ConfigType /\ broken \in 0..MaxBroken /\ harms \subseteq HarmKinds
      /\ StoreAgrees /\ CompleteIsUsable /\ SetupFiles
  BY DEF SetupInv, SetupRest
<1>1. /\ config' \in ConfigType /\ broken' \in 0..MaxBroken
      /\ harms \subseteq harms' /\ "unwritten" \in harms'
      /\ harms' \subseteq harms \cup {"unwritten", "cut"} /\ harms' \subseteq HarmKinds
      /\ config' = config \/ ("cut" \in harms' /\ config'.file # "absent")
      /\ config'.file = "torn" => "cut" \in harms'
  <2>1. CASE Unreadable
    BY <1>0, <2>1 DEF Unreadable, SetupFiles
  <2>2. CASE BreaksOff(config, c)
    <3>1. config.file # "torn"
      BY <2>2 DEF BreaksOff
    <3> QED
      BY <1>0, <2>2, <3>1, BrokenFacts
  <2> QED
    BY <2>1, <2>2 DEF Unwritten
<1>2. Clean' = Clean
  BY <1>1 DEF Clean
<1>3. StoreAgrees'
  BY <1>0, <1>1 DEF StoreAgrees
<1>4. CompleteIsUsable'
  BY <1>0, <1>1 DEF CompleteIsUsable
<1>5. SetupFiles'
  BY <1>0, <1>1 DEF SetupFiles
<1> QED
  BY <1>1, <1>2, <1>3, <1>4, <1>5

\* The provider, and the lock of the node.
LEMMA SetupServing ==
  ASSUME SetupInv,
         StartProviderAsked \/ StopProviderAsked \/ LockNode
           \/ \E pass \in Passphrases : UnlockNode(pass)
  PROVE  SetupInv'
<1>0. /\ config \in ConfigType /\ keystores \in KeystoreType /\ store \in StoreType
      /\ up \in BOOLEAN /\ facade \in BOOLEAN /\ serving \in BOOLEAN
      /\ asks \in [SetupRequests -> AskType]
  BY DEF SetupInv, SetupRest, AskType
<1>1. /\ UNCHANGED <<up, config, facade, market, asks, crashes, broken, harms>>
      /\ broken \in 0..MaxBroken /\ harms \subseteq HarmKinds
  BY DEF StartProviderAsked, StopProviderAsked, LockNode, UnlockNode, SetupInv, SetupRest
<1>2. ASSUME store' \in StoreType, store'.done = store.done, store'.step = store.step,
             store'.mode = store.mode, keystores' \in KeystoreType, serving' \in BOOLEAN,
             keystores.wizard.key # 0 => keystores'.wizard = keystores.wizard
      PROVE  SetupInv'
  <2>1. StoreAgrees' /\ CompleteIsUsable' /\ SetupFiles'
    BY <1>1, <1>2 DEF SetupInv, StoreAgrees, CompleteIsUsable, SetupFiles
  <2>2. Clean' = Clean
    BY <1>1 DEF Clean
  <2> QED
    BY <1>0, <1>1, <1>2, <2>1, <2>2, SetupKept
<1>3. CASE StartProviderAsked
  <2>1. /\ StartsIf(TRUE, store, keystores) /\ Opens(keystores, "runtime", store.pass)
        /\ store' = store
    BY <1>3 DEF StartProviderAsked, Startable
  <2> QED
    BY <1>0, <1>2, <2>1, StartFacts
<1>4. CASE StopProviderAsked
  BY <1>0, <1>2, <1>4 DEF StopProviderAsked
<1>5. CASE LockNode
  <2>1. /\ store' \in StoreType /\ store'.done = store.done /\ store'.step = store.step
        /\ store'.mode = store.mode
    BY <1>0, <1>5 DEF LockNode, StoreType, Passphrases
  <2> QED
    BY <1>0, <1>2, <1>5, <2>1 DEF LockNode
<1>6. ASSUME NEW pass \in Passphrases, UnlockNode(pass) PROVE SetupInv'
  <2> DEFINE ks == Created(keystores, "wizard", pass)
  <2>1. /\ store' \in StoreType /\ store'.done = store.done /\ store'.step = store.step
        /\ store'.mode = store.mode
    BY <1>0, <1>6 DEF UnlockNode, StoreType
  <2>2. /\ ks \in KeystoreType /\ ks.wizard.key # 0
        /\ keystores.wizard.key # 0 => ks.wizard = keystores.wizard
    BY <1>0, <1>6, CreatedFacts DEF UnlockNode
  <2>3. Autostarts(store', config, ks)
    BY <1>6 DEF UnlockNode
  <2> HIDE DEF ks
  <2>4. keystores' \in KeystoreType /\ serving' \in BOOLEAN /\ keystores'.wizard = ks.wizard
    BY <1>0, <2>1, <2>2, <2>3, AutostartFacts
  <2> QED
    BY <1>2, <2>1, <2>2, <2>4
<1> QED
  BY <1>3, <1>4, <1>5, <1>6

\* The steps of the wizard and of the configuration.
LEMMA SetupConfigured ==
  ASSUME SetupInv,
         \/ \E pass \in Passphrases : SetupKeypair(pass)
         \/ \E r \in SetupRequests : TestConnection(r)
         \/ \E r \in SetupRequests, b \in BOOLEAN : ConnectionTested(r, b)
         \/ FinalizeConsumer
         \/ \E mode \in Modes \cup {"same"}, b \in BOOLEAN : ConfigUpdate(mode, b)
         \/ ReloadNode
  PROVE  SetupInv'
<1>0. /\ config \in ConfigType /\ keystores \in KeystoreType /\ store \in StoreType
      /\ up \in BOOLEAN /\ facade \in BOOLEAN /\ serving \in BOOLEAN
      /\ asks \in [SetupRequests -> AskType]
      /\ broken \in 0..MaxBroken /\ harms \subseteq HarmKinds
  BY DEF SetupInv, SetupRest, AskType
<1>a. /\ StoreAgrees /\ CompleteIsUsable /\ SetupFiles
  BY DEF SetupInv
\* What a step leaves of the files, of which SetupKept makes the rest.
<1> DEFINE Keeps ==
      /\ config' \in ConfigType /\ store' \in StoreType
      /\ broken' \in 0..MaxBroken /\ harms' \subseteq HarmKinds
      /\ Clean' = Clean /\ ("cut" \in harms => "cut" \in harms')
      /\ "cut" \notin harms' => (config.upstream => config'.upstream)
      /\ StoreAgrees' /\ CompleteIsUsable' /\ SetupFiles'
<1>b. ASSUME NEW n \in {2, 3}, up, Stepped(n), UNCHANGED <<up, facade>>
      PROVE  Keeps
  <2> DEFINE c == [config EXCEPT !.file = "written", !.step = n]
  <2>1. /\ store' = [store EXCEPT !.step = n]
        /\ (Written(c) /\ UNCHANGED harms) \/ Unwritten(c)
    BY <1>b DEF Stepped
  <2>2. /\ c \in ConfigType /\ c.file = "written" /\ c.step = n
        /\ c.done = config.done /\ c.mode = config.mode /\ c.upstream = config.upstream
        /\ c.nodeId = config.nodeId /\ c.serial = config.serial
    BY <1>0 DEF ConfigType, Steps
  <2>3. /\ store' \in StoreType /\ store'.step = n /\ store'.done = store.done
        /\ store'.mode = store.mode
    BY <1>0, <2>1 DEF StoreType, Steps
  <2> HIDE DEF c
  <2>4. CASE Written(c) /\ UNCHANGED harms
    <3>1. config' = c /\ broken' = broken /\ harms' = harms
      BY <2>4 DEF Written
    <3>2. StoreAgrees' /\ CompleteIsUsable'
      BY <1>a, <1>b, <2>2, <2>3, <3>1 DEF StoreAgrees, CompleteIsUsable
    <3>3. SetupFiles'
      BY <1>a, <1>b, <2>2, <3>1 DEF SetupFiles
    <3>4. Clean' = Clean
      BY <3>1 DEF Clean
    <3> QED
      BY <1>0, <2>2, <2>3, <3>1, <3>2, <3>3, <3>4
  <2>5. CASE Unwritten(c)
    BY <1>b, <2>2, <2>3, <2>5, UnwrittenFacts
  <2> QED
    BY <2>1, <2>4, <2>5
<1>1. ASSUME NEW pass \in Passphrases, SetupKeypair(pass) PROVE SetupInv'
  <2>1. /\ up /\ Stepped(2) /\ keystores.wizard.key = 0 /\ keystores.drawn < MaxKeys
        /\ keystores' = Drawn(keystores, "wizard", pass)
        /\ UNCHANGED <<up, facade, serving, market, asks, crashes>>
    BY <1>1 DEF SetupKeypair
  <2>2. Keeps
    BY <1>b, <2>1
  <2>3. keystores' \in KeystoreType
    BY <1>0, <2>1, DrawnFacts
  <2> QED
    BY <1>0, <2>1, <2>2, <2>3, SetupKept
<1>2. ASSUME NEW r \in SetupRequests, TestConnection(r) PROVE SetupInv'
  <2>1. /\ asks[r] = Idle /\ asks' = [asks EXCEPT ![r] = [for |-> "health", key |-> 0, upstream |-> FALSE]]
        /\ up
        /\ UNCHANGED <<up, config, keystores, store, facade, serving, market, crashes, broken, harms>>
    BY <1>2 DEF TestConnection, Waits
  <2>2. [for |-> "health", key |-> 0, upstream |-> FALSE] \in AskType /\ r \notin Telling
    BY <2>1, SetupAssumption DEF AskType, Idle, Telling
  <2>3. /\ asks' \in [SetupRequests -> AskType] /\ asks'[r].for = "health"
        /\ \A s \in SetupRequests \ {r} : asks'[s] = asks[s]
    BY <1>0, <2>1, <2>2
  <2>4. StoreAgrees' /\ CompleteIsUsable' /\ SetupFiles'
    BY <1>a, <2>1 DEF StoreAgrees, CompleteIsUsable, SetupFiles
  <2>5. Clean' = Clean
    BY <2>1 DEF Clean
  <2> QED
    BY <1>0, <2>1, <2>2, <2>3, <2>4, <2>5, SetupKept
<1>3. ASSUME NEW r \in SetupRequests, NEW b \in BOOLEAN, ConnectionTested(r, b) PROVE SetupInv'
  <2>1. /\ asks[r].for = "health" /\ asks' = [asks EXCEPT ![r] = [asks[r] EXCEPT !.for = "done"]]
        /\ Stepped(3) \/ UNCHANGED <<config, store, broken, harms>>
        /\ UNCHANGED <<up, keystores, facade, serving, market, crashes>>
    BY <1>0, <1>3 DEF ConnectionTested, Answered
  <2>2. up /\ r \notin Telling
    BY <1>0, <1>a, <2>1 DEF SetupFiles, Telling
  <2>3. [asks[r] EXCEPT !.for = "done"] \in AskType
    BY <1>0 DEF AskType
  <2>4. /\ asks' \in [SetupRequests -> AskType] /\ asks'[r].for = "done"
        /\ \A s \in SetupRequests \ {r} : asks'[s] = asks[s]
    BY <1>0, <2>1, <2>3 DEF AskType
  <2>5. Keeps
    <3>1. CASE Stepped(3)
      BY <1>b, <2>1, <2>2, <3>1
    <3>2. CASE UNCHANGED <<config, store, broken, harms>>
      <4>1. StoreAgrees' /\ CompleteIsUsable' /\ SetupFiles'
        BY <1>a, <2>1, <2>2, <3>2 DEF StoreAgrees, CompleteIsUsable, SetupFiles
      <4>2. Clean' = Clean
        BY <3>2 DEF Clean
      <4> QED
        BY <1>0, <3>2, <4>1, <4>2
    <3> QED
      BY <2>1, <3>1, <3>2
  <2> QED
    BY <1>0, <2>1, <2>2, <2>4, <2>5, SetupKept
<1>4. CASE FinalizeConsumer
  <2> DEFINE s == [store EXCEPT !.done = TRUE, !.step = 5, !.mode = "consumer"]
             c == Finalized("consumer", FALSE)
  <2>1. /\ up /\ UNCHANGED <<up, keystores, facade, serving, market, asks, crashes>>
        /\ \/ Written(c) /\ store' = StepDerived(s) /\ harms' = harms \ {"unwritten"}
           \/ Unwritten(c) /\ UNCHANGED store
    BY <1>4 DEF FinalizeConsumer, Completed
  <2>2. s \in StoreType /\ s.done = TRUE /\ s.step = 5 /\ s.mode = "consumer"
    BY <1>0 DEF StoreType, Steps, Modes
  <2>3. /\ c \in ConfigType /\ c.file = "written" /\ c.done = TRUE /\ c.step = 5
        /\ c.mode = "consumer" /\ c.serial = TRUE /\ (config.upstream => c.upstream)
    BY <1>0 DEF Finalized, ConfigType, Steps, Modes
  <2> HIDE DEF s, c
  <2>4. Keeps
    <3>1. CASE Written(c) /\ store' = StepDerived(s) /\ harms' = harms \ {"unwritten"}
      <4>1. config' = c /\ broken' = broken /\ harms' = harms \ {"unwritten"}
        BY <3>1 DEF Written
      <4>2. /\ store' \in StoreType /\ store'.done = TRUE /\ store'.step = 5
            /\ store'.mode = "consumer"
        BY <2>2, <3>1, DerivedFacts
      <4>3. StoreAgrees' /\ CompleteIsUsable' /\ SetupFiles'
        BY <2>1, <2>3, <4>1, <4>2 DEF StoreAgrees, CompleteIsUsable, SetupFiles
      <4>4. Clean' = Clean
        BY <4>1 DEF Clean
      <4> QED
        BY <1>0, <2>3, <4>1, <4>2, <4>3, <4>4
    <3>2. CASE Unwritten(c) /\ UNCHANGED store
      BY <1>0, <2>1, <2>3, <3>2, UnwrittenFacts
    <3> QED
      BY <2>1, <3>1, <3>2
  <2> QED
    BY <1>0, <2>1, <2>4, SetupKept
<1>5. ASSUME NEW mode \in Modes \cup {"same"}, NEW b \in BOOLEAN, ConfigUpdate(mode, b) PROVE SetupInv'
  <2> DEFINE m == IF mode = "same" THEN config.mode ELSE mode
             c == [config EXCEPT !.file = "written", !.upstream = config.upstream \/ b, !.mode = m]
  <2>1. /\ up /\ (c.mode = "provider" => c.upstream)
        /\ UNCHANGED <<up, keystores, facade, serving, market, asks, crashes>>
        /\ \/ /\ Written(c)
              /\ store' = IF mode = "same" THEN store ELSE [store EXCEPT !.mode = mode]
              /\ harms' = IF mode = "provider" /\ config.mode # mode THEN harms \cup {"switched"}
                          ELSE harms
           \/ Unwritten(c) /\ UNCHANGED store
    BY <1>5 DEF ConfigUpdate
  <2>2. /\ c \in ConfigType /\ c.file = "written" /\ c.done = config.done
        /\ c.step = config.step /\ c.mode = m /\ (c.upstream <=> config.upstream \/ b)
        /\ c.nodeId = config.nodeId /\ c.serial = config.serial
    BY <1>0 DEF ConfigType, Modes
  <2> HIDE DEF c
  <2>3. Keeps
    <3>1. CASE /\ Written(c)
               /\ store' = IF mode = "same" THEN store ELSE [store EXCEPT !.mode = mode]
               /\ harms' = IF mode = "provider" /\ config.mode # mode THEN harms \cup {"switched"}
                           ELSE harms
      <4>1. config' = c /\ broken' = broken
        BY <3>1 DEF Written
      <4>2. /\ store' \in StoreType /\ store'.done = store.done /\ store'.step = store.step
            /\ store'.mode = IF mode = "same" THEN store.mode ELSE mode
        BY <1>0, <3>1 DEF StoreType
      <4>3. /\ harms \subseteq harms' /\ harms' \subseteq harms \cup {"switched"}
            /\ m = "provider" /\ config.mode # "provider" => "switched" \in harms'
        BY <3>1
      <4>4. StoreAgrees'
        BY <1>a, <2>1, <2>2, <4>1, <4>2, <4>3 DEF StoreAgrees
      <4>5. CompleteIsUsable'
        <5> SUFFICES ASSUME config'.done, config'.mode = "provider", "cut" \notin harms'
                     PROVE  /\ config'.upstream /\ config'.serial
                            /\ "switched" \notin harms' => config'.nodeId /\ (up' => facade')
          BY DEF CompleteIsUsable
        <5>1. config'.upstream /\ config'.serial
          BY <1>a, <2>1, <2>2, <4>1, <4>3 DEF SetupFiles
        <5>2. ASSUME "switched" \notin harms' PROVE config'.nodeId /\ (up' => facade')
          <6>1. config.mode = "provider" /\ config.done /\ "cut" \notin harms /\ "switched" \notin harms
            BY <2>2, <4>1, <4>3, <5>2
          <6> QED
            BY <1>a, <2>1, <2>2, <4>1, <6>1 DEF CompleteIsUsable
        <5> QED
          BY <5>1, <5>2
      <4>6. SetupFiles'
        BY <1>a, <2>1, <2>2, <4>1, <4>3 DEF SetupFiles
      <4>7. Clean' = Clean /\ harms' \subseteq HarmKinds
        BY <1>0, <4>3 DEF Clean, HarmKinds
      <4> QED
        BY <1>0, <2>2, <4>1, <4>2, <4>3, <4>4, <4>5, <4>6, <4>7
    <3>2. CASE Unwritten(c) /\ UNCHANGED store
      BY <1>0, <2>1, <2>2, <3>2, UnwrittenFacts
    <3> QED
      BY <2>1, <3>1, <3>2
  <2> QED
    BY <1>0, <2>1, <2>3, SetupKept
<1>6. CASE ReloadNode
  <2> DEFINE s == Loaded(store)
  <2>1. /\ up /\ store' = StepDerived(s) /\ facade' = HasFacade(config)
        /\ StartsIf(serving /\ Startable(store', config, keystores), store', keystores)
        /\ harms' = harms \ {"unwritten"} /\ config.file # "torn"
        /\ UNCHANGED <<up, config, market, asks, crashes, broken>>
    BY <1>6 DEF ReloadNode
  <2>2. /\ s \in StoreType /\ s.done = config.done /\ s.step = config.step /\ s.mode = config.mode
    BY <1>0, <1>a, LoadedFacts DEF SetupFiles
  <2> HIDE DEF s
  <2>3. /\ store' \in StoreType /\ store'.done = config.done /\ store'.step = config.step
        /\ store'.mode = config.mode
    BY <2>1, <2>2, DerivedFacts
  <2>4. /\ keystores' \in KeystoreType /\ serving' \in BOOLEAN
        /\ keystores.wizard.key # 0 => keystores'.wizard = keystores.wizard
    <3> DEFINE may == serving /\ Startable(store', config, keystores)
    <3>1. may \in BOOLEAN /\ (may => Opens(keystores, "runtime", store'.pass))
      BY DEF Startable
    <3>2. StartsIf(may, store', keystores)
      BY <2>1
    <3> HIDE DEF may
    <3> QED
      BY <1>0, <2>3, <3>1, <3>2, StartFacts
  <2>5. StoreAgrees' /\ CompleteIsUsable' /\ SetupFiles' /\ facade' \in BOOLEAN
    BY <1>0, <1>a, <2>1, <2>3
       DEF StoreAgrees, CompleteIsUsable, SetupFiles, ConfigType, HasFacade, NoConfig
  <2>6. Clean' = Clean
    BY <2>1 DEF Clean
  <2> QED
    BY <1>0, <2>1, <2>3, <2>4, <2>5, <2>6, SetupKept
<1> QED
  BY <1>1, <1>2, <1>3, <1>4, <1>5, <1>6

\* The requests that tell the market of a key, or cease to.
LEMMA SetupTold ==
  ASSUME SetupInv, NEW r \in SetupRequests,
         \/ \E b \in BOOLEAN : FinalizeProvider(r, b)
         \/ Registered(r) \/ RegisteredUnwritten(r) \/ MarketFails(r) \/ Rotate(r) \/ Rotated(r)
  PROVE  SetupInv'
<1>0. /\ config \in ConfigType /\ keystores \in KeystoreType /\ store \in StoreType
      /\ up \in BOOLEAN /\ facade \in BOOLEAN /\ serving \in BOOLEAN
      /\ asks \in [SetupRequests -> AskType] /\ market \in 0..MaxKeys
      /\ crashes \in 0..MaxCrashes /\ broken \in 0..MaxBroken /\ harms \subseteq HarmKinds
  BY DEF SetupInv, SetupRest, AskType
<1>a. StoreAgrees /\ CompleteIsUsable /\ SetupFiles /\ RegistersUsable /\ TellingOurs
  BY DEF SetupInv
\* A request that begins to tell is the only one, or the overlap is noted.
<1>b. ASSUME NEW what \in {"register", "rotate"}, NEW upstream \in BOOLEAN,
             keystores' \in KeystoreType, keystores'.wizard.key # 0,
             Waits(r, what, keystores'.wizard.key, upstream),
             what = "register" => upstream \/ config.upstream,
             harms' = IF Telling = {} THEN harms ELSE harms \cup {"overlap"},
             up, UNCHANGED <<up, config, facade, serving, market, crashes, broken>>,
             store' = store
      PROVE  SetupInv'
  <2> DEFINE ask == [for |-> what, key |-> keystores'.wizard.key, upstream |-> upstream]
  <2>1. asks[r] = Idle /\ asks' = [asks EXCEPT ![r] = ask]
    BY <1>b DEF Waits
  <2>2. ask \in AskType /\ ask.for = what /\ ask.key = keystores'.wizard.key /\ ask.upstream = upstream
    BY <1>b DEF AskType, KeystoreType, KeyStates
  <2> HIDE DEF ask
  <2>3. /\ asks' \in [SetupRequests -> AskType] /\ asks'[r] = ask
        /\ \A s \in SetupRequests \ {r} : asks'[s] = asks[s]
    BY <1>0, <2>1, <2>2
  <2>4. r \notin Telling /\ Telling' = Telling \cup {r}
    BY <2>1, <2>2, <2>3 DEF Telling, Idle
  <2>5. SetupRest'
    BY <1>0, <1>b, <2>3 DEF SetupRest, AskType, HarmKinds
  <2>6. StoreAgrees' /\ CompleteIsUsable' /\ SetupFiles'
    BY <1>a, <1>b DEF StoreAgrees, CompleteIsUsable, SetupFiles
  <2>7. RegistersUsable'
    BY <1>a, <1>b, <2>2, <2>3 DEF RegistersUsable
  <2>8. TellingOurs'
    <3>1. CASE Telling = {}
      BY <1>b, <2>2, <2>3, <2>4, <3>1 DEF TellingOurs
    <3>2. CASE Telling # {}
      BY <1>b, <3>2 DEF TellingOurs, Clean
    <3> QED
      BY <3>1, <3>2
  <2> QED
    BY <1>0, <1>b, <2>5, <2>6, <2>7, <2>8 DEF SetupInv
<1>1. ASSUME NEW b \in BOOLEAN, FinalizeProvider(r, b) PROVE SetupInv'
  <2>1. /\ Opens(keystores, "wizard", store.pass)
        /\ keystores' = Created(keystores, "wizard", store.pass) /\ store.pass \in Passphrases
    BY <1>0, <1>1 DEF FinalizeProvider, StoreType
  <2>2. keystores' \in KeystoreType /\ keystores'.wizard.key # 0
    BY <1>0, <2>1, CreatedFacts
  <2> QED
    BY <1>1, <1>b, <2>2 DEF FinalizeProvider
<1>2. CASE Rotate(r)
  <2>1. /\ keystores.drawn < MaxKeys /\ keystores' = Drawn(keystores, "wizard", store.pass) /\ up
        /\ store.pass \in Passphrases /\ UNCHANGED <<up, config, store, facade, serving, market, crashes, broken>>
    BY <1>0, <1>2 DEF Rotate, Sealing, StoreType
  <2>2. /\ keystores' \in KeystoreType /\ keystores'.drawn = keystores.drawn + 1
        /\ keystores'.wizard.key = keystores.drawn + 1
    <3>1. /\ keystores' \in KeystoreType /\ keystores'.drawn = keystores.drawn + 1
          /\ keystores'.wizard = [key |-> keystores.drawn + 1, seal |-> store.pass]
      BY <1>0, <2>1, DrawnFacts DEF Spot
    <3> QED
      BY <3>1
  <2>3. keystores'.wizard.key # 0 /\ keystores'.drawn = keystores'.wizard.key
    BY <1>0, <2>2, SetupAssumption DEF KeystoreType
  <2>4. CASE facade
    <3>1. Waits(r, "rotate", keystores'.wizard.key, FALSE)
      BY <1>2, <2>3, <2>4 DEF Rotate
    <3>2. harms' = IF Telling = {} THEN harms ELSE harms \cup {"overlap"}
      BY <1>2, <2>4 DEF Rotate
    <3> QED
      BY <1>b, <2>1, <2>2, <2>3, <3>1, <3>2
  <2>5. CASE ~facade
    <3>1. asks' = asks /\ "untold" \in harms' /\ harms' \subseteq harms \cup {"untold", "overlap"}
      BY <1>2, <2>5 DEF Rotate
    <3>2. SetupRest'
      BY <1>0, <2>1, <3>1 DEF SetupRest, AskType, HarmKinds
    <3>3. TellingOurs'
      BY <3>1 DEF TellingOurs, Clean
    <3>4. harms \subseteq harms'
      BY <1>2 DEF Rotate
    <3>5. StoreAgrees' /\ CompleteIsUsable' /\ SetupFiles' /\ RegistersUsable'
      BY <1>a, <2>1, <3>1, <3>4 DEF StoreAgrees, CompleteIsUsable, SetupFiles, RegistersUsable
    <3> QED
      BY <1>0, <2>1, <2>2, <3>2, <3>3, <3>4, <3>5 DEF SetupInv
  <2> QED
    BY <2>4, <2>5
\* A request that has told the market is no longer one that tells it.
<1>3. ASSUME Registered(r) \/ RegisteredUnwritten(r) \/ MarketFails(r) \/ Rotated(r)
      PROVE  /\ r \in Telling /\ up /\ asks' \in [SetupRequests -> AskType]
             /\ asks'[r].for = "done" /\ Telling' = Telling \ {r}
             /\ \A s \in SetupRequests \ {r} : asks'[s] = asks[s]
  <2>1. /\ asks[r].for \in {"register", "rotate"}
        /\ asks' = [asks EXCEPT ![r] = [asks[r] EXCEPT !.for = "done"]]
    BY <1>0, <1>3 DEF Registered, RegisteredUnwritten, MarketFails, Rotated, Answered
  <2>2. [asks[r] EXCEPT !.for = "done"] \in AskType /\ [asks[r] EXCEPT !.for = "done"].for = "done"
    BY <1>0 DEF AskType
  <2>3. /\ asks' \in [SetupRequests -> AskType] /\ asks'[r].for = "done"
        /\ \A s \in SetupRequests \ {r} : asks'[s] = asks[s]
    BY <1>0, <2>1, <2>2
  <2> QED
    BY <1>0, <1>a, <2>1, <2>3 DEF Telling, SetupFiles
<1>c. ASSUME asks' \in [SetupRequests -> AskType], asks'[r].for = "done",
             \A s \in SetupRequests \ {r} : asks'[s] = asks[s],
             "cut" \notin harms' => "cut" \notin harms /\ (config.upstream => config'.upstream)
      PROVE  RegistersUsable'
  BY <1>a, <1>c DEF RegistersUsable
<1>d. ASSUME r \in Telling, Telling' = Telling \ {r}, Clean' => Clean, market' = asks[r].key,
             \A s \in SetupRequests \ {r} : asks'[s] = asks[s],
             keystores.wizard.key # 0 => keystores'.wizard = keystores.wizard
      PROVE  TellingOurs'
  <2> SUFFICES ASSUME Clean PROVE TellingOurs'
    BY <1>d DEF TellingOurs
  <2>1. Telling = {r} /\ asks[r].key = keystores.wizard.key /\ asks[r].key # 0
    BY <1>a, <1>d DEF TellingOurs
  <2>2. Telling' = {}
    BY <1>d, <2>1
  <2> QED
    BY <1>d, <2>1, <2>2 DEF TellingOurs
<1>4. CASE Registered(r)
  <2> DEFINE s == [store EXCEPT !.done = TRUE, !.step = 5, !.mode = "provider"]
             c == Finalized("provider", asks[r].upstream)
  <2>1. /\ asks[r].for = "register" /\ market' = asks[r].key
        /\ config' = [c EXCEPT !.file = "written", !.nodeId = TRUE] /\ facade' = TRUE
        /\ store' = StepDerived(s) /\ harms' = harms \ Mended(config')
        /\ Autostarts(store', config', keystores) /\ UNCHANGED <<up, crashes, broken>>
    BY <1>4 DEF Registered, Completed, Written, Named
  <2>2. s \in StoreType /\ s.done = TRUE /\ s.step = 5 /\ s.mode = "provider"
    BY <1>0 DEF StoreType, Steps, Modes
  <2>3. /\ c \in ConfigType /\ c.file = "written" /\ c.done = TRUE /\ c.step = 5
        /\ c.mode = "provider" /\ c.serial = TRUE
        /\ (c.upstream <=> config.upstream \/ asks[r].upstream)
    <3>1. asks[r].upstream \in BOOLEAN
      BY <1>0 DEF AskType
    <3> QED
      BY <1>0, <3>1 DEF Finalized, ConfigType, Steps, Modes
  <2> HIDE DEF s, c
  <2>4. /\ config' \in ConfigType /\ config'.file = "written" /\ config'.done = TRUE /\ config'.step = 5
        /\ config'.mode = "provider" /\ config'.nodeId = TRUE /\ config'.serial = TRUE
        /\ config'.upstream = c.upstream
    BY <2>1, <2>3 DEF ConfigType
  <2>5. /\ store' \in StoreType /\ store'.done = TRUE /\ store'.step = 5 /\ store'.mode = "provider"
    BY <2>1, <2>2, DerivedFacts
  <2>6. /\ keystores' \in KeystoreType /\ serving' \in BOOLEAN
        /\ keystores.wizard.key # 0 => keystores'.wizard = keystores.wizard
    BY <1>0, <2>1, <2>4, <2>5, AutostartFacts
  <2>7. /\ "cut" \notin harms' => config'.upstream
        /\ harms' \subseteq harms /\ Clean' = Clean
    <3>1. /\ harms' \subseteq harms
          /\ harms \subseteq harms' \cup {"unwritten", "switched", "cut"}
          /\ config'.upstream \/ ("cut" \in harms => "cut" \in harms')
      BY <2>1 DEF Mended
    <3>2. Clean' = Clean
      BY <3>1 DEF Clean
    <3>3. "cut" \notin harms => config'.upstream
      BY <1>a, <2>1, <2>3, <2>4 DEF RegistersUsable
    <3> QED
      BY <3>1, <3>2, <3>3
  <2>8. StoreAgrees' /\ CompleteIsUsable' /\ SetupFiles'
    BY <1>3, <1>4, <2>1, <2>4, <2>5, <2>7 DEF StoreAgrees, CompleteIsUsable, SetupFiles
  <2>9. RegistersUsable'
    BY <1>3, <1>4, <2>7 DEF RegistersUsable
  <2>10. TellingOurs'
    BY <1>3, <1>4, <1>d, <2>1, <2>6, <2>7
  <2>11. SetupRest'
    <3>1. asks[r].key \in 0..MaxKeys
      BY <1>0 DEF AskType
    <3>2. facade' \in BOOLEAN /\ up' \in BOOLEAN /\ market' \in 0..MaxKeys
      BY <1>0, <2>1, <3>1
    <3>3. harms' \subseteq HarmKinds
      BY <1>0, <2>7
    <3> QED
      BY <1>0, <1>3, <1>4, <2>1, <2>6, <3>2, <3>3 DEF SetupRest, AskType
  <2> QED
    BY <2>4, <2>5, <2>6, <2>8, <2>9, <2>10, <2>11 DEF SetupInv
\* What the file was before the write that did not go through is as usable as it was.
<1>6. CASE RegisteredUnwritten(r)
  <2> DEFINE named == [config EXCEPT !.file = "written", !.nodeId = TRUE]
             final == Named(Finalized("provider", asks[r].upstream))
  <2>1. /\ asks[r].for = "register" /\ market' = asks[r].key
        /\ UNCHANGED <<up, keystores, store, serving, crashes>>
        /\ \/ Unwritten(named) /\ UNCHANGED facade
           \/ BreaksOff(named, final) /\ facade' = TRUE
           \/ BreaksOff(final, final) /\ facade' = TRUE
    BY <1>6 DEF RegisteredUnwritten, Named
  <2>2. /\ named \in ConfigType /\ named.file = "written" /\ named.nodeId = TRUE
        /\ named.done = config.done /\ named.mode = config.mode
        /\ named.upstream = config.upstream /\ named.serial = config.serial
    BY <1>0 DEF ConfigType
  <2>3. /\ final \in ConfigType /\ final.file = "written" /\ final.nodeId = TRUE
        /\ final.done = TRUE /\ final.mode = "provider" /\ final.serial = TRUE
        /\ (final.upstream <=> config.upstream \/ asks[r].upstream)
    <3> DEFINE c == Finalized("provider", asks[r].upstream)
    <3>1. asks[r].upstream \in BOOLEAN
      BY <1>0 DEF AskType
    <3>2. /\ c \in ConfigType /\ c.done = TRUE /\ c.mode = "provider" /\ c.serial = TRUE
          /\ (c.upstream <=> config.upstream \/ asks[r].upstream)
      BY <1>0, <3>1 DEF Finalized, ConfigType, Steps, Modes
    <3>3. final = [c EXCEPT !.file = "written", !.nodeId = TRUE]
      BY DEF Named
    <3> HIDE DEF c
    <3> QED
      BY <3>2, <3>3 DEF ConfigType
  <2> HIDE DEF named, final
  <2>4. ASSUME NEW old \in {named, final}, BreaksOff(old, final), facade' = TRUE
        PROVE  /\ config' \in ConfigType /\ broken' \in 0..MaxBroken /\ harms' \subseteq HarmKinds
               /\ Clean' = Clean /\ ("cut" \in harms => "cut" \in harms') /\ facade' \in BOOLEAN
               /\ "cut" \notin harms' => (config.upstream => config'.upstream)
               /\ StoreAgrees' /\ CompleteIsUsable' /\ SetupFiles'
    <3>1. /\ old \in ConfigType /\ old.file = "written" /\ old.nodeId = TRUE
          /\ (config.upstream => old.upstream) /\ (config.done => old.done)
          /\ old.serial = TRUE \/ (old.serial = config.serial /\ old.done = config.done)
      BY <2>2, <2>3, <2>4
    <3>2. /\ config' \in ConfigType /\ broken' \in 0..MaxBroken
          /\ harms \subseteq harms' /\ "unwritten" \in harms'
          /\ harms' \subseteq harms \cup {"unwritten", "cut"} /\ harms' \subseteq HarmKinds
          /\ config' = old \/ ("cut" \in harms' /\ config'.file # "absent")
      BY <1>0, <2>3, <2>4, <3>1, BrokenFacts
    <3>3. "cut" \notin harms' /\ old.done /\ old.mode = "provider" => old.upstream
      <4>1. CASE old = named
        BY <1>a, <2>2, <3>2, <4>1 DEF CompleteIsUsable
      <4>2. CASE old = final
        BY <1>a, <2>1, <2>3, <3>2, <4>2 DEF RegistersUsable
      <4> QED
        BY <2>4, <4>1, <4>2
    <3>4. StoreAgrees'
      BY <1>a, <2>1, <3>1, <3>2 DEF StoreAgrees
    <3>5. SetupFiles'
      BY <1>3, <1>6, <1>a, <2>1, <3>1, <3>2 DEF SetupFiles
    <3>6. CompleteIsUsable'
      BY <2>4, <3>1, <3>2, <3>3, <3>5 DEF CompleteIsUsable, SetupFiles
    <3>7. Clean' = Clean
      BY <3>2 DEF Clean
    <3> QED
      BY <2>4, <3>1, <3>2, <3>4, <3>5, <3>6, <3>7
  <2>5. /\ config' \in ConfigType /\ broken' \in 0..MaxBroken /\ harms' \subseteq HarmKinds
        /\ Clean' = Clean /\ ("cut" \in harms => "cut" \in harms') /\ facade' \in BOOLEAN
        /\ "cut" \notin harms' => (config.upstream => config'.upstream)
        /\ StoreAgrees' /\ CompleteIsUsable' /\ SetupFiles'
    <3>1. CASE Unwritten(named) /\ UNCHANGED facade
      BY <1>0, <1>3, <1>6, <2>1, <2>2, <3>1, UnwrittenFacts
    <3>2. CASE BreaksOff(named, final) /\ facade' = TRUE
      BY <2>4, <3>2
    <3>3. CASE BreaksOff(final, final) /\ facade' = TRUE
      BY <2>4, <3>3
    <3> QED
      BY <2>1, <3>1, <3>2, <3>3
  <2>6. RegistersUsable'
    BY <1>3, <1>6, <1>c, <2>5
  <2>7. TellingOurs'
    BY <1>3, <1>6, <1>d, <2>1, <2>5
  <2>8. SetupRest'
    <3>1. asks[r].key \in 0..MaxKeys
      BY <1>0 DEF AskType
    <3> QED
      BY <1>0, <1>3, <1>6, <2>1, <2>5, <3>1 DEF SetupRest, AskType
  <2> QED
    BY <1>0, <2>1, <2>5, <2>6, <2>7, <2>8 DEF SetupInv
<1>5. CASE MarketFails(r) \/ Rotated(r)
  <2>1. UNCHANGED <<up, config, keystores, store, facade, serving, crashes, broken>>
    BY <1>5 DEF MarketFails, Rotated
  <2>3. /\ harms \subseteq harms' /\ harms' \subseteq harms \cup {"market_failed"}
        /\ market' \in {market, asks[r].key}
    BY <1>5 DEF MarketFails, Rotated
  <2>2. StoreAgrees' /\ SetupFiles' /\ RegistersUsable'
    BY <1>3, <1>5, <1>a, <1>c, <2>1, <2>3 DEF StoreAgrees, SetupFiles
  <2>4. CompleteIsUsable'
    BY <1>a, <2>1, <2>3 DEF CompleteIsUsable
  <2>5. TellingOurs'
    <3>1. CASE MarketFails(r)
      BY <3>1 DEF MarketFails, TellingOurs, Clean
    <3>2. CASE Rotated(r)
      BY <1>3, <1>d, <2>1, <3>2 DEF Rotated, Clean
    <3> QED
      BY <1>5, <3>1, <3>2
  <2>6. SetupRest'
    <3>1. asks[r].key \in 0..MaxKeys
      BY <1>0 DEF AskType
    <3> QED
      BY <1>0, <1>3, <1>5, <2>1, <2>3, <3>1 DEF SetupRest, AskType, HarmKinds
  <2> QED
    BY <1>0, <2>1, <2>2, <2>4, <2>5, <2>6 DEF SetupInv
<1> QED
  BY <1>1, <1>2, <1>4, <1>5, <1>6

\* A crash takes the requests with it; a start goes on from the file.
LEMMA SetupRestarts ==
  ASSUME SetupInv, SetupBoot \/ SetupCrash
  PROVE  SetupInv'
<1>0. /\ config \in ConfigType /\ keystores \in KeystoreType /\ store \in StoreType
      /\ up \in BOOLEAN /\ facade \in BOOLEAN /\ serving \in BOOLEAN
      /\ asks \in [SetupRequests -> AskType] /\ market \in 0..MaxKeys
      /\ crashes \in 0..MaxCrashes /\ broken \in 0..MaxBroken /\ harms \subseteq HarmKinds
  BY DEF SetupInv, SetupRest, AskType
<1>a. StoreAgrees /\ CompleteIsUsable /\ SetupFiles /\ RegistersUsable /\ TellingOurs
  BY DEF SetupInv
<1>1. CASE SetupCrash
  <2>1. /\ up' = FALSE /\ serving' = FALSE /\ crashes < MaxCrashes /\ crashes' = crashes + 1
        /\ harms' = IF Telling = {} THEN harms ELSE harms \cup {"market_failed"}
        /\ market' \in {market} \cup {asks[r].key : r \in Telling}
        /\ asks' = [r \in SetupRequests |->
                      IF asks[r] = Idle THEN Idle ELSE [asks[r] EXCEPT !.for = "done"]]
        /\ UNCHANGED <<config, keystores, store, facade, broken>>
    BY <1>1 DEF SetupCrash
  <2>2. harms \subseteq harms' /\ harms' \subseteq HarmKinds
    BY <1>0, <2>1 DEF HarmKinds
  <2>3. /\ asks' \in [SetupRequests -> AskType]
        /\ \A r \in SetupRequests : asks'[r].for \in {"nothing", "done"}
    <3>1. Idle \in AskType /\ Idle.for = "nothing"
      BY SetupAssumption DEF Idle, AskType
    <3>2. \A r \in SetupRequests : /\ [asks[r] EXCEPT !.for = "done"] \in AskType
                                   /\ [asks[r] EXCEPT !.for = "done"].for = "done"
      BY <1>0 DEF AskType
    <3> QED
      BY <2>1, <3>1, <3>2
  <2>4. Telling' = {}
    BY <2>3 DEF Telling
  <2>5. StoreAgrees' /\ RegistersUsable' /\ SetupFiles'
    BY <1>a, <2>1, <2>2, <2>3 DEF StoreAgrees, RegistersUsable, SetupFiles
  <2>6. CompleteIsUsable'
    BY <1>a, <2>1, <2>2 DEF CompleteIsUsable
  <2>7. TellingOurs'
    <3>1. CASE Telling = {}
      BY <1>a, <2>1, <2>4, <3>1 DEF TellingOurs, Clean
    <3>2. CASE Telling # {}
      BY <2>1, <3>2 DEF TellingOurs, Clean
    <3> QED
      BY <3>1, <3>2
  <2>8. SetupRest'
    <3>1. market' \in 0..MaxKeys
      BY <1>0, <2>1 DEF AskType, Telling
    <3>2. crashes' \in 0..MaxCrashes
      BY <1>0, <2>1, SetupAssumption
    <3> QED
      BY <1>0, <2>1, <2>2, <2>3, <3>1, <3>2 DEF SetupRest, AskType
  <2> QED
    BY <1>0, <2>1, <2>5, <2>6, <2>7, <2>8 DEF SetupInv
<1>2. CASE SetupBoot
  <2> DEFINE s == Loaded(NewStore)
  <2>1. /\ up' = TRUE /\ store' = StepDerived(s) /\ facade' = HasFacade(config)
        /\ config.file # "torn" /\ harms' = harms \ {"unwritten"}
        /\ UNCHANGED <<config, keystores, serving, market, asks, crashes, broken>>
    BY <1>2 DEF SetupBoot
  <2>2. NewStore \in StoreType /\ NewStore.mode = "none"
    BY DEF NewStore, StoreType, Steps, Passphrases
  <2>3. /\ s \in StoreType /\ s.done = config.done /\ s.step = config.step /\ s.mode = config.mode
    BY <1>0, <1>a, <2>2, LoadedFacts DEF SetupFiles
  <2> HIDE DEF s
  <2>4. /\ store' \in StoreType /\ store'.done = config.done /\ store'.step = config.step
        /\ store'.mode = config.mode
    BY <2>1, <2>3, DerivedFacts
  <2>5. StoreAgrees' /\ CompleteIsUsable' /\ SetupFiles' /\ facade' \in BOOLEAN
    BY <1>0, <1>a, <2>1, <2>4
       DEF StoreAgrees, CompleteIsUsable, SetupFiles, ConfigType, HasFacade, NoConfig
  <2>6. Clean' = Clean
    BY <2>1 DEF Clean
  <2> QED
    BY <1>0, <2>1, <2>4, <2>5, <2>6, SetupKept
<1> QED
  BY <1>1, <1>2

\* Every step keeps the invariant.
LEMMA SetupStep == SetupInv /\ [SetupNext]_setupVars => SetupInv'
<1> SUFFICES ASSUME SetupInv, [SetupNext]_setupVars PROVE SetupInv'
  OBVIOUS
<1>1. CASE UNCHANGED setupVars
  BY <1>1 DEF setupVars, SetupInv, SetupRest, StoreAgrees, CompleteIsUsable, SetupFiles,
              RegistersUsable, TellingOurs, Telling, Clean
<1>2. CASE SetupNext
  BY <1>2, SetupServing, SetupConfigured, SetupTold, SetupRestarts DEF SetupNext
<1> QED
  BY <1>1, <1>2

\* So it always holds.
LEMMA SetupHolds == SetupSpec => []SetupInv
BY SetupInitial, SetupStep, PTL DEF SetupSpec

\* The store says of the setup what config.toml says, and a setup that is complete
\* can be used, whatever overlaps or crashes.
THEOREM SetupStaysSafe == SetupSpec => []SetupSafe
BY SetupImplied, SetupHolds, PTL

\* The market's key is the wizard's, as long as nothing that is known to part them
\* has happened.
THEOREM MarketKeepsOurKey == SetupSpec => []MarketHasOurKey
BY SetupImplied, SetupHolds, PTL

\* No step takes a readable keystore from an unlocked node.
LEMMA SealStep ==
  ASSUME SetupInv, SetupNext, up, store.unlocked, keystores.wizard.key # 0,
         keystores.wizard.seal = store.pass
  PROVE  keystores'.wizard.seal = keystores.wizard.seal
<1>0. /\ config \in ConfigType /\ keystores \in KeystoreType /\ store \in StoreType
      /\ serving \in BOOLEAN /\ store.pass \in Passphrases
  BY DEF SetupInv, SetupRest, StoreType
<1>1. CASE UNCHANGED keystores
  BY <1>1
<1>2. ASSUME NEW r \in SetupRequests, Rotate(r) PROVE keystores'.wizard.seal = store.pass
  <2>1. keystores' = Drawn(keystores, "wizard", store.pass) /\ keystores.drawn < MaxKeys
    BY <1>2 DEF Rotate, Sealing
  <2>2. keystores'.wizard = [key |-> keystores.drawn + 1, seal |-> store.pass]
    BY <1>0, <2>1, DrawnFacts DEF Spot
  <2> QED
    BY <2>2
<1>3. ASSUME NEW r \in SetupRequests, NEW b \in BOOLEAN, FinalizeProvider(r, b)
      PROVE  keystores'.wizard = keystores.wizard
  BY <1>0, <1>3, CreatedFacts DEF FinalizeProvider
<1>4. ASSUME NEW r \in SetupRequests, Registered(r) PROVE keystores'.wizard = keystores.wizard
  <2>1. store' \in StoreType /\ config' \in ConfigType
    BY <1>4, SetupTold DEF SetupInv
  <2> QED
    BY <1>0, <1>4, <2>1, AutostartFacts DEF Registered
<1>5. ASSUME NEW pass \in Passphrases, UnlockNode(pass) PROVE keystores'.wizard = keystores.wizard
  <2> DEFINE ks == Created(keystores, "wizard", pass)
  <2>1. ks \in KeystoreType /\ ks.wizard = keystores.wizard
    BY <1>0, <1>5, CreatedFacts DEF UnlockNode
  <2>2. store' \in StoreType
    BY <1>5, SetupServing DEF SetupInv
  <2>3. Autostarts(store', config, ks)
    BY <1>5 DEF UnlockNode
  <2> HIDE DEF ks
  <2> QED
    BY <1>0, <2>1, <2>2, <2>3, AutostartFacts
<1>6. CASE StartProviderAsked
  <2>1. /\ StartsIf(TRUE, store, keystores) /\ Opens(keystores, "runtime", store.pass)
    BY <1>6 DEF StartProviderAsked, Startable
  <2> QED
    BY <1>0, <2>1, StartFacts
<1>7. CASE ReloadNode
  <2> DEFINE may == serving /\ Startable(store', config, keystores)
  <2>1. StartsIf(may, store', keystores) /\ store' \in StoreType
    BY <1>7, SetupConfigured DEF ReloadNode, SetupInv
  <2>2. may \in BOOLEAN /\ (may => Opens(keystores, "runtime", store'.pass))
    BY DEF Startable
  <2> HIDE DEF may
  <2> QED
    BY <1>0, <2>1, <2>2, StartFacts
<1>8. ASSUME \/ \E r \in SetupRequests : \/ TestConnection(r) \/ MarketFails(r) \/ Rotated(r)
                                         \/ \E b \in BOOLEAN : ConnectionTested(r, b)
             \/ \E r \in SetupRequests : RegisteredUnwritten(r)
             \/ \E mode \in Modes \cup {"same"}, b \in BOOLEAN : ConfigUpdate(mode, b)
             \/ FinalizeConsumer \/ StopProviderAsked \/ LockNode \/ SetupCrash
             \/ SetupBoot \/ \E pass \in Passphrases : SetupKeypair(pass)
      PROVE  UNCHANGED keystores
  BY <1>8 DEF TestConnection, MarketFails, Rotated, ConnectionTested, ConfigUpdate, SetupCrash,
              FinalizeConsumer, StopProviderAsked, LockNode, SetupBoot, RegisteredUnwritten,
              SetupKeypair
<1> QED
  BY <1>1, <1>2, <1>3, <1>4, <1>5, <1>6, <1>7, <1>8 DEF SetupNext

\* No rotation, and nothing else, seals a keystore an unlocked node can read so
\* that it no longer can.
THEOREM SealStaysKept == SetupSpec => SealKept
<1>1. SetupInv /\ [SetupNext]_setupVars
      => [up /\ store.unlocked /\ keystores.wizard.key # 0 /\ keystores.wizard.seal = store.pass
          => keystores'.wizard.seal = keystores.wizard.seal]_setupVars
  BY SealStep
<1> QED
  BY <1>1, SetupHolds, PTL DEF SetupSpec, SealKept

-----------------------------------------------------------------------------
(* ToolSchema.                                                             *)

\* The schemas nested less than n deep.
Shallow(n) == UNION {Nested[m] : m \in {m \in 0..MaxDepth : m < n}}

\* The levels give all schemas, and the parts of a schema are of lower levels.
LEMMA Levels ==
  /\ Shallow(0) = {}
  /\ Shallow(MaxDepth + 1) = Schemas
  /\ \A n \in Nat : Shallow(n) \subseteq Shallow(n + 1)
  /\ \A n \in Nat : \A s \in Shallow(n + 1) : s.type = "object" => Parts(s) \subseteq Shallow(n)
<1>1. MaxDepth \in Nat
  BY SchemaAssumption
<1>2. Shallow(0) = {} /\ Shallow(MaxDepth + 1) = Schemas
  <2>1. {m \in 0..MaxDepth : m < 0} = {} /\ {m \in 0..MaxDepth : m < MaxDepth + 1} = 0..MaxDepth
    BY <1>1
  <2> QED
    BY <2>1 DEF Shallow, Schemas
<1>3. ASSUME NEW n \in Nat PROVE Shallow(n) \subseteq Shallow(n + 1)
  <2>1. \A m \in 0..MaxDepth : m < n => m < n + 1
    BY <1>1
  <2> QED
    BY <2>1 DEF Shallow
<1>4. ASSUME NEW n \in Nat, NEW s \in Shallow(n + 1), s.type = "object"
      PROVE  Parts(s) \subseteq Shallow(n)
  <2>1. PICK m \in 0..MaxDepth : m < n + 1 /\ s \in Nested[m]
    BY <1>4 DEF Shallow
  <2>2. ASSUME NEW t \in Parts(s) PROVE t \in Shallow(n)
    <3>1. PICK k \in 0..(m - 1) : t \in Nested[k]
      BY <1>4, <2>1, SchemaAssumption
    <3>2. k \in 0..MaxDepth /\ k < n
      BY <1>1, <2>1
    <3> QED
      BY <3>1, <3>2 DEF Shallow
  <2> QED
    BY <2>2
<1> QED
  BY <1>2, <1>3, <1>4

\* What the schema of a property is.
LEMMA PartsOf ==
  ASSUME NEW s
  PROVE  /\ \A f \in s.required : PropertySchema(s, f) # NoSchema => PropertySchema(s, f) \in Parts(s)
         /\ \A f \in DOMAIN s.props : s.props[f] # NoSchema => s.props[f] \in Parts(s)
         /\ \A f \in DOMAIN s.props : PropertySchema(s, f) = s.props[f]
         /\ \A f : f \notin DOMAIN s.props => PropertySchema(s, f) # NoSchema
<1>1. Anything # NoSchema
  BY DEF Anything, NoSchema
<1>2. \A f \in DOMAIN s.props : PropertySchema(s, f) = s.props[f]
  BY DEF PropertySchema
<1>3. \A f : f \notin DOMAIN s.props => PropertySchema(s, f) = Anything
  BY DEF PropertySchema
<1> QED
  BY <1>1, <1>2, <1>3 DEF Parts

\* _minimal_value looks at the parts of its schema only.
LEMMA MinimalLocal ==
  ASSUME NEW s, NEW g, NEW h, s.type = "object" => \A t \in Parts(s) : g[t] = h[t]
  PROVE  Minimal(s, g) = Minimal(s, h)
<1>1. CASE s.type = "object"
  <2> DEFINE D == {f \in s.required : PropertySchema(s, f) # NoSchema}
  <2>1. \A f \in D : g[PropertySchema(s, f)] = h[PropertySchema(s, f)]
    BY <1>1, PartsOf
  <2>2. [f \in D |-> g[PropertySchema(s, f)]] = [f \in D |-> h[PropertySchema(s, f)]]
    BY <2>1
  <2>3. Sample(s, g) = Sample(s, h)
    BY <2>2 DEF Sample
  <2> QED
    BY <2>3 DEF Minimal
<1>2. CASE s.type # "object"
  BY <1>2 DEF Minimal
<1> QED
  BY <1>1, <1>2

\* So does _matches_schema.
LEMMA MatchesLocal ==
  ASSUME NEW s, NEW v, NEW g, NEW h, s.type = "object" => \A t \in Parts(s) : g[t] = h[t]
  PROVE  Matches(s, v, g) = Matches(s, v, h)
<1>1. CASE s.type = "object"
  <2>1. \A f \in DOMAIN s.props : s.props[f] # NoSchema => g[s.props[f]] = h[s.props[f]]
    BY <1>1, PartsOf
  <2> DEFINE Rest(m) == \A f \in DOMAIN s.props \cap DOMAIN v.fields :
                          s.props[f] # NoSchema => m[s.props[f]][v.fields[f]]
  <2>2. Rest(g) <=> Rest(h)
    BY <2>1
  <2> DEFINE Whole(m) == v.kind = "dict" /\ s.required \subseteq DOMAIN v.fields /\ Rest(m)
  <2>3. Matches(s, v, g) = Whole(g) /\ Matches(s, v, h) = Whole(h)
    BY <1>1 DEF Matches
  <2>4. Whole(g) = Whole(h)
    <3> HIDE DEF Rest
    <3> QED
      BY <2>2
  <2> HIDE DEF Whole
  <2> QED
    BY <2>3, <2>4
<1>2. CASE s.type # "object"
  BY <1>2 DEF Matches
<1> QED
  BY <1>1, <1>2

\* And so does what the schema has to say.
LEMMA FitsLocal ==
  ASSUME NEW s, NEW g, NEW h, s.type = "object" => \A t \in Parts(s) : g[t] = h[t]
  PROVE  Fits(s, g) = Fits(s, h)
<1>1. CASE s.type = "object"
  <2>1. \A f \in DOMAIN s.props : s.props[f] # NoSchema => g[s.props[f]] = h[s.props[f]]
    BY <1>1, PartsOf
  <2> DEFINE Rest(m) ==
        \A f \in DOMAIN s.props \cap s.required : s.props[f] # NoSchema /\ m[s.props[f]]
  <2>2. Rest(g) = Rest(h)
    BY <2>1
  <2>3. CASE s.default # NoDefault
    BY <2>3 DEF Fits
  <2>4. CASE s.default = NoDefault
    <3>1. Fits(s, g) = Rest(g) /\ Fits(s, h) = Rest(h)
      BY <1>1, <2>4 DEF Fits
    <3> QED
      BY <2>2, <3>1
  <2> QED
    BY <2>3, <2>4
<1>2. CASE s.type # "object"
  BY <1>2 DEF Fits
<1> QED
  BY <1>1, <1>2

\* _minimal_value is defined on every schema: its definition goes down the levels.
LEMMA MinimalDefined ==
  MinimalValue = [s \in Schemas |-> Minimal(s, MinimalValue)]
<1> DEFINE Made(n) == \E h : h = [s \in Shallow(n) |-> Minimal(s, h)]
           T == {n \in Nat : Made(n)}
<1>1. Made(0)
  <2>1. [s \in {} |-> 0] = [s \in Shallow(0) |-> Minimal(s, [t \in {} |-> 0])]
    BY Levels
  <2> QED
    BY <2>1
<1>2. ASSUME NEW n \in Nat, Made(n) PROVE Made(n + 1)
  <2>1. PICK g : g = [s \in Shallow(n) |-> Minimal(s, g)]
    BY <1>2
  <2> DEFINE further == [s \in Shallow(n + 1) |-> Minimal(s, g)]
  <2>2. ASSUME NEW s \in Shallow(n + 1) PROVE further[s] = Minimal(s, further)
    <3>1. \A t \in Shallow(n) : g[t] = further[t]
      BY <2>1, Levels
    <3>2. s.type = "object" => \A t \in Parts(s) : g[t] = further[t]
      BY <3>1, Levels
    <3>3. further[s] = Minimal(s, g)
      OBVIOUS
    <3> HIDE DEF further
    <3> QED
      BY <3>2, <3>3, MinimalLocal
  <2> HIDE DEF further
  <2>3. further = [s \in Shallow(n + 1) |-> further[s]]
    BY DEF further
  <2>4. further = [s \in Shallow(n + 1) |-> Minimal(s, further)]
    BY <2>2, <2>3
  <2> QED
    BY <2>4
<1>3. Made(MaxDepth + 1)
  <2> HIDE DEF Made
  <2>1. 0 \in T /\ \A n \in Nat : n \in T => n + 1 \in T
    BY <1>1, <1>2
  <2>2. Nat \subseteq T
    <3> HIDE DEF T
    <3> QED
      BY <2>1, SetInduction
  <2> QED
    BY <2>2, SchemaAssumption
<1>4. \E h : h = [s \in Schemas |-> Minimal(s, h)]
  BY <1>3, Levels
<1> QED
  BY <1>4 DEF MinimalValue

\* _matches_schema is defined on every schema and on the values that it can meet.
LEMMA MatchesDefined ==
  MatchesSchema = [s \in Schemas |-> [v \in Met |-> Matches(s, v, MatchesSchema)]]
<1> DEFINE Made(n) == \E h : h = [s \in Shallow(n) |-> [v \in Met |-> Matches(s, v, h)]]
           T == {n \in Nat : Made(n)}
<1>1. Made(0)
  <2>1. [s \in {} |-> 0] = [s \in Shallow(0) |-> [v \in Met |-> Matches(s, v, [t \in {} |-> 0])]]
    BY Levels
  <2> QED
    BY <2>1
<1>2. ASSUME NEW n \in Nat, Made(n) PROVE Made(n + 1)
  <2>1. PICK g : g = [s \in Shallow(n) |-> [v \in Met |-> Matches(s, v, g)]]
    BY <1>2
  <2> DEFINE further == [s \in Shallow(n + 1) |-> [v \in Met |-> Matches(s, v, g)]]
  <2>2. ASSUME NEW s \in Shallow(n + 1) PROVE further[s] = [v \in Met |-> Matches(s, v, further)]
    <3>1. \A t \in Shallow(n) : g[t] = further[t]
      BY <2>1, Levels
    <3>2. s.type = "object" => \A t \in Parts(s) : g[t] = further[t]
      BY <3>1, Levels
    <3>3. further[s] = [v \in Met |-> Matches(s, v, g)]
      OBVIOUS
    <3> HIDE DEF further
    <3>4. \A v \in Met : Matches(s, v, g) = Matches(s, v, further)
      BY <3>2, MatchesLocal
    <3> QED
      BY <3>3, <3>4
  <2> HIDE DEF further
  <2>3. further = [s \in Shallow(n + 1) |-> further[s]]
    BY DEF further
  <2>4. further = [s \in Shallow(n + 1) |-> [v \in Met |-> Matches(s, v, further)]]
    BY <2>2, <2>3
  <2> QED
    BY <2>4
<1>3. Made(MaxDepth + 1)
  <2> HIDE DEF Made
  <2>1. 0 \in T /\ \A n \in Nat : n \in T => n + 1 \in T
    BY <1>1, <1>2
  <2>2. Nat \subseteq T
    <3> HIDE DEF T
    <3> QED
      BY <2>1, SetInduction
  <2> QED
    BY <2>2, SchemaAssumption
<1>4. \E h : h = [s \in Schemas |-> [v \in Met |-> Matches(s, v, h)]]
  BY <1>3, Levels
<1> QED
  BY <1>4 DEF MatchesSchema

\* What the schema has to say is defined on every schema.
LEMMA FitsDefined ==
  SampleFits = [s \in Schemas |-> Fits(s, SampleFits)]
<1> DEFINE Made(n) == \E h : h = [s \in Shallow(n) |-> Fits(s, h)]
           T == {n \in Nat : Made(n)}
<1>1. Made(0)
  <2>1. [s \in {} |-> 0] = [s \in Shallow(0) |-> Fits(s, [t \in {} |-> 0])]
    BY Levels
  <2> QED
    BY <2>1
<1>2. ASSUME NEW n \in Nat, Made(n) PROVE Made(n + 1)
  <2>1. PICK g : g = [s \in Shallow(n) |-> Fits(s, g)]
    BY <1>2
  <2> DEFINE further == [s \in Shallow(n + 1) |-> Fits(s, g)]
  <2>2. ASSUME NEW s \in Shallow(n + 1) PROVE further[s] = Fits(s, further)
    <3>1. \A t \in Shallow(n) : g[t] = further[t]
      BY <2>1, Levels
    <3>2. s.type = "object" => \A t \in Parts(s) : g[t] = further[t]
      BY <3>1, Levels
    <3>3. further[s] = Fits(s, g)
      OBVIOUS
    <3> HIDE DEF further
    <3> QED
      BY <3>2, <3>3, FitsLocal
  <2> HIDE DEF further
  <2>3. further = [s \in Shallow(n + 1) |-> further[s]]
    BY DEF further
  <2>4. further = [s \in Shallow(n + 1) |-> Fits(s, further)]
    BY <2>2, <2>3
  <2> QED
    BY <2>4
<1>3. Made(MaxDepth + 1)
  <2> HIDE DEF Made
  <2>1. 0 \in T /\ \A n \in Nat : n \in T => n + 1 \in T
    BY <1>1, <1>2
  <2>2. Nat \subseteq T
    <3> HIDE DEF T
    <3> QED
      BY <2>1, SetInduction
  <2> QED
    BY <2>2, SchemaAssumption
<1>4. \E h : h = [s \in Schemas |-> Fits(s, h)]
  BY <1>3, Levels
<1> QED
  BY <1>4 DEF SampleFits

\* What the three functions give for a schema; _matches_schema can meet its sample.
LEMMA SampleFacts ==
  ASSUME NEW s \in Schemas
  PROVE  /\ MinimalValue[s] = Minimal(s, MinimalValue)
         /\ MinimalValue[s] \in Met
         /\ \A v \in Met : MatchesSchema[s][v] = Matches(s, v, MatchesSchema)
         /\ SampleFits[s] = Fits(s, SampleFits)
<1>1. MinimalValue[s] = Minimal(s, MinimalValue)
  BY MinimalDefined
<1>2. MinimalValue[s] \in Met
  BY DEF Met
<1>3. MatchesSchema[s] = [v \in Met |-> Matches(s, v, MatchesSchema)]
  BY MatchesDefined
<1>4. SampleFits[s] = Fits(s, SampleFits)
  BY FitsDefined
<1> QED
  BY <1>1, <1>2, <1>3, <1>4

\* _matches_schema meets no other values: those with the values of their fields are Met.
LEMMA MetClosed == \A v \in Met : \A f \in DOMAIN v.fields : v.fields[f] \in Met
<1>1. ASSUME NEW s \in Schemas, s.type = "object" PROVE Parts(s) \subseteq Schemas
  BY <1>1, SchemaAssumption DEF Schemas
<1>2. ASSUME NEW v \in Values, NEW f \in DOMAIN v.fields PROVE v.fields[f] \in Met
  BY SchemaAssumption DEF Met
<1>3. ASSUME NEW s \in Schemas, NEW f \in DOMAIN MinimalValue[s].fields
      PROVE  MinimalValue[s].fields[f] \in Met
  <2>1. MinimalValue[s] = Minimal(s, MinimalValue)
    BY SampleFacts
  <2>2. CASE s.default # NoDefault
    <3>1. s.default \in Values /\ MinimalValue[s] = s.default
      BY <2>1, <2>2, SchemaAssumption DEF Schemas, Minimal
    <3> QED
      BY <1>2, <1>3, <3>1
  <2>3. CASE s.default = NoDefault /\ s.type = "object"
    <3>1. MinimalValue[s].fields =
            [g \in {g \in s.required : PropertySchema(s, g) # NoSchema} |->
               MinimalValue[PropertySchema(s, g)]]
      BY <2>1, <2>3 DEF Minimal, Sample
    <3>2. f \in s.required /\ PropertySchema(s, f) \in Parts(s)
      BY <1>3, <3>1, PartsOf
    <3>3. Parts(s) \subseteq Schemas
      BY <1>1, <2>3
    <3> QED
      BY <1>3, <3>1, <3>2, <3>3 DEF Met
  <2>4. CASE s.default = NoDefault /\ s.type # "object"
    <3>1. MinimalValue[s].fields = NoFields
      BY <2>1, <2>4 DEF Minimal, Value
    <3> QED
      BY <1>3, <3>1 DEF NoFields
  <2> QED
    BY <2>2, <2>3, <2>4
<1> QED
  BY <1>2, <1>3 DEF Met

\* The sample of a schema matches it if and only if its fields' samples match theirs.
LEMMA SampleOfObject ==
  ASSUME NEW s \in Schemas, s.type = "object", s.default = NoDefault
  PROVE  MatchesSchema[s][MinimalValue[s]] <=>
           \A f \in DOMAIN s.props \cap s.required :
             s.props[f] # NoSchema /\ MatchesSchema[s.props[f]][MinimalValue[s.props[f]]]
<1> DEFINE v == MinimalValue[s]
           D == {f \in s.required : PropertySchema(s, f) # NoSchema}
<1>1. v = Sample(s, MinimalValue)
  BY SampleFacts DEF Minimal
<1>2. v.kind = "dict" /\ v.fields = [f \in D |-> MinimalValue[PropertySchema(s, f)]]
  BY <1>1 DEF Sample
<1>3. MatchesSchema[s][v] = Matches(s, v, MatchesSchema)
  BY SampleFacts
<1> HIDE DEF v
<1>4. Matches(s, v, MatchesSchema) <=>
        /\ s.required \subseteq D
        /\ \A f \in DOMAIN s.props \cap D :
             s.props[f] # NoSchema => MatchesSchema[s.props[f]][v.fields[f]]
  <2>1. Matches(s, v, MatchesSchema) <=>
          /\ v.kind = "dict"
          /\ s.required \subseteq DOMAIN v.fields
          /\ \A f \in DOMAIN s.props \cap DOMAIN v.fields :
               s.props[f] # NoSchema => MatchesSchema[s.props[f]][v.fields[f]]
    BY Zenon DEF Matches
  <2>2. DOMAIN v.fields = D
    BY <1>2
  <2> QED
    BY <1>2, <2>1, <2>2, Zenon
<1>5. \A f \in DOMAIN s.props \cap D : v.fields[f] = MinimalValue[s.props[f]]
  BY <1>2, PartsOf
<1>6. s.required \subseteq D <=> \A f \in DOMAIN s.props \cap s.required : s.props[f] # NoSchema
  BY PartsOf
<1>7. \A f \in DOMAIN s.props \cap s.required : s.props[f] # NoSchema <=> f \in D
  BY PartsOf
<1> HIDE DEF D
<1>8. Matches(s, v, MatchesSchema) <=>
        /\ \A f \in DOMAIN s.props \cap s.required : s.props[f] # NoSchema
        /\ \A f \in DOMAIN s.props \cap D :
             s.props[f] # NoSchema => MatchesSchema[s.props[f]][MinimalValue[s.props[f]]]
  BY <1>4, <1>5, <1>6, Zenon
<1>9. D \subseteq s.required
  BY DEF D
<1>10. Matches(s, v, MatchesSchema) <=>
         \A f \in DOMAIN s.props \cap s.required :
           s.props[f] # NoSchema /\ MatchesSchema[s.props[f]][MinimalValue[s.props[f]]]
  BY <1>7, <1>8, <1>9, Zenon
<1> QED
  BY <1>3, <1>10, Zenon DEF v

\* A schema without a default, and not of an object, is matched by its sample.
LEMMA SampleOfPlain ==
  ASSUME NEW s \in Schemas, s.type # "object", s.default = NoDefault
  PROVE  MatchesSchema[s][MinimalValue[s]]
<1> DEFINE v == MinimalValue[s]
<1>1. v = Minimal(s, MinimalValue) /\ MatchesSchema[s][v] = Matches(s, v, MatchesSchema)
  BY SampleFacts
<1>2. Matches(s, v, MatchesSchema)
  BY <1>1 DEF Minimal, Matches, Value
<1> QED
  BY <1>1, <1>2

\* By induction over the levels.
LEMMA SamplesFit ==
  \A s \in Schemas : MatchesSchema[s][MinimalValue[s]] <=> SampleFits[s]
<1> DEFINE Right(s) == MatchesSchema[s][MinimalValue[s]] <=> SampleFits[s]
           T == {n \in Nat : \A s \in Shallow(n) : Right(s)}
<1>1. 0 \in T
  BY Levels
<1>2. ASSUME NEW n \in Nat, n \in T PROVE n + 1 \in T
  <2> SUFFICES ASSUME NEW s \in Shallow(n + 1) PROVE Right(s)
    OBVIOUS
  <2>1. s \in Schemas /\ SampleFits[s] = Fits(s, SampleFits)
    BY SampleFacts DEF Shallow, Schemas
  <2>2. CASE s.default # NoDefault
    <3>1. MinimalValue[s] = s.default
      BY <2>1, <2>2, SampleFacts DEF Minimal
    <3>2. Fits(s, SampleFits) = MatchesSchema[s][s.default]
      BY <2>2 DEF Fits
    <3> QED
      BY <2>1, <3>1, <3>2
  <2>3. CASE s.default = NoDefault /\ s.type = "object"
    <3>1. \A f \in DOMAIN s.props : s.props[f] # NoSchema => Right(s.props[f])
      <4>1. Parts(s) \subseteq Shallow(n)
        BY <2>3, Levels
      <4>2. \A t \in Parts(s) : Right(t)
        BY <1>2, <4>1
      <4> QED
        BY <4>2, PartsOf
    <3>2. Fits(s, SampleFits) <=> \A f \in DOMAIN s.props \cap s.required :
                                    s.props[f] # NoSchema /\ SampleFits[s.props[f]]
      BY <2>3, Zenon DEF Fits
    <3>3. MatchesSchema[s][MinimalValue[s]] <=>
            \A f \in DOMAIN s.props \cap s.required :
              s.props[f] # NoSchema /\ MatchesSchema[s.props[f]][MinimalValue[s.props[f]]]
      BY <2>1, <2>3, SampleOfObject
    <3> QED
      BY <2>1, <3>1, <3>2, <3>3, Zenon
  <2>4. CASE s.default = NoDefault /\ s.type # "object"
    BY <2>1, <2>4, SampleOfPlain DEF Fits
  <2> QED
    BY <2>2, <2>3, <2>4
<1>3. Nat \subseteq T
  <2> HIDE DEF T
  <2> QED
    BY <1>1, <1>2, SetInduction
<1>4. MaxDepth + 1 \in T
  BY <1>3, SchemaAssumption
<1> QED
  BY <1>4, Levels

\* The arguments of a sample call match the tool's schema if and only if the defaults in
\* it do and each required field that is described is described by a schema.
THEOREM SamplesMatch == SchemaSpec => []SampleMatches
<1> DEFINE InSchemas == schema \in Schemas
<1>1. SchemaInit => InSchemas
  BY DEF SchemaInit
<1>2. InSchemas /\ [SchemaNext]_schemaVars => InSchemas'
  BY DEF SchemaNext, schemaVars
<1>3. InSchemas => SampleMatches
  BY SamplesFit DEF SampleMatches
<1> QED
  BY <1>1, <1>2, <1>3, PTL DEF SchemaSpec
=============================================================================
