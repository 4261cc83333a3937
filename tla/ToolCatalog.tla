---------------------------- MODULE ToolCatalog -----------------------------
(***************************************************************************)
(* The provider's catalogue of tools: management/tools.py.                 *)
(*                                                                         *)
(* tools_discover asks the upstream for its tools and replaces the file    *)
(* store/discovered_tools; tools_validate reads a tool from that file,     *)
(* calls it at the upstream with a sample and writes the verdict into the  *)
(* file as it is then.  Both await the upstream between their read and     *)
(* their write, and nothing keeps two requests apart.  A tool is named by  *)
(* a hash of its name and version, so its schema may change under its id.  *)
(*                                                                         *)
(* A schema is its revision, 0 where there is no such tool.  The upstream  *)
(* (external) changes its tools, and handles what it is asked, when it     *)
(* likes.  What the functions do with a schema is in ToolSchema.           *)
(***************************************************************************)
EXTENDS Naturals, FiniteSets

CONSTANTS
  Tools,       \* tool ids
  Scans,       \* requests of tools_discover
  Validations, \* requests of tools_validate
  MaxRevision  \* bound: how often the upstream changes a tool

ASSUME CatalogAssumption == Tools # {} /\ MaxRevision \in Nat \ {0}

VARIABLES
  offer,   \* [Tools -> revision]: what the upstream has
  sound,   \* the tools that answer as their schema says
  catalog, \* [Tools -> [schema, status]]: the file discovered_tools
  scan,    \* [Scans -> [pc, got]]
  valid,   \* [Validations -> [pc, tool, schema, verdict]]
  \* history
  judged,  \* what the upstream's answers said: the last verdict on each tool
  crossing \* two requests have overlapped

catalogVars == <<offer, sound, catalog, scan, valid, judged, crossing>>

Revisions == 0..MaxRevision
Verdicts == {"passed", "failed"}
NotListed == [schema |-> 0, status |-> "pending"]
NotJudged == [schema |-> 0, verdict |-> "failed"]
NoScan == [pc |-> "idle", got |-> [t \in Tools |-> 0]]

CatalogTypeOK ==
  /\ offer \in [Tools -> Revisions]
  /\ sound \in SUBSET Tools
  /\ catalog \in [Tools -> [schema : Revisions, status : Verdicts \cup {"pending"}]]
  /\ scan \in [Scans -> [pc : {"idle", "asked", "answered", "done"}, got : [Tools -> Revisions]]]
  /\ valid \in [Validations -> [pc : {"idle", "asked", "answered", "done"}, tool : Tools,
                                schema : Revisions, verdict : Verdicts]]
  /\ judged \in [Tools -> [schema : Revisions, verdict : Verdicts]]
  /\ crossing \in BOOLEAN

CatalogInit ==
  /\ offer \in [Tools -> {0, 1}]
  /\ sound = Tools
  /\ catalog = [t \in Tools |-> NotListed]
  /\ scan = [s \in Scans |-> NoScan]
  /\ valid = [v \in Validations |-> [pc |-> "idle", tool |-> CHOOSE t \in Tools : TRUE,
                                     schema |-> 0, verdict |-> "failed"]]
  /\ judged = [t \in Tools |-> NotJudged]
  /\ crossing = FALSE

InFlight(pc) == pc \in {"asked", "answered"}
Pending == \/ \E s \in Scans : InFlight(scan[s].pc)
           \/ \E v \in Validations : InFlight(valid[v].pc)

-----------------------------------------------------------------------------
(***************************************************************************)
(* The upstream: a tool is changed, withdrawn or brought back, or begins   *)
(* or ceases to answer as it should.                                       *)
(***************************************************************************)
UpstreamChanges(t) ==
  /\ \/ offer[t] < MaxRevision /\ offer' = [offer EXCEPT ![t] = @ + 1]
     \/ offer[t] = MaxRevision /\ offer' = [offer EXCEPT ![t] = 0]
  /\ sound' \in {sound \cup {t}, sound \ {t}}
  /\ UNCHANGED <<catalog, scan, valid, judged, crossing>>

(***************************************************************************)
(* scan_upstream: the request, the upstream's answer, and the write of all *)
(* the tools as pending.  A request that fails writes nothing.             *)
(***************************************************************************)
ScanAsks(s) ==
  /\ scan[s].pc = "idle"
  /\ scan' = [scan EXCEPT ![s].pc = "asked"]
  /\ crossing' = (crossing \/ Pending)
  /\ UNCHANGED <<offer, sound, catalog, valid, judged>>

UpstreamLists(s) ==
  /\ scan[s].pc = "asked"
  /\ scan' = [scan EXCEPT ![s] = [pc |-> "answered", got |-> offer]]
  /\ UNCHANGED <<offer, sound, catalog, valid, judged, crossing>>

\* Mutant of Listed: a tool that was there keeps its status.
ListedKeepsStatus(got) ==
  [t \in Tools |-> [schema |-> got[t], status |-> catalog[t].status]]

\* The tools of a scan's answer.
Listed(got) == [t \in Tools |-> [schema |-> got[t], status |-> "pending"]]

ScanWrites(s) ==
  /\ scan[s].pc = "answered"
  /\ catalog' = Listed(scan[s].got)
  /\ scan' = [scan EXCEPT ![s] = [NoScan EXCEPT !.pc = "done"]]
  /\ judged' = [t \in Tools |-> NotJudged]
  /\ UNCHANGED <<offer, sound, valid, crossing>>

ScanFails(s) ==
  /\ scan[s].pc = "asked"
  /\ scan' = [scan EXCEPT ![s].pc = "done"]
  /\ UNCHANGED <<offer, sound, catalog, valid, judged, crossing>>

(***************************************************************************)
(* validate_tool: the tool is looked up, called, and the answer judged by  *)
(* the schema that was looked up.                                          *)
(***************************************************************************)
ToolCalled(v, t) ==
  /\ valid[v].pc = "idle"
  /\ valid' = [valid EXCEPT ![v] =
                 [pc |-> IF catalog[t].schema = 0 THEN "done" ELSE "asked",
                  tool |-> t, schema |-> catalog[t].schema, verdict |-> "failed"]]
  /\ crossing' = (crossing \/ (Pending /\ catalog[t].schema # 0))
  /\ UNCHANGED <<offer, sound, catalog, scan, judged>>

\* The upstream runs the call: by its present schema, which a sample made
\* from another one may still satisfy.  An HTTP error is a verdict too.
UpstreamRuns(v) ==
  LET call == valid[v]
      agrees == call.tool \in sound /\ offer[call.tool] = call.schema
  IN /\ call.pc = "asked"
     /\ \E verdict \in (IF agrees THEN {"passed"} ELSE Verdicts) :
          /\ valid' = [valid EXCEPT ![v].pc = "answered", ![v].verdict = verdict]
          /\ judged' = [judged EXCEPT ![call.tool] = [schema |-> call.schema, verdict |-> verdict]]
     /\ UNCHANGED <<offer, sound, catalog, scan, crossing>>

\* _update_cached_tool: the file is read again, and the tool found by its id.
Judged(v) ==
  IF catalog[valid[v].tool].schema = 0 THEN catalog
  ELSE [catalog EXCEPT ![valid[v].tool].status = valid[v].verdict]

ValidationWrites(v) ==
  /\ valid[v].pc = "answered"
  /\ catalog' = Judged(v)
  /\ valid' = [valid EXCEPT ![v].pc = "done", ![v].schema = 0, ![v].verdict = "failed"]
  /\ UNCHANGED <<offer, sound, scan, judged, crossing>>

\* A time-out or a broken connection: no verdict.
ValidationFails(v) ==
  /\ valid[v].pc = "asked"
  /\ valid' = [valid EXCEPT ![v].pc = "done", ![v].schema = 0]
  /\ UNCHANGED <<offer, sound, catalog, scan, judged, crossing>>

CatalogNext ==
  \/ \E t \in Tools : UpstreamChanges(t)
  \/ \E s \in Scans : ScanAsks(s) \/ UpstreamLists(s) \/ ScanWrites(s) \/ ScanFails(s)
  \/ \E v \in Validations : \/ \E t \in Tools : ToolCalled(v, t)
                            \/ UpstreamRuns(v) \/ ValidationWrites(v) \/ ValidationFails(v)

CatalogSpec == CatalogInit /\ [][CatalogNext]_catalogVars

-----------------------------------------------------------------------------
(***************************************************************************)
(* Requests that never overlapped leave in the file what the upstream last *)
(* said: a tool that passed or failed did so in its last call, by the very *)
(* schema the file shows, and no call since the last scan means pending.   *)
(* A scan between a call and its write takes this away: the verdict on the *)
(* old schema is then written beside the new one.                          *)
(***************************************************************************)
VerdictsCurrent ==
  ~crossing /\ ~Pending =>
    \A t \in Tools : catalog[t].schema # 0 =>
      IF catalog[t].status = "pending" THEN judged[t] = NotJudged
      ELSE judged[t] = [schema |-> catalog[t].schema, verdict |-> catalog[t].status]

\* The file of tools is well formed, and its verdicts are on what it lists.
CatalogSafe == CatalogTypeOK /\ VerdictsCurrent
=============================================================================
