----------------------------- MODULE MCRecords ------------------------------
(***************************************************************************)
(* Model of the components that keep a record of something, in memory, in  *)
(* a file or at the gateway, each by itself: they share no state here, so  *)
(* in a behaviour one of them moves and the others rest in their initial   *)
(* state.                                                                  *)
(***************************************************************************)
EXTENDS NodeSetup, ToolSchema, ToolCatalog, Metrics, LogStream, SessionToken,
        OfflineQueue, MeterBuffer, GrantRuntime, GatewayCalls, TLC

VARIABLE part

\* Defaults: a value of each kind, and an object with a field.
MCValues == {Value(k) : k \in Kinds} \cup
            {[kind |-> "dict", fields |-> [f \in {"a"} |-> Value("str")]]}

Plain == [type : Types, default : MCValues \cup {NoDefault}, props : {NoFields}, required : {{}}]

\* Schemas of objects whose fields are described by the members of S.
Objects(S, defaults) ==
  UNION {[type : {"object"}, default : defaults, props : [D -> S], required : SUBSET Fields]
         : D \in SUBSET Fields}

Flat == Objects({s \in Plain : s.default \in {NoDefault, Value("str")}} \cup {NoSchema},
                {NoDefault})

\* Deep ones: of some of the flat ones with both fields, and of those with defaults.
Few == {s \in Flat : DOMAIN s.props = Fields /\ Cardinality(s.required) # 1 /\
          \A f \in Fields : s.props[f] \in {NoSchema, Anything,
                              [Anything EXCEPT !.type = "integer"],
                              [Anything EXCEPT !.type = "integer", !.default = Value("str")]}}

MCNested ==
  [n \in 0..2 |-> CASE n = 0 -> Plain
                    [] n = 1 -> Flat
                    [] n = 2 -> Objects(Few, {NoDefault}) \cup Objects({Anything}, MCValues)]

\* The bound on the writes of config.toml that break off: they do so where at most one
\* request has begun, the market did not fail, one key is drawn, without a passphrase, and
\* the provider does not run.
PlainSetup ==
  /\ \E q \in SetupRequests : \A r \in SetupRequests \ {q} : asks[r] = Idle
  /\ keystores.drawn <= 1 /\ keystores.wizard.seal = "open" /\ store.pass = "open"
  /\ harms \cap {"untold", "market_failed"} = {} /\ ~serving

\* The bound on count's errors: behind one of clear and one of count, which stay in
\* mishaps, the properties of the queue claim nothing but its types.
PlainQueue == "clear" \notin mishaps \/ "count" \notin mishaps

\* One request brings a limit of its own.
MCLimits == [c \in Invokes |-> IF c = CHOOSE d \in Invokes : TRUE THEN 1 ELSE 2]

\* No entry or flusher of the offline queue, event or thread of the meter buffer, and
\* request of the setup differs from the others.  The parts share nothing but these
\* names: Events are Entries, and Threads and SetupRequests are Flushers.
RecordsSymmetry ==
  {f @@ g : f \in Permutations(Entries), g \in Permutations(Flushers)}

nodeVars == <<setupVars, schemaVars, catalogVars, metricsVars, streamVars, accessVars>>
usageVars == <<vars, meterVars, runtimeVars, callsVars>>

MCInit ==
  /\ part \in {"setup", "schema", "catalog", "metrics", "stream", "access",
               "queue", "buffer", "runtime", "calls"}
  /\ SetupInit /\ CatalogInit /\ MetricsInit /\ StreamInit /\ AccessInit
  /\ Init /\ MeterInit /\ RuntimeInit
  /\ part # "catalog" => \A t \in Tools : offer[t] = 1
  /\ IF part = "schema" THEN SchemaInit ELSE schema = Anything
  /\ CallsInit
  /\ part # "calls" => \A r \in Requests : ask[r] = CHOOSE a \in Asks : TRUE

\* What rests is named first, so that TLC assigns it once for all the steps.
NodeNext ==
  \/ /\ part = "setup"
     /\ UNCHANGED <<schemaVars, catalogVars, metricsVars, streamVars, accessVars>>
     /\ SetupNext /\ (broken = 0 \/ PlainSetup)'
  \/ /\ part = "schema"
     /\ UNCHANGED <<setupVars, catalogVars, metricsVars, streamVars, accessVars>>
     /\ SchemaNext
  \/ /\ part = "catalog"
     /\ UNCHANGED <<setupVars, schemaVars, metricsVars, streamVars, accessVars>>
     /\ CatalogNext
  \/ /\ part = "metrics"
     /\ UNCHANGED <<setupVars, schemaVars, catalogVars, streamVars, accessVars>>
     /\ MetricsNext
  \/ /\ part = "stream"
     /\ UNCHANGED <<setupVars, schemaVars, catalogVars, metricsVars, accessVars>>
     /\ StreamNext
  \/ /\ part = "access"
     /\ UNCHANGED <<setupVars, schemaVars, catalogVars, metricsVars, streamVars>>
     /\ AccessNext

UsageNext ==
  \/ part = "queue"   /\ UNCHANGED <<meterVars, runtimeVars, callsVars>> /\ Next /\ PlainQueue'
  \/ part = "buffer"  /\ UNCHANGED <<vars, runtimeVars, callsVars>>      /\ MeterNext
  \/ part = "runtime" /\ UNCHANGED <<vars, meterVars, callsVars>>        /\ RuntimeNext
  \/ part = "calls"   /\ UNCHANGED <<vars, meterVars, runtimeVars>>      /\ CallsNext

MCNext ==
  \/ UNCHANGED <<usageVars, part>> /\ NodeNext
  \/ UNCHANGED <<nodeVars, part>>  /\ UsageNext

MCSpec == MCInit /\ [][MCNext]_<<nodeVars, usageVars, part>>
=============================================================================
