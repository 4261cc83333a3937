----------------------------- MODULE NodeSetup -----------------------------
(***************************************************************************)
(* The setup wizard, config.toml and the keystores: what the routes        *)
(* setup/*, config, keypair/rotate, unlock, lock and provider/reload and a *)
(* restart do to the files, to the ProcessStateStore and to what the       *)
(* market knows of the node's key.  Three routes await in their middle;    *)
(* the others are one step.                                                *)
(*                                                                         *)
(* write_config truncates the file before it writes it: a write that does  *)
(* not go through leaves the old file, an empty one, one that was cut at a *)
(* line end and still parses, or one that does not parse any more.  It     *)
(* raises, and the route goes no further; or the process dies in it, which *)
(* is such a write and a SetupCrash.                                       *)
(*                                                                         *)
(* A key is a number, in the order in which keys are drawn.  Passphrases   *)
(* are "open", the empty one, and "secret"; None counts as empty, as       *)
(* get_passphrase() or "" makes it.  api_url and api_key are left out of   *)
(* config.toml.  What starting and stopping does to the tasks is in        *)
(* NodeLifecycle.                                                          *)
(***************************************************************************)
EXTENDS Naturals

CONSTANTS SetupRequests,  \* the requests that await, each made once
          SamePath,       \* is core.keystore_path the keystore of the wizard?
          MaxKeys,        \* bound on the keys that are drawn
          MaxCrashes,     \* bound on the crashes
          MaxBroken       \* bound on the writes that break off

ASSUME SetupAssumption ==
  SamePath \in BOOLEAN /\ MaxKeys \in Nat /\ MaxCrashes \in Nat /\ MaxBroken \in Nat

Passphrases == {"open", "secret"}
Modes == {"provider", "consumer"}

VARIABLES up,        \* is the management process up?
          config,    \* config.toml
          keystores, \* keystore.json of the data_dir, core.keystore_path, keys drawn
          store,     \* the ProcessStateStore
          facade,    \* is there a MarketplaceFacade?
          serving,   \* does the provider run?
          market,    \* the key the market has for this node, 0 if none
          asks,      \* asks[r]: what request r awaits, with the key it holds
          crashes, broken, \* how often the process died, how many writes broke off
          harms      \* what happened that parts the market, the store or the setup from the rest

setupVars == <<up, config, keystores, store, facade, serving, market, asks,
               crashes, broken, harms>>

NoKey == [key |-> 0, seal |-> "open"]
NoConfig == [file |-> "absent", done |-> FALSE, step |-> 0, mode |-> "none",
             upstream |-> FALSE, nodeId |-> FALSE, serial |-> FALSE]
NewStore == [done |-> FALSE, step |-> 0, mode |-> "none", pass |-> "open",
             locked |-> FALSE, unlocked |-> FALSE]
Idle == [for |-> "nothing", key |-> 0, upstream |-> FALSE]

SetupInit ==
  /\ up = TRUE
  /\ config = NoConfig
  /\ keystores = [wizard |-> NoKey, runtime |-> NoKey, drawn |-> 0]
  /\ store = NewStore
  /\ facade = FALSE
  /\ serving = FALSE
  /\ market = 0
  /\ asks = [r \in SetupRequests |-> Idle]
  /\ crashes = 0 /\ broken = 0
  /\ harms = {}

-----------------------------------------------------------------------------
(* DeviceCrypto.                                                           *)

\* The file a path leads to.
Spot(path) == IF SamePath THEN "wizard" ELSE path

\* _load_keys can decrypt the keys, or there is none and get_or_create draws them.
Opens(ks, path, pass) ==
  IF ks[Spot(path)].key = 0 THEN ks.drawn < MaxKeys ELSE ks[Spot(path)].seal = pass

\* The keystores with a new key at path.
Drawn(ks, path, pass) ==
  [ks EXCEPT ![Spot(path)] = [key |-> ks.drawn + 1, seal |-> pass], !.drawn = @ + 1]

\* get_or_create_keypairs, given Opens.
Created(ks, path, pass) == IF ks[Spot(path)].key # 0 THEN ks ELSE Drawn(ks, path, pass)

-----------------------------------------------------------------------------
(* The store and config.toml.                                              *)

\* _determine_node_state_internal.  Without a keystore a node counts as unlocked.
StepDerived(s) ==
  IF ~s.done \/ s.unlocked THEN s
  ELSE IF keystores.wizard.seal = "secret" THEN [s EXCEPT !.locked = TRUE]
  ELSE [s EXCEPT !.locked = FALSE, !.unlocked = TRUE]

\* _load_config
Loaded(s) ==
  IF config.file = "absent" THEN [s EXCEPT !.done = FALSE, !.step = 0]
  ELSE [s EXCEPT !.done = config.done, !.step = config.step, !.mode = config.mode]

\* A route writes c over what it read of config.toml.
Written(c) == config.file # "torn" /\ config' = c /\ UNCHANGED broken

\* What a write of new over the file old leaves that breaks off: the old file, where
\* it was not opened; the lines that came first, of which old and new determine the
\* order and here any may stay; or half of a line.
Remains(old, new) ==
  {old, [NoConfig EXCEPT !.file = "torn"]} \cup
  [file : {"written"}, done : {new.done, FALSE}, step : {new.step, 0},
   mode : {new.mode, "none"}, upstream : {new.upstream, FALSE},
   nodeId : {new.nodeId, FALSE}, serial : {new.serial, FALSE}]

\* read_config raises: the file is torn.
Unreadable == config.file = "torn" /\ UNCHANGED <<config, broken, harms>>

\* write_config raises.
BreaksOff(old, new) ==
  /\ config.file # "torn"
  /\ broken < MaxBroken /\ broken' = broken + 1
  /\ config' \in Remains(old, new)
  /\ harms' = harms \cup {"unwritten"} \cup (IF config' = old THEN {} ELSE {"cut"})

\* c is not written.
Unwritten(c) == Unreadable \/ BreaksOff(config, c)

\* mark_setup_step and then persist_setup_step, which may raise.
Stepped(n) ==
  LET c == [config EXCEPT !.file = "written", !.step = n]
  IN  /\ store' = [store EXCEPT !.step = n]
      /\ \/ Written(c) /\ UNCHANGED harms
         \/ Unwritten(c)

\* finalize_setup
Finalized(mode, upstream) ==
  [config EXCEPT !.file = "written", !.done = TRUE, !.step = 5, !.mode = mode,
                 !.upstream = @ \/ (mode = "provider" /\ upstream), !.serial = TRUE]

\* persist_node_id after c
Named(c) == [c EXCEPT !.file = "written", !.nodeId = TRUE]

\* mark_setup_complete, then determine_node_state
Completed(mode) == StepDerived([store EXCEPT !.done = TRUE, !.step = 5, !.mode = mode])

-----------------------------------------------------------------------------
(* The provider.                                                           *)

\* Can start_provider go through, with the store s, the configuration c and the
\* keystores ks?
Startable(s, c, ks) ==
  s.done /\ ~s.locked /\ c.upstream /\ c.serial /\ Opens(ks, "runtime", s.pass)

StartsIf(may, s, ks) ==
  /\ serving' = may
  /\ keystores' = IF may THEN Created(ks, "runtime", s.pass) ELSE ks

\* autostart, after the statements that gave s, c and ks.
Autostarts(s, c, ks) ==
  IF s.mode = "provider" /\ ~serving THEN StartsIf(Startable(s, c, ks), s, ks)
  ELSE keystores' = ks /\ UNCHANGED serving

StartProviderAsked ==
  /\ up /\ ~serving /\ Startable(store, config, keystores)
  /\ StartsIf(TRUE, store, keystores)
  /\ UNCHANGED <<up, config, store, facade, market, asks, crashes, broken, harms>>

StopProviderAsked ==
  /\ up /\ serving
  /\ serving' = FALSE
  /\ UNCHANGED <<up, config, keystores, store, facade, market, asks, crashes, broken, harms>>

-----------------------------------------------------------------------------
(* The wizard.                                                             *)

Waits(r, what, k, upstream) ==
  /\ asks[r] = Idle
  /\ asks' = [asks EXCEPT ![r] = [for |-> what, key |-> k, upstream |-> upstream]]

\* Those that await what the market says of a key.
Telling == {r \in SetupRequests : asks[r].for \in {"register", "rotate"}}

Answered(r) == asks' = [asks EXCEPT ![r] = [@ EXCEPT !.for = "done"]]

\* setup_keypair.  It does not tell the store the passphrase.
SetupKeypair(pass) ==
  /\ up /\ keystores.wizard.key = 0 /\ keystores.drawn < MaxKeys
  /\ keystores' = Drawn(keystores, "wizard", pass)
  /\ Stepped(2)
  /\ UNCHANGED <<up, facade, serving, market, asks, crashes>>

\* setup_test_connection
TestConnection(r) ==
  /\ up /\ Waits(r, "health", 0, FALSE)
  /\ UNCHANGED <<up, config, keystores, store, facade, serving, market, crashes, broken, harms>>

ConnectionTested(r, reachable) ==
  /\ asks[r].for = "health"
  /\ Answered(r)
  /\ IF reachable THEN Stepped(3) ELSE UNCHANGED <<config, store, broken, harms>>
  /\ UNCHANGED <<up, keystores, facade, serving, market, crashes>>

\* setup_finalize in consumer mode.
FinalizeConsumer ==
  LET c == Finalized("consumer", FALSE)
  IN  /\ up
      /\ \/ /\ Written(c)
            /\ store' = Completed("consumer")
            /\ harms' = harms \ {"unwritten"}
         \/ Unwritten(c) /\ UNCHANGED store
      /\ UNCHANGED <<up, keystores, facade, serving, market, asks, crashes>>

\* setup_finalize in provider mode, up to its call of register_node: it opens the
\* wizard's keystore with the passphrase of the store.
FinalizeProvider(r, upstream) ==
  /\ up /\ config.file # "torn"
  /\ upstream \/ config.upstream
  /\ Opens(keystores, "wizard", store.pass)
  /\ keystores' = Created(keystores, "wizard", store.pass)
  /\ Waits(r, "register", keystores'.wizard.key, upstream)
  /\ harms' = IF Telling = {} THEN harms ELSE harms \cup {"overlap"}
  /\ UNCHANGED <<up, config, store, facade, serving, market, crashes, broken>>

\* What a setup that went through ends.
Mended(c) == {"unwritten", "switched"} \cup (IF c.upstream THEN {"cut"} ELSE {})

\* Mutant of Registered: the node_id is not persisted.
RegisteredNoId(r) ==
  /\ asks[r].for = "register"
  /\ Answered(r)
  /\ market' = asks[r].key
  /\ Written(Finalized("provider", asks[r].upstream))
  /\ facade' = TRUE
  /\ store' = Completed("provider")
  /\ Autostarts(store', config', keystores)
  /\ harms' = harms \ Mended(config')
  /\ UNCHANGED <<up, crashes>>

\* The market registers the key: persist_node_id, finalize_setup, persist_node_id
\* again and autostart.
Registered(r) ==
  /\ asks[r].for = "register"
  /\ Answered(r)
  /\ market' = asks[r].key
  /\ Written(Named(Finalized("provider", asks[r].upstream)))
  /\ facade' = TRUE
  /\ store' = Completed("provider")
  /\ Autostarts(store', config', keystores)
  /\ harms' = harms \ Mended(config')
  /\ UNCHANGED <<up, crashes>>

\* The market registers the key, and the first write of config.toml raises; or the
\* second or the third, and there is a facade.  The store is told of nothing.
RegisteredUnwritten(r) ==
  LET final == Named(Finalized("provider", asks[r].upstream))
  IN  /\ asks[r].for = "register"
      /\ Answered(r)
      /\ market' = asks[r].key
      /\ \/ Unwritten(Named(config)) /\ UNCHANGED facade
         \/ BreaksOff(Named(config), final) /\ facade' = TRUE
         \/ BreaksOff(final, final) /\ facade' = TRUE
      /\ UNCHANGED <<up, keystores, store, serving, crashes>>

\* register_node, or the post of keypair_rotate, raises: the market has taken the
\* key or it has not.
MarketFails(r) ==
  /\ asks[r].for \in {"register", "rotate"}
  /\ Answered(r)
  /\ market' \in {market, asks[r].key}
  /\ harms' = harms \cup {"market_failed"}
  /\ UNCHANGED <<up, config, keystores, store, facade, serving, crashes, broken>>

-----------------------------------------------------------------------------
(* config, keypair/rotate, unlock, lock, provider/reload.                  *)

\* config_update, with a mode, unless it is "same", and perhaps an endpoint.  A node
\* that becomes a provider here is not registered.
ConfigUpdate(mode, upstream) ==
  LET c == [config EXCEPT !.file = "written", !.upstream = @ \/ upstream,
                          !.mode = IF mode = "same" THEN @ ELSE mode]
  IN  /\ up
      /\ c.mode = "provider" => c.upstream
      /\ \/ /\ Written(c)
            /\ store' = IF mode = "same" THEN store ELSE [store EXCEPT !.mode = mode]
            /\ harms' = IF mode = "provider" /\ config.mode # mode THEN harms \cup {"switched"}
                        ELSE harms
         \/ Unwritten(c) /\ UNCHANGED store
      /\ UNCHANGED <<up, keystores, facade, serving, market, asks, crashes>>

\* Mutant of Sealing: rotate makes the new keystore without a passphrase.
SealingOpen == "open"

\* The passphrase keypair_rotate gives the new keystore: the store's.
Sealing == store.pass

\* keypair_rotate: new keys are on disk, and then the market is told, if there is
\* a facade to tell it with.
Rotate(r) ==
  /\ up /\ keystores.drawn < MaxKeys
  /\ keystores' = Drawn(keystores, "wizard", Sealing)
  /\ IF facade THEN Waits(r, "rotate", keystores'.drawn, FALSE)
     ELSE asks[r] = Idle /\ UNCHANGED asks
  /\ harms' = harms \cup
       (IF facade THEN {} ELSE {"untold"}) \cup (IF Telling = {} THEN {} ELSE {"overlap"})
  /\ UNCHANGED <<up, config, store, facade, serving, market, crashes, broken>>

\* Mutant of Rotated: the market is not told.
RotatedUntold(r) ==
  /\ asks[r].for = "rotate"
  /\ Answered(r)
  /\ UNCHANGED <<up, config, keystores, store, facade, serving, market, crashes, broken, harms>>

Rotated(r) ==
  /\ asks[r].for = "rotate"
  /\ Answered(r)
  /\ market' = asks[r].key
  /\ UNCHANGED <<up, config, keystores, store, facade, serving, crashes, broken, harms>>

\* unlock, which autostarts: without a keystore, one is made with whatever
\* passphrase came.
UnlockNode(pass) ==
  /\ up /\ Opens(keystores, "wizard", pass)
  /\ store' = [store EXCEPT !.pass = pass, !.locked = FALSE, !.unlocked = TRUE]
  /\ Autostarts(store', config, Created(keystores, "wizard", pass))
  /\ UNCHANGED <<up, config, facade, market, asks, crashes, broken, harms>>

\* lock_node
LockNode ==
  /\ up
  /\ store' = [store EXCEPT !.pass = "open", !.locked = TRUE, !.unlocked = FALSE]
  /\ serving' = FALSE
  /\ UNCHANGED <<up, config, keystores, facade, market, asks, crashes, broken, harms>>

\* A facade is made of a configuration that load_config takes and that has a node_id.
HasFacade(c) == c.nodeId /\ c.serial

\* provider_reload, which restarts a running provider.  It raises at a torn file.
ReloadNode ==
  /\ up /\ config.file # "torn"
  /\ store' = StepDerived(Loaded(store))
  /\ facade' = HasFacade(config)
  /\ StartsIf(serving /\ Startable(store', config, keystores), store', keystores)
  /\ harms' = harms \ {"unwritten"}
  /\ UNCHANGED <<up, config, market, asks, crashes, broken>>

-----------------------------------------------------------------------------
(* Crash and restart.                                                      *)

\* The process dies.
SetupCrash ==
  /\ up /\ crashes < MaxCrashes
  /\ up' = FALSE
  /\ crashes' = crashes + 1
  /\ harms' = IF Telling = {} THEN harms ELSE harms \cup {"market_failed"}
  /\ market' \in {market} \cup {asks[r].key : r \in Telling}
  /\ asks' = [r \in SetupRequests |->
                IF asks[r] = Idle THEN Idle ELSE [asks[r] EXCEPT !.for = "done"]]
  /\ serving' = FALSE
  /\ UNCHANGED <<config, keystores, store, facade, broken>>

\* lifespan: a file that does not parse stops _load_config, and with it the process;
\* an empty one, or one that was cut, is loaded as it is.
SetupBoot ==
  /\ ~up /\ config.file # "torn"
  /\ up' = TRUE
  /\ store' = StepDerived(Loaded(NewStore))
  /\ facade' = HasFacade(config)
  /\ harms' = harms \ {"unwritten"}
  /\ UNCHANGED <<config, keystores, serving, market, asks, crashes, broken>>

SetupNext ==
  \/ \E r \in SetupRequests :
       \/ TestConnection(r) \/ Registered(r) \/ RegisteredUnwritten(r) \/ MarketFails(r)
       \/ Rotate(r) \/ Rotated(r)
       \/ \E b \in BOOLEAN : ConnectionTested(r, b) \/ FinalizeProvider(r, b)
  \/ \E pass \in Passphrases : SetupKeypair(pass) \/ UnlockNode(pass)
  \/ \E mode \in Modes \cup {"same"}, b \in BOOLEAN : ConfigUpdate(mode, b)
  \/ FinalizeConsumer \/ StartProviderAsked \/ StopProviderAsked
  \/ LockNode \/ ReloadNode \/ SetupCrash \/ SetupBoot

SetupSpec == SetupInit /\ [][SetupNext]_setupVars

-----------------------------------------------------------------------------
(* Properties.                                                             *)

KeyStates == [key : 0..MaxKeys, seal : Passphrases]

SetupTypeOK ==
  /\ {up, facade, serving} \subseteq BOOLEAN
  /\ config \in [file : {"absent", "written", "torn"}, done : BOOLEAN, step : {0, 2, 3, 5},
                 mode : Modes \cup {"none"}, upstream : BOOLEAN, nodeId : BOOLEAN,
                 serial : BOOLEAN]
  /\ keystores \in [wizard : KeyStates, runtime : KeyStates, drawn : 0..MaxKeys]
  /\ store \in [done : BOOLEAN, step : {0, 2, 3, 5}, mode : Modes \cup {"none"},
                pass : Passphrases, locked : BOOLEAN, unlocked : BOOLEAN]
  /\ market \in 0..MaxKeys
  /\ asks \in [SetupRequests -> [for : {"nothing", "health", "register", "rotate", "done"},
                                 key : 0..MaxKeys, upstream : BOOLEAN]]
  /\ crashes \in 0..MaxCrashes /\ broken \in 0..MaxBroken
  /\ harms \subseteq {"overlap", "market_failed", "switched", "untold", "unwritten", "cut"}

(***************************************************************************)
(* What the store says of the setup is what config.toml says, whatever     *)
(* other request came in during an await: a restart goes on from the step  *)
(* and the mode the wizard showed.  A write that broke off parts them, as  *)
(* mark_setup_step comes before persist_setup_step, until the setup is     *)
(* finished or the file is loaded again; but as long as the file has lost  *)
(* no line, a setup that the store takes for complete is so after a        *)
(* restart.                                                                *)
(***************************************************************************)
StoreAgrees ==
  up => /\ "unwritten" \notin harms =>
             <<store.done, store.step, store.mode>> = <<config.done, config.step, config.mode>>
        /\ "cut" \notin harms => (store.done => config.done)

(***************************************************************************)
(* A setup that is complete in provider mode can be started and can reach  *)
(* the market: it has an endpoint, a serial and, unless the mode came from *)
(* a later update of the configuration, a node_id and a facade, also after *)
(* a restart, and also where a write raised or the process died between    *)
(* the three that finalize makes.  What a cut file has lost is missing     *)
(* until the wizard has gone through again.                                *)
(***************************************************************************)
CompleteIsUsable ==
  config.done /\ config.mode = "provider" /\ "cut" \notin harms =>
    /\ config.upstream /\ config.serial
    /\ "switched" \notin harms => config.nodeId /\ (up => facade)

\* The store says of the setup what config.toml says, and a setup that is complete can
\* be used, whatever overlaps, crashes or fails to be written, until lines are lost.
SetupSafe == SetupTypeOK /\ StoreAgrees /\ CompleteIsUsable

(***************************************************************************)
(* The market's key of the node is the one in the wizard's keystore, as    *)
(* long as no request to the market has failed or was overtaken and the    *)
(* market was told of every rotation.                                      *)
(***************************************************************************)
MarketHasOurKey ==
  /\ harms \cap {"overlap", "market_failed", "untold"} = {}
  /\ Telling = {}
  /\ market # 0
  => market = keystores.wizard.key

(***************************************************************************)
(* A keystore that an unlocked node can read stays one that it can read:   *)
(* no rotation replaces a sealed keystore by an open one, nor an open one  *)
(* by one whose passphrase the node does not hold.                         *)
(***************************************************************************)
SealKept ==
  [][up /\ store.unlocked /\ keystores.wizard.key # 0 /\ keystores.wizard.seal = store.pass
     => keystores'.wizard.seal = keystores.wizard.seal]_setupVars

(***************************************************************************)
(* "runtime uses same keystore as setup/unlock": a provider that runs      *)
(* signs with the key of the wizard's keystore.                            *)
(***************************************************************************)
RuntimeUsesSetupKeys == serving => keystores[Spot("runtime")].key = keystores.wizard.key
=============================================================================
