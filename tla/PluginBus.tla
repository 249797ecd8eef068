------------------------------- MODULE PluginBus -------------------------------
(***************************************************************************)
(* One plugin, a PipelineConsumer, on the bus of plugin_manager/: the     *)
(* loader that creates its instances, the configuration store, the calls   *)
(* in flight, the quarantine, and the graph that pipeline_v2/registry.py   *)
(* caches for a camera that lists it.  Everything runs on one event loop:  *)
(* what happens between two awaits is a step.  Entries of different names  *)
(* share nothing but the graph, which other names invalidate as well.      *)
(***************************************************************************)
EXTENDS Naturals

CONSTANTS
    Threshold,   \* QUARANTINE_THRESHOLD
    MaxCalls,    \* bounds the calls in flight: one per frame being analysed
    MaxLoads,    \* bounds how many instances are ever created
    MaxConfigs,  \* bounds how many configurations are ever stored
    MaxErrors,   \* bounds consecutive_errors
    Requests     \* PUT /plugins/{name}/config requests that may overlap

ASSUME BusAssumption ==
    /\ Threshold \in Nat \ {0} /\ MaxCalls \in Nat \ {0}
    /\ MaxLoads \in Nat \ {0} /\ MaxConfigs \in Nat
    /\ MaxErrors \in Nat /\ MaxErrors > Threshold

Entries == 1..MaxLoads
\* What a plugin declares of itself: "down" stands for not_configured,
\* missing_dependency, error and disabled, which nothing tells apart.
Declared == {"ready", "down"}

VARIABLES
    born,        \* how many instances have been created
    loading,     \* those whose on_load() is awaited
    registered,  \* the entry of _entries, 0 at first
    enabled, state, errors,  \* BusEntry: enabled, state, consecutive_errors
    ctxState, ctxConfig,     \* the PluginContext of each instance
    stored,      \* the configuration of the store
    reloading,   \* the entry for which a request awaits on_config_change(), or 0
    inflight,    \* the calls in flight on each entry
    cached,      \* the graph matches the whitelist and the version of the bus
    graph,       \* what it was built from
    missed,      \* history: instances that read the store before its last change
    pardoned     \* history: entries made ready with Threshold errors or more

entryVars == <<enabled, state, errors, pardoned>>
contextVars == <<ctxState, ctxConfig>>
graphVars == <<cached, graph>>
loaderVars == <<born, loading, registered>>
vars == <<loaderVars, entryVars, contextVars, stored, reloading, inflight,
          graphVars, missed>>

\* is_dispatchable()
Dispatchable == /\ registered # 0
                /\ enabled[registered] /\ state[registered] = "ready"

\* _bump_graph_registry(): the graph is rebuilt when it is next asked for.
Bump == cached' = FALSE /\ UNCHANGED graph

\* The plugin declares s in its context, and the entry takes it over.
Reflect(e, s) == /\ ctxState' = [ctxState EXCEPT ![e] = s]
                 /\ state' = [state EXCEPT ![e] = s]

(***************************************************************************)
(* The loader                                                              *)
(***************************************************************************)

\* load_one() up to on_load(): upload of a package, or end of an installation.
LoadBegin ==
    /\ born < MaxLoads
    /\ born' = born + 1
    /\ loading' = loading \cup {born'}
    /\ ctxConfig' = [ctxConfig EXCEPT ![born'] = stored]
    /\ UNCHANGED <<registered, entryVars, ctxState, stored, reloading, inflight,
                   graphVars, missed>>

\* The rest of load_one(): the new entry takes the place of the old one, is
\* enabled, without errors, and has the state on_load() left or raised.
LoadEnd(g, s) ==
    /\ g \in loading
    /\ loading' = loading \ {g}
    /\ registered' = g
    /\ Reflect(g, s)
    /\ Bump
    /\ UNCHANGED <<born, enabled, errors, pardoned, ctxConfig, stored, reloading,
                   inflight, missed>>

\* Mutant: the new configuration is not given to the registered instance.
ReloadBeginStoreOnly(r) ==
    /\ registered # 0 /\ reloading[r] = 0
    /\ stored < MaxConfigs
    /\ stored' = stored + 1
    /\ missed' = missed \cup loading
    /\ reloading' = [reloading EXCEPT ![r] = registered]
    /\ UNCHANGED <<loaderVars, entryVars, contextVars, inflight, graphVars>>

\* reload_config() up to on_config_change().
ReloadBegin(r) ==
    /\ registered # 0 /\ reloading[r] = 0
    /\ stored < MaxConfigs
    /\ stored' = stored + 1
    /\ missed' = missed \cup loading
    /\ ctxConfig' = [ctxConfig EXCEPT ![registered] = stored']
    /\ ctxState' = [ctxState EXCEPT ![registered] = "ready"]
    /\ reloading' = [reloading EXCEPT ![r] = registered]
    /\ UNCHANGED <<loaderVars, entryVars, inflight, graphVars>>

\* An entry becomes ready although its errors are not forgotten.
Pardon(e, s) ==
    pardoned' = IF s = "ready" /\ errors[e] >= Threshold
                THEN pardoned \cup {e} ELSE pardoned

\* The rest of reload_config(): on_config_change() declared s, left "ready", or
\* raised; the entry takes it, quarantined or not.
ReloadEnd(r, s) ==
    LET e == reloading[r] IN
    /\ e # 0
    /\ reloading' = [reloading EXCEPT ![r] = 0]
    /\ Reflect(e, s)
    /\ Pardon(e, s)
    /\ UNCHANGED <<loaderVars, enabled, errors, ctxConfig, stored, inflight,
                   graphVars, missed>>

(***************************************************************************)
(* The bus                                                                 *)
(***************************************************************************)

\* Mutant: a change of the flag does not invalidate the graphs.
SetEnabledNoBump(on) ==
    /\ registered # 0
    /\ enabled' = [enabled EXCEPT ![registered] = on]
    /\ UNCHANGED <<loaderVars, state, errors, pardoned, contextVars, stored,
                   reloading, inflight, missed, graphVars>>

SetEnabled(on) ==
    /\ registered # 0 /\ enabled[registered] # on
    /\ enabled' = [enabled EXCEPT ![registered] = on]
    /\ Bump
    /\ UNCHANGED <<loaderVars, state, errors, pardoned, contextVars, stored,
                   reloading, inflight, missed>>

\* unquarantine(): the only exit that clears the errors; no graph is invalidated.
Unquarantine ==
    /\ registered # 0 /\ state[registered] = "quarantined"
    /\ state' = [state EXCEPT ![registered] = "ready"]
    /\ errors' = [errors EXCEPT ![registered] = 0]
    /\ UNCHANGED <<loaderVars, enabled, pardoned, contextVars, stored, reloading,
                   inflight, graphVars, missed>>

\* refresh_lazy_states(), for a plugin that has refresh_state_lazy(): it may
\* change what its context declares, a change of configuration in progress or not.
\* Mutant: quarantined plugins are refreshed like the others.
RefreshAll(s) ==
    /\ registered # 0
    /\ Reflect(registered, s)
    /\ UNCHANGED <<loaderVars, enabled, errors, pardoned, ctxConfig, stored,
                   reloading, inflight, graphVars, missed>>

\* Mutant: the context takes the state of the entry, not the entry its own.
RefreshReversed(s) ==
    /\ registered # 0
    /\ ctxState' = [ctxState EXCEPT ![registered] = state[registered]]
    /\ UNCHANGED <<loaderVars, entryVars, ctxConfig, stored, reloading, inflight,
                   graphVars, missed>>

RefreshLazy(s) ==
    /\ registered # 0 /\ state[registered] # "quarantined"
    /\ Reflect(registered, s)
    /\ Pardon(registered, s)
    /\ UNCHANGED <<loaderVars, enabled, errors, ctxConfig, stored, reloading,
                   inflight, graphVars, missed>>

\* The graph is invalidated by something else: the whitelist of the camera,
\* another plugin, a test of the pipeline, an explicit request.
Invalidate ==
    /\ cached
    /\ Bump
    /\ UNCHANGED <<loaderVars, entryVars, contextVars, stored, reloading, inflight,
                   missed>>

\* CameraGraphRegistry.get(): as cached, or built from the bus as it is.
Picture == [entry |-> registered, on |-> registered # 0 /\ enabled[registered],
            ready |-> Dispatchable]
Current == IF cached THEN graph ELSE Picture

\* A frame: dispatch_pipeline() is called when the graph needs its consumers,
\* and calls those that are dispatchable at that moment.
Dispatch ==
    /\ graph' = Current /\ cached' = TRUE
    /\ IF Current.ready /\ Dispatchable
       THEN /\ inflight[registered] < MaxCalls
            /\ inflight' = [inflight EXCEPT ![registered] = @ + 1]
       ELSE UNCHANGED inflight
    /\ UNCHANGED <<loaderVars, entryVars, contextVars, stored, reloading, missed>>

CallReturns(e) ==
    /\ inflight' = [inflight EXCEPT ![e] = @ - 1]
    /\ UNCHANGED <<loaderVars, enabled, contextVars, stored, reloading, graphVars,
                   missed>>

\* _mark_success(); a plugin in quarantine stays there.
CallSucceeds(e) ==
    /\ inflight[e] > 0
    /\ errors' = [errors EXCEPT ![e] = 0]
    /\ pardoned' = pardoned \ {e}
    /\ UNCHANGED state
    /\ CallReturns(e)

\* _mark_failure(), after an exception or a timeout.
\* Mutant: quarantine one error too late.
CallFailsLate(e) ==
    /\ inflight[e] > 0 /\ errors[e] < MaxErrors
    /\ errors' = [errors EXCEPT ![e] = @ + 1]
    /\ state' = IF errors'[e] > Threshold
                THEN [state EXCEPT ![e] = "quarantined"] ELSE state
    /\ pardoned' = pardoned
    /\ CallReturns(e)

CallFails(e) ==
    /\ inflight[e] > 0 /\ errors[e] < MaxErrors
    /\ errors' = [errors EXCEPT ![e] = @ + 1]
    /\ state' = IF errors'[e] >= Threshold
                THEN [state EXCEPT ![e] = "quarantined"] ELSE state
    /\ pardoned' = IF errors'[e] >= Threshold THEN pardoned \ {e} ELSE pardoned
    /\ CallReturns(e)

(***************************************************************************)
(* Specification                                                           *)
(***************************************************************************)

Init ==
    /\ born = 0 /\ loading = {} /\ registered = 0
    /\ enabled = [e \in Entries |-> TRUE]
    /\ state = [e \in Entries |-> "ready"]
    /\ errors = [e \in Entries |-> 0]
    /\ ctxState = [e \in Entries |-> "ready"]
    /\ ctxConfig = [e \in Entries |-> 0]
    /\ stored = 0
    /\ reloading = [r \in Requests |-> 0]
    /\ inflight = [e \in Entries |-> 0]
    /\ cached = FALSE
    /\ graph = [entry |-> 0, on |-> FALSE, ready |-> FALSE]
    /\ missed = {} /\ pardoned = {}

Load == LoadBegin \/ \E g \in Entries, s \in Declared : LoadEnd(g, s)
Reload == \E r \in Requests : ReloadBegin(r) \/ \E s \in Declared : ReloadEnd(r, s)
Admin == \/ \E on \in BOOLEAN : SetEnabled(on)
         \/ Unquarantine \/ Invalidate
         \/ \E s \in Declared : RefreshLazy(s)
Call == \E e \in Entries : CallSucceeds(e) \/ CallFails(e)

Next == Load \/ Reload \/ Admin \/ Dispatch \/ Call

Spec == Init /\ [][Next]_vars

(***************************************************************************)
(* Properties                                                              *)
(***************************************************************************)

\* Every variable has its type, and the state of an entry is one of the bus.
LoaderTypes ==
    /\ born \in 0..MaxLoads /\ loading \subseteq 1..born
    /\ registered \in 0..born
    /\ reloading \in [Requests -> 0..born]
    /\ missed \subseteq 1..born /\ pardoned \subseteq Entries
EntryTypes ==
    /\ enabled \in [Entries -> BOOLEAN]
    /\ state \in [Entries -> Declared \cup {"quarantined"}]
    /\ errors \in [Entries -> 0..MaxErrors]
    /\ inflight \in [Entries -> 0..MaxCalls]
ConfigTypes ==
    /\ ctxState \in [Entries -> Declared]
    /\ ctxConfig \in [Entries -> 0..MaxConfigs] /\ stored \in 0..MaxConfigs
GraphTypes ==
    /\ cached \in BOOLEAN
    /\ graph \in [entry : 0..born, on : BOOLEAN, ready : BOOLEAN]
TypeOK == LoaderTypes /\ EntryTypes /\ ConfigTypes /\ GraphTypes

\* Calls that end after others have put the plugin in quarantine, after it was
\* replaced, or while it is reconfigured: an entry with too many errors is never
\* ready, unless reload_config() or refresh_lazy_states() has made it so.
QuarantineComplete ==
    \A e \in Entries : state[e] = "ready" /\ errors[e] >= Threshold => e \in pardoned

\* Only the administrator, who also clears the errors, and a change of configuration
\* end a quarantine; a refresh does not.  Nor does a call that began before it and
\* succeeds: against the comment of QUARANTINE_THRESHOLD (bus.py:86), which promises a
\* reset on an isolated success, _mark_success() clears the count and not the state.
QuarantineLifted ==
    [][\A e \in Entries : state[e] = "quarantined" /\ state'[e] # "quarantined" =>
           errors'[e] = 0 \/ \E r \in Requests : reloading[r] = e /\ reloading'[r] = 0]_vars

\* A cached graph may be wrong about the state of the plugin, which does not
\* invalidate it, but never about which entry is registered nor its flag.
CacheCoherent ==
    cached => /\ graph.entry = registered
              /\ registered # 0 => graph.on = enabled[registered]
              /\ graph.ready => registered # 0 /\ enabled[registered]

\* The registered instance runs with the stored configuration, unless it was
\* loading when the configuration was stored: reload_config() gives it to the
\* instance registered at that moment, which the new one replaces.
ConfigStaleOnlyByRace ==
    registered # 0 /\ ctxConfig[registered] # stored => registered \in missed
================================================================================
