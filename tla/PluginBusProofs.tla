---------------------------- MODULE PluginBusProofs ----------------------------
(***************************************************************************)
(* Proofs about PluginBus for any threshold, any number of instances, of   *)
(* configurations, of requests and of calls in flight: types, quarantine,  *)
(* coherence of the cached graph and of the configuration.                 *)
(***************************************************************************)
EXTENDS PluginBus, TLAPS

\* An instance that is not registered yet has been called by nobody.
Untouched(e) == /\ errors[e] = 0 /\ inflight[e] = 0 /\ registered # e
                /\ \A r \in Requests : reloading[r] # e

\* What the loader has not registered is untouched, and the instance it is
\* loading has the stored configuration or missed a change.
LoaderInv ==
    /\ \A e \in Entries : e > born \/ e \in loading => Untouched(e)
    /\ \A e \in loading : ctxConfig[e] # stored => e \in missed

\* The inductive invariant.
IInv == /\ TypeOK /\ LoaderInv
        /\ QuarantineComplete /\ CacheCoherent /\ ConfigStaleOnlyByRace

LEMMA Initial == Init => IInv
<1>. SUFFICES ASSUME Init PROVE IInv
  OBVIOUS
<1>0. 0 \in 0..MaxErrors /\ 0 \in 0..MaxCalls /\ 0 \in 0..MaxConfigs /\ 0 \in 0..MaxLoads
  BY BusAssumption
<1>1. LoaderTypes /\ EntryTypes
  <2>1. LoaderTypes
    BY <1>0 DEF Init, LoaderTypes
  <2>2. EntryTypes
    BY <1>0 DEF Init, EntryTypes, Declared
  <2>. QED BY <2>1, <2>2
<1>2. ConfigTypes
  <2>1. ctxState \in [Entries -> Declared]
    BY DEF Init, Declared
  <2>. QED BY <1>0, <2>1 DEF Init, ConfigTypes
<1>3. GraphTypes
  <2>1. cached = FALSE /\ born = 0 /\ graph = [entry |-> 0, on |-> FALSE, ready |-> FALSE]
    BY DEF Init
  <2>2. 0 \in 0..born
    BY <2>1
  <2>3. cached \in BOOLEAN
    BY <2>1
  <2>4. graph \in [entry : 0..born, on : BOOLEAN, ready : BOOLEAN]
    BY <2>1, <2>2, Zenon
  <2>. QED BY <2>3, <2>4 DEF GraphTypes
<1>4. LoaderInv
  BY DEF Init, LoaderInv, Untouched, Entries
<1>5. QuarantineComplete /\ CacheCoherent /\ ConfigStaleOnlyByRace
  BY BusAssumption DEF Init, QuarantineComplete, CacheCoherent, ConfigStaleOnlyByRace
<1>. QED BY <1>1, <1>2, <1>3, <1>4, <1>5 DEF IInv, TypeOK

\* Every variable keeps its type.
LEMMA TypeStep == TypeOK /\ [Next]_vars => TypeOK'
<1>. SUFFICES ASSUME TypeOK, [Next]_vars PROVE TypeOK'
  OBVIOUS
<1>. USE DEF TypeOK
<1>1. CASE LoadBegin
  <2>1. LoaderTypes'
    BY <1>1, BusAssumption DEF LoadBegin, LoaderTypes, Entries, entryVars
  <2>2. ConfigTypes' /\ EntryTypes'
    BY <1>1, BusAssumption DEF LoadBegin, LoaderTypes, ConfigTypes, EntryTypes, entryVars
  <2>3. GraphTypes'
    BY <1>1, BusAssumption DEF LoadBegin, LoaderTypes, GraphTypes, graphVars
  <2>. QED BY <2>1, <2>2, <2>3
<1>2. ASSUME NEW g \in Entries, NEW s \in Declared, LoadEnd(g, s)
      PROVE  TypeOK'
  <2>1. LoaderTypes'
    BY <1>2, BusAssumption DEF LoadEnd, LoaderTypes, Entries
  <2>2. ConfigTypes' /\ EntryTypes'
    BY <1>2 DEF LoadEnd, Reflect, ConfigTypes, EntryTypes
  <2>3. GraphTypes'
    BY <1>2 DEF LoadEnd, Bump, GraphTypes
  <2>. QED BY <2>1, <2>2, <2>3
<1>3. ASSUME NEW r \in Requests, ReloadBegin(r)
      PROVE  TypeOK'
  <2>1. LoaderTypes' /\ GraphTypes'
    BY <1>3 DEF ReloadBegin, LoaderTypes, GraphTypes, loaderVars, entryVars, graphVars
  <2>2. ConfigTypes'
    <3>1. ctxState' \in [Entries -> Declared]
      BY <1>3 DEF ReloadBegin, ConfigTypes, Declared
    <3>2. stored' \in 0..MaxConfigs
      BY <1>3, BusAssumption DEF ReloadBegin, ConfigTypes
    <3>. QED BY <1>3, <3>1, <3>2 DEF ReloadBegin, ConfigTypes
  <2>3. EntryTypes'
    BY <1>3 DEF ReloadBegin, EntryTypes, entryVars
  <2>. QED BY <2>1, <2>2, <2>3
<1>4. ASSUME NEW r \in Requests, NEW s \in Declared, ReloadEnd(r, s)
      PROVE  TypeOK'
  <2>1. reloading[r] \in Entries
    BY <1>4, BusAssumption DEF ReloadEnd, LoaderTypes, Entries
  <2>2. LoaderTypes'
    BY <1>4, <2>1 DEF ReloadEnd, Pardon, LoaderTypes, loaderVars
  <2>3. ConfigTypes' /\ EntryTypes'
    BY <1>4 DEF ReloadEnd, Reflect, ConfigTypes, EntryTypes
  <2>4. GraphTypes'
    BY <1>4 DEF ReloadEnd, GraphTypes, loaderVars, graphVars
  <2>. QED BY <2>2, <2>3, <2>4
<1>5. ASSUME NEW on \in BOOLEAN, SetEnabled(on)
      PROVE  TypeOK'
  <2>1. LoaderTypes' /\ ConfigTypes'
    BY <1>5 DEF SetEnabled, LoaderTypes, ConfigTypes, loaderVars, contextVars
  <2>2. EntryTypes' /\ GraphTypes'
    BY <1>5 DEF SetEnabled, Bump, EntryTypes, GraphTypes, loaderVars
  <2>. QED BY <2>1, <2>2
<1>6. CASE Unquarantine
  <2>1. LoaderTypes' /\ ConfigTypes' /\ GraphTypes'
    BY <1>6 DEF Unquarantine, LoaderTypes, ConfigTypes, GraphTypes,
                loaderVars, contextVars, graphVars
  <2>2. 0 \in 0..MaxErrors
    BY BusAssumption
  <2>3. EntryTypes'
    BY <1>6, <2>2 DEF Unquarantine, EntryTypes, Declared
  <2>. QED BY <2>1, <2>3
<1>7. CASE Invalidate
  <2>1. LoaderTypes' /\ ConfigTypes' /\ EntryTypes'
    BY <1>7 DEF Invalidate, LoaderTypes, ConfigTypes, EntryTypes,
                loaderVars, contextVars, entryVars
  <2>2. GraphTypes'
    BY <1>7 DEF Invalidate, Bump, GraphTypes, loaderVars
  <2>. QED BY <2>1, <2>2
<1>8. ASSUME NEW s \in Declared, RefreshLazy(s)
      PROVE  TypeOK'
  <2>1. LoaderTypes'
    BY <1>8, BusAssumption DEF RefreshLazy, Pardon, LoaderTypes, Entries, loaderVars
  <2>2. ConfigTypes' /\ EntryTypes'
    BY <1>8 DEF RefreshLazy, Reflect, ConfigTypes, EntryTypes
  <2>3. GraphTypes'
    BY <1>8 DEF RefreshLazy, GraphTypes, loaderVars, graphVars
  <2>. QED BY <2>1, <2>2, <2>3
<1>9. CASE Dispatch
  <2>1. GraphTypes'
    BY <1>9 DEF Dispatch, Dispatchable, Current, Picture, LoaderTypes, EntryTypes, GraphTypes,
                loaderVars
  <2>2. EntryTypes'
    BY <1>9, BusAssumption DEF Dispatch, Dispatchable, EntryTypes, entryVars
  <2>3. LoaderTypes' /\ ConfigTypes'
    BY <1>9 DEF Dispatch, LoaderTypes, ConfigTypes, loaderVars, entryVars, contextVars
  <2>. QED BY <2>1, <2>2, <2>3
<1>10. ASSUME NEW e \in Entries, CallSucceeds(e) \/ CallFails(e)
       PROVE  TypeOK'
  <2>1. EntryTypes'
    BY <1>10, BusAssumption DEF CallSucceeds, CallFails, CallReturns, EntryTypes
  <2>2. LoaderTypes'
    BY <1>10 DEF CallSucceeds, CallFails, CallReturns, LoaderTypes, loaderVars
  <2>3. ConfigTypes' /\ GraphTypes'
    BY <1>10 DEF CallSucceeds, CallFails, CallReturns, ConfigTypes, GraphTypes,
                 loaderVars, contextVars, graphVars
  <2>. QED BY <2>1, <2>2, <2>3
<1>11. CASE UNCHANGED vars
  BY <1>11 DEF vars, loaderVars, entryVars, contextVars, graphVars,
               LoaderTypes, EntryTypes, ConfigTypes, GraphTypes
<1>. QED BY <1>1, <1>2, <1>3, <1>4, <1>5, <1>6, <1>7, <1>8, <1>9, <1>10, <1>11
         DEF Next, Load, Reload, Admin, Call

\* Only registered instances are called or reconfigured, and a change of the
\* stored configuration is missed by those that are loading.
LEMMA LoaderStep == TypeOK /\ LoaderInv /\ [Next]_vars => LoaderInv'
<1>. SUFFICES ASSUME TypeOK, LoaderInv, [Next]_vars PROVE LoaderInv'
  OBVIOUS
<1>. USE DEF TypeOK, LoaderTypes, LoaderInv, Untouched, Entries
<1>1. CASE LoadBegin
  BY <1>1, BusAssumption DEF LoadBegin, entryVars, ConfigTypes
<1>2. ASSUME NEW g \in Entries, NEW s \in Declared, LoadEnd(g, s)
      PROVE  LoaderInv'
  BY <1>2 DEF LoadEnd
<1>3. ASSUME NEW r \in Requests, ReloadBegin(r)
      PROVE  LoaderInv'
  BY <1>3 DEF ReloadBegin, loaderVars, entryVars
<1>4. ASSUME NEW r \in Requests, NEW s \in Declared, ReloadEnd(r, s)
      PROVE  LoaderInv'
  BY <1>4 DEF ReloadEnd, loaderVars
<1>5. CASE Unquarantine
  BY <1>5 DEF Unquarantine, loaderVars, contextVars
<1>6. CASE Invalidate \/ \E on \in BOOLEAN : SetEnabled(on)
  BY <1>6 DEF Invalidate, SetEnabled, loaderVars, entryVars, contextVars
<1>7. ASSUME NEW s \in Declared, RefreshLazy(s)
      PROVE  LoaderInv'
  BY <1>7 DEF RefreshLazy, loaderVars
<1>8. CASE Dispatch
  <2>1. \A e \in Entries : inflight'[e] # inflight[e] => e = registered
    BY <1>8 DEF Dispatch, EntryTypes
  <2>. QED BY <1>8, <2>1 DEF Dispatch, loaderVars, entryVars, contextVars
<1>9. ASSUME NEW e \in Entries, CallSucceeds(e) \/ CallFails(e)
      PROVE  LoaderInv'
  <2>1. e \leq born /\ e \notin loading
    BY <1>9 DEF CallSucceeds, CallFails
  <2>2. \A f \in Entries \ {e} : inflight'[f] = inflight[f] /\ errors'[f] = errors[f]
    BY <1>9 DEF CallSucceeds, CallFails, CallReturns, EntryTypes
  <2>3. UNCHANGED <<loaderVars, contextVars, stored, reloading, missed>>
    BY <1>9 DEF CallSucceeds, CallFails, CallReturns
  <2>. QED BY <2>1, <2>2, <2>3 DEF loaderVars, contextVars
<1>10. CASE UNCHANGED vars
  BY <1>10 DEF vars, loaderVars, entryVars, contextVars
<1>. QED BY <1>1, <1>2, <1>3, <1>4, <1>5, <1>6, <1>7, <1>8, <1>9, <1>10
         DEF Next, Load, Reload, Admin, Call

\* Quarantine and pardons: an entry reaches the threshold by a failed call only.
LEMMA QuarantineStep == TypeOK /\ LoaderInv /\ QuarantineComplete /\ [Next]_vars
                        => QuarantineComplete'
<1>. SUFFICES ASSUME TypeOK, LoaderInv, QuarantineComplete, [Next]_vars,
                     NEW f \in Entries, state'[f] = "ready", errors'[f] >= Threshold
              PROVE  f \in pardoned'
  BY DEF QuarantineComplete
<1>. USE DEF TypeOK, LoaderTypes, EntryTypes, QuarantineComplete
<1>1. CASE LoadBegin
  BY <1>1 DEF LoadBegin, entryVars
<1>2. ASSUME NEW g \in Entries, NEW s \in Declared, LoadEnd(g, s)
      PROVE  f \in pardoned'
  <2>1. f # g
    BY <1>2, BusAssumption DEF LoadEnd, LoaderInv, Untouched
  <2>. QED BY <1>2, <2>1 DEF LoadEnd, Reflect
<1>3. ASSUME NEW r \in Requests, ReloadBegin(r)
      PROVE  f \in pardoned'
  BY <1>3 DEF ReloadBegin, entryVars
<1>4. ASSUME NEW r \in Requests, NEW s \in Declared, ReloadEnd(r, s)
      PROVE  f \in pardoned'
  BY <1>4 DEF ReloadEnd, Reflect, Pardon
<1>5. CASE Invalidate \/ (\E on \in BOOLEAN : SetEnabled(on)) \/ Dispatch
  BY <1>5 DEF Invalidate, SetEnabled, Dispatch, entryVars
<1>6. CASE Unquarantine
  BY <1>6, BusAssumption DEF Unquarantine
<1>7. ASSUME NEW s \in Declared, RefreshLazy(s)
      PROVE  f \in pardoned'
  BY <1>7 DEF RefreshLazy, Reflect, Pardon
<1>8. ASSUME NEW e \in Entries, CallSucceeds(e) \/ CallFails(e)
      PROVE  f \in pardoned'
  BY <1>8, BusAssumption DEF CallSucceeds, CallFails
<1>9. CASE UNCHANGED vars
  BY <1>9 DEF vars, entryVars
<1>. QED BY <1>1, <1>2, <1>3, <1>4, <1>5, <1>6, <1>7, <1>8, <1>9
         DEF Next, Load, Reload, Admin, Call

\* The graph: what it depends on is changed only by steps that invalidate it.
LEMMA CacheStep == TypeOK /\ CacheCoherent /\ [Next]_vars => CacheCoherent'
<1>. SUFFICES ASSUME TypeOK, CacheCoherent, [Next]_vars PROVE CacheCoherent'
  OBVIOUS
<1>1. CASE Dispatch
  <2>1. UNCHANGED <<registered, enabled>> /\ graph' = Current
    BY <1>1 DEF Dispatch, loaderVars, entryVars
  <2>2. CASE cached
    BY <2>1, <2>2 DEF CacheCoherent, Current
  <2>3. CASE ~cached
    <3>1. graph'.entry = registered /\ (graph'.ready => Dispatchable)
      BY <2>1, <2>3 DEF Current, Picture
    <3>2. graph'.on = (registered # 0 /\ enabled[registered])
      BY <2>1, <2>3 DEF Current, Picture
    <3>3. registered # 0 => enabled[registered] \in BOOLEAN
      BY BusAssumption DEF TypeOK, LoaderTypes, EntryTypes, Entries
    <3>. QED BY <2>1, <3>1, <3>2, <3>3 DEF CacheCoherent, Dispatchable
  <2>. QED BY <2>2, <2>3
<1>2. CASE ~cached'
  BY <1>2 DEF CacheCoherent
<1>3. CASE UNCHANGED <<registered, enabled, graphVars>>
  BY <1>3 DEF CacheCoherent, graphVars
<1>4. Dispatch \/ ~cached' \/ UNCHANGED <<registered, enabled, graphVars>>
  BY DEF Next, Load, LoadBegin, LoadEnd, Reload, ReloadBegin, ReloadEnd, Admin, SetEnabled,
         Unquarantine, Invalidate, RefreshLazy, Bump, Call, CallSucceeds, CallFails,
         CallReturns, vars, loaderVars, entryVars, graphVars
<1>. QED BY <1>1, <1>2, <1>3, <1>4

\* The configuration: a registered instance gets every new one; the instance
\* that takes its place has the stored one or missed a change.
LEMMA ConfigStep == TypeOK /\ LoaderInv /\ ConfigStaleOnlyByRace /\ [Next]_vars
                    => ConfigStaleOnlyByRace'
<1>. SUFFICES ASSUME TypeOK, LoaderInv, ConfigStaleOnlyByRace, [Next]_vars
              PROVE  ConfigStaleOnlyByRace'
  OBVIOUS
<1>. USE DEF ConfigStaleOnlyByRace, TypeOK, LoaderTypes, ConfigTypes
<1>1. CASE LoadBegin
  BY <1>1 DEF LoadBegin
<1>2. ASSUME NEW g \in Entries, NEW s \in Declared, LoadEnd(g, s)
      PROVE  ConfigStaleOnlyByRace'
  BY <1>2 DEF LoadEnd, LoaderInv
<1>3. ASSUME NEW r \in Requests, ReloadBegin(r)
      PROVE  ConfigStaleOnlyByRace'
  BY <1>3, BusAssumption DEF ReloadBegin, loaderVars, Entries
<1>4. CASE UNCHANGED <<registered, ctxConfig, stored, missed>>
  BY <1>4
<1>. QED
  BY <1>1, <1>2, <1>3, <1>4
     DEF Next, Load, Reload, ReloadEnd, Admin, SetEnabled, Unquarantine, Invalidate,
         RefreshLazy, Dispatch, Call, CallSucceeds, CallFails, CallReturns, vars, loaderVars,
         contextVars

LEMMA Invariance == Spec => []IInv
<1>1. IInv /\ [Next]_vars => IInv'
  BY TypeStep, LoaderStep, QuarantineStep, CacheStep, ConfigStep DEF IInv
<1>. QED BY Initial, <1>1, PTL DEF Spec

\* Types of the bus, the loader, the configurations and the graph.
THEOREM Types == Spec => []TypeOK
<1>1. IInv => TypeOK
  BY DEF IInv
<1>. QED BY Invariance, <1>1, PTL

\* An entry with too many consecutive errors is out of the dispatch, whatever
\* calls end late, unless a configuration or a refresh made it ready.
THEOREM QuarantineHolds == Spec => []QuarantineComplete
<1>1. IInv => QuarantineComplete
  BY DEF IInv
<1>. QED BY Invariance, <1>1, PTL

\* A cached graph is about the registered entry and its flag.
THEOREM GraphCoherent == Spec => []CacheCoherent
<1>1. IInv => CacheCoherent
  BY DEF IInv
<1>. QED BY Invariance, <1>1, PTL

\* Only an instance that was loading when it changed misses a configuration.
THEOREM ConfigStale == Spec => []ConfigStaleOnlyByRace
<1>1. IInv => ConfigStaleOnlyByRace
  BY DEF IInv
<1>. QED BY Invariance, <1>1, PTL

\* No late success and no refresh ends a quarantine.
THEOREM QuarantineExits == Spec => QuarantineLifted
<1>1. ASSUME IInv, [Next]_vars, NEW f \in Entries,
             state[f] = "quarantined", state'[f] # "quarantined"
      PROVE  errors'[f] = 0 \/ \E r \in Requests : reloading[r] = f /\ reloading'[r] = 0
  <2>. USE <1>1 DEF IInv, TypeOK, EntryTypes
  <2>1. CASE LoadBegin \/ (\E r \in Requests : ReloadBegin(r)) \/ UNCHANGED vars
    BY <2>1 DEF LoadBegin, ReloadBegin, vars, entryVars
  <2>2. ASSUME NEW g \in Entries, NEW s \in Declared, LoadEnd(g, s)
        PROVE  errors'[f] = 0
    <3>1. f = g
      BY <2>2 DEF LoadEnd, Reflect
    <3>. QED BY <2>2, <3>1 DEF LoadEnd, LoaderInv, Untouched
  <2>3. ASSUME NEW r \in Requests, NEW s \in Declared, ReloadEnd(r, s)
        PROVE  reloading[r] = f /\ reloading'[r] = 0
    <3>1. reloading[r] = f
      BY <2>3 DEF ReloadEnd, Reflect
    <3>. QED BY <2>3, <3>1 DEF ReloadEnd, LoaderTypes
  <2>4. CASE Invalidate \/ (\E on \in BOOLEAN : SetEnabled(on)) \/ Dispatch
    BY <2>4 DEF Invalidate, SetEnabled, Dispatch, entryVars
  <2>5. CASE Unquarantine
    BY <2>5 DEF Unquarantine
  <2>6. CASE \E s \in Declared : RefreshLazy(s)
    BY <2>6 DEF RefreshLazy, Reflect
  <2>7. CASE Call
    BY <2>7 DEF Call, CallSucceeds, CallFails
  <2>. QED BY <2>1, <2>2, <2>3, <2>4, <2>5, <2>6, <2>7 DEF Next, Load, Reload, Admin
<1>2. IInv /\ [Next]_vars =>
      [\A e \in Entries : state[e] = "quarantined" /\ state'[e] # "quarantined" =>
           errors'[e] = 0 \/ \E r \in Requests : reloading[r] = e /\ reloading'[r] = 0]_vars
  BY <1>1
<1>. QED BY Invariance, <1>2, PTL DEF Spec, QuarantineLifted
================================================================================
