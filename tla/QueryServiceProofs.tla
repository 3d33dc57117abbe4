------------------------- MODULE QueryServiceProofs -------------------------
(***************************************************************************)
(* The registry's promises, for any adapters, names and factories: what a  *)
(* context took over it closes or still serves, and what it closed it does *)
(* not serve, through every interleaving of its calls; and schema          *)
(* discovery goes by the documented order of its routes.                   *)
(***************************************************************************)
EXTENDS QueryService, TLAPS

RegistryInv == RegistryTypeOK /\ NothingForgotten /\ ServesOnlyLive

(* Taking over an adapter, once its predecessor is closed or there is none.*)
LEMMA RegisterKeeps ==
  ASSUME RegistryInv, NEW a \in Adapters, NEW replace \in BOOLEAN, Register(a, replace)
  PROVE  RegistryInv'
<1> DEFINE key == KeyOf[a]
           previous == registered[key]
<1>1. key \in Keys /\ previous \in Adapters \cup {Nothing} /\ Nothing \notin Adapters
  BY RegistryInputs DEF RegistryInv, RegistryTypeOK
<1>2. previous # Nothing => previous \in owned
  BY <1>1 DEF RegistryInv, RegistryTypeOK
<1>3. CASE Accept(a) /\ closed' = closed \ {a} /\ previous \in {Nothing, a}
  <2>1. RegistryTypeOK'
    BY <1>1, <1>3 DEF RegistryInv, RegistryTypeOK, Accept
  <2>2. NothingForgotten'
    BY <1>1, <1>3 DEF RegistryInv, RegistryTypeOK, NothingForgotten, Accept
  <2>3. ServesOnlyLive'
    BY <1>1, <1>3 DEF RegistryInv, RegistryTypeOK, ServesOnlyLive, Accept
  <2> QED BY <2>1, <2>2, <2>3 DEF RegistryInv
<1>4. CASE Accept(a) /\ closed' = (closed \ {a}) \cup {previous} /\ previous \notin {Nothing, a}
  <2>1. RegistryTypeOK'
    BY <1>1, <1>2, <1>4 DEF RegistryInv, RegistryTypeOK, Accept
  <2>2. NothingForgotten'
    BY <1>1, <1>4 DEF RegistryInv, RegistryTypeOK, NothingForgotten, Accept
  <2>3. ServesOnlyLive'
    BY <1>1, <1>4 DEF RegistryInv, RegistryTypeOK, ServesOnlyLive, Accept
  <2> QED BY <2>1, <2>2, <2>3 DEF RegistryInv
<1>5. CASE /\ previous \notin {Nothing, a}
           /\ closed' = closed \cup {previous} /\ stale' = stale \cup {key}
           /\ UNCHANGED <<registered, owned>>
  <2>1. RegistryTypeOK'
    BY <1>1, <1>2, <1>5 DEF RegistryInv, RegistryTypeOK
  <2>2. NothingForgotten'
    BY <1>5 DEF RegistryInv, NothingForgotten
  <2>3. ServesOnlyLive'
    BY <1>1, <1>5 DEF RegistryInv, RegistryTypeOK, ServesOnlyLive
  <2> QED BY <2>1, <2>2, <2>3 DEF RegistryInv
<1> QED BY <1>3, <1>4, <1>5 DEF Register

LEMMA UnregisterKeeps ==
  ASSUME RegistryInv, NEW key \in SourceKeys, Unregister(key)
  PROVE  RegistryInv'
<1>1. key \in Keys /\ Nothing \notin Adapters /\ KeyOf \in [Adapters -> Keys]
  BY RegistryInputs DEF Keys
<1>2. RegistryTypeOK'
  BY <1>1 DEF RegistryInv, RegistryTypeOK, Unregister
<1>3. NothingForgotten'
  BY <1>1 DEF RegistryInv, RegistryTypeOK, NothingForgotten, Unregister
<1>4. ServesOnlyLive'
  BY <1>1 DEF RegistryInv, RegistryTypeOK, ServesOnlyLive, Unregister
<1> QED BY <1>2, <1>3, <1>4 DEF RegistryInv

(* close() empties the tables, whichever closes raise.                     *)
LEMMA CloseAllKeeps ==
  ASSUME RegistryInv, CloseAll
  PROVE  RegistryInv'
<1>1. Nothing \notin Adapters /\ KeyOf \in [Adapters -> Keys]
  BY RegistryInputs
<1>2. RegistryTypeOK'
  BY <1>1 DEF RegistryInv, RegistryTypeOK, CloseAll
<1>3. NothingForgotten'
  BY <1>1 DEF RegistryInv, RegistryTypeOK, NothingForgotten, CloseAll
<1>4. ServesOnlyLive'
  BY <1>1 DEF RegistryInv, RegistryTypeOK, ServesOnlyLive, CloseAll
<1> QED BY <1>2, <1>3, <1>4 DEF RegistryInv

LEMMA StutterKeeps ==
  ASSUME RegistryInv, UNCHANGED registryVars
  PROVE  RegistryInv'
BY DEF RegistryInv, RegistryTypeOK, NothingForgotten, ServesOnlyLive, registryVars

(* An engine made on first use was never the registry's before.            *)
LEMMA EngineKeeps ==
  ASSUME RegistryInv, NEW key, key \in Keys, NEW e, Engine(key, e)
  PROVE  RegistryInv' /\ registered'[key] = e
<1>1. Nothing \notin Adapters /\ KeyOf \in [Adapters -> Keys] /\ Made \subseteq Adapters
  BY RegistryInputs
<1>2. CASE registered[key] # Nothing
  <2>1. e = registered[key] /\ UNCHANGED registryVars
    BY <1>2 DEF Engine
  <2> QED BY <2>1, StutterKeeps DEF registryVars
<1>3. CASE registered[key] = Nothing
  <2>1. /\ e \in Adapters /\ e \notin owned /\ KeyOf[e] = key
        /\ Accept(e) /\ closed' = closed
    BY <1>1, <1>3 DEF Engine, Fresh
  <2>2. RegistryTypeOK'
    BY <1>1, <2>1 DEF RegistryInv, RegistryTypeOK, Accept
  <2>3. NothingForgotten'
    BY <1>1, <1>3, <2>1 DEF RegistryInv, RegistryTypeOK, NothingForgotten, Accept
  <2>4. ServesOnlyLive'
    BY <1>1, <2>1 DEF RegistryInv, RegistryTypeOK, ServesOnlyLive, Accept
  <2>5. registered'[key] = e
    BY <2>1 DEF Accept, RegistryInv, RegistryTypeOK
  <2> QED BY <2>2, <2>3, <2>4, <2>5 DEF RegistryInv
<1> QED BY <1>2, <1>3

LEMMA RegistryNextKeeps ==
  ASSUME RegistryInv, RegistryNext
  PROVE  RegistryInv'
<1>1. CASE \E a \in Adapters \ Made, replace \in BOOLEAN : Register(a, replace)
  BY <1>1, RegisterKeeps
<1>2. CASE \E key \in SourceKeys : Unregister(key)
  BY <1>2, UnregisterKeeps
<1>3. CASE CloseAll
  BY <1>3, CloseAllKeeps
<1> QED BY <1>1, <1>2, <1>3 DEF RegistryNext

-----------------------------------------------------------------------------
(* What a call in progress knows: from the routes on, its engine is the    *)
(* registered one.  That is not part of TypeOK before "schema", but making *)
(* the default engine must not displace it.                                *)
CallInv ==
  /\ call \in [step : {"idle", "engine", "routes", "schema", "plan", "done"},
               kind : Kinds, source : SourceKeys \cup {Nothing}, key : EngineKeys \cup {Nothing},
               engine : Adapters \cup {Nothing},
               routes : Seq({"selected", "source", "default"}),
               tried : Seq({"selected", "source", "default"}),
               route : {"selected", "source", "default", Nothing},
               outcome : Refusals \cup {"answered", Nothing}]
  /\ call.step \in {"engine", "routes", "schema", "plan"} =>
       call.source \in SourceKeys /\ call.key \in EngineKeys
  /\ call.step \in {"routes", "schema", "plan"} => registered[call.key] = call.engine
  /\ call.step = "schema" => call.routes # <<>>

ServiceInv ==
  /\ RegistryInv
  /\ CallInv
  /\ installed \subseteq Factories
  /\ reaches \subseteq EngineKeys \X SourceKeys

LEMMA InitEstablishes == Init => ServiceInv
<1> SUFFICES ASSUME Init PROVE ServiceInv
  OBVIOUS
<1>1. RegistryInv
  BY RegistryInputs DEF Init, RegistryInit, RegistryInv, RegistryTypeOK, NothingForgotten, ServesOnlyLive
<1>2. CallInv
  BY DEF Init, CallInv, Idle, Kinds
<1> QED BY <1>1, <1>2 DEF Init, ServiceInv

LEMMA BeginKeeps ==
  ASSUME ServiceInv, NEW kind \in Kinds, NEW source \in SourceKeys, NEW engine \in EngineKeys,
         Begin(kind, source, engine)
  PROVE  ServiceInv'
<1>1. RegistryInv'
  BY StutterKeeps DEF Begin, ServiceInv
<1>2. CallInv'
  <2>1. <<>> \in Seq({"selected", "source", "default"})
    OBVIOUS
  <2>2. call' = [step |-> "engine", kind |-> kind, source |-> source, key |-> engine,
                 engine |-> Nothing, routes |-> <<>>, tried |-> <<>>, route |-> Nothing,
                 outcome |-> Nothing]
    BY DEF Begin, Idle
  <2> QED BY <2>1, <2>2 DEF CallInv
<1> QED BY <1>1, <1>2 DEF Begin, ServiceInv

LEMMA RaiseKeepsCall ==
  ASSUME CallInv, NEW outcome, Raise(outcome)
  PROVE  CallInv'
BY DEF CallInv, Raise, Finish

LEMMA SelectEngineKeeps ==
  ASSUME ServiceInv, SelectEngine
  PROVE  ServiceInv'
<1>1. call.key \in EngineKeys /\ call.key \in Keys /\ call.step = "engine"
  BY DEF ServiceInv, CallInv, SelectEngine, Keys
<1>2. CASE UNCHANGED registryVars /\ \E outcome \in Refusals : Raise(outcome)
  <2>1. RegistryInv' /\ CallInv'
    BY <1>2, StutterKeeps, RaiseKeepsCall DEF ServiceInv
  <2> QED BY <2>1 DEF SelectEngine, ServiceInv
<1>3. ASSUME NEW e \in Engines, Engine(call.key, e),
             \/ \E outcome \in Refusals : Raise(outcome)
             \/ call' = [call EXCEPT !.step = "routes", !.engine = e]
      PROVE  ServiceInv'
  <2>1. RegistryInv' /\ registered'[call.key] = e
    BY <1>1, <1>3, EngineKeeps DEF ServiceInv
  <2>2. CASE \E outcome \in Refusals : Raise(outcome)
    BY <2>1, <2>2, RaiseKeepsCall DEF SelectEngine, ServiceInv
  <2>3. CASE call' = [call EXCEPT !.step = "routes", !.engine = e]
    <3>1. CallInv'
      BY <1>1, <1>3, <2>1, <2>3 DEF ServiceInv, CallInv, Engines
    <3> QED BY <2>1, <3>1 DEF SelectEngine, ServiceInv
  <2> QED BY <1>3, <2>2, <2>3
<1> QED BY <1>2, <1>3 DEF SelectEngine, Raise

LEMMA RoutesAreRoutes ==
  ASSUME NEW fallback \in BOOLEAN
  PROVE  /\ RoutesWith(call, fallback) \in Seq({"selected", "source", "default"})
         /\ RoutesWith(call, fallback) # <<>>
<1> DEFINE Routes == {"selected", "source", "default"}
           first == IF Reachable(call.key, call.source) THEN <<"selected">> ELSE <<>>
           last == IF fallback /\ Reachable(DefaultEngine, call.source)
                   THEN <<"default">> ELSE <<>>
<1>1. first \in Seq(Routes) /\ last \in Seq(Routes) /\ <<"source">> \in Seq(Routes)
  <2>1. \A route \in Routes : <<route>> \in Seq(Routes)
    OBVIOUS
  <2>2. <<>> \in Seq(Routes)
    OBVIOUS
  <2> QED BY <2>1, <2>2
<1>2. RoutesWith(call, fallback) = (first \o <<"source">>) \o last
  BY DEF RoutesWith, OwnRoutes
<1> HIDE DEF first, last
<1>3. first \o <<"source">> \in Seq(Routes) /\ Len(first \o <<"source">>) > 0
  BY <1>1
<1>4. (first \o <<"source">>) \o last \in Seq(Routes)
  BY <1>1, <1>3
<1>5. Len((first \o <<"source">>) \o last) > 0
  BY <1>1, <1>3
<1> QED BY <1>2, <1>4, <1>5

LEMMA FindRoutesKeeps ==
  ASSUME ServiceInv, FindRoutes
  PROVE  ServiceInv'
<1>1. DefaultEngine \in Keys /\ call.step = "routes" /\ call.key \in EngineKeys
  BY ServiceInputs DEF ServiceInv, CallInv, FindRoutes, Keys
<1>2. CASE UNCHANGED registryVars /\ \E outcome \in Refusals : Raise(outcome)
  <2>1. RegistryInv' /\ CallInv'
    BY <1>2, StutterKeeps, RaiseKeepsCall DEF ServiceInv
  <2> QED BY <2>1 DEF FindRoutes, ServiceInv
<1>3. ASSUME NEW fallback \in BOOLEAN,
             call' = [call EXCEPT !.step = "schema", !.routes = RoutesWith(call, fallback)],
             RegistryInv', registered'[call.key] = registered[call.key]
      PROVE  ServiceInv'
  <2>1. CallInv'
    BY <1>1, <1>3, RoutesAreRoutes DEF ServiceInv, CallInv
  <2> QED BY <1>3, <2>1 DEF FindRoutes, ServiceInv
<1>4. CASE /\ UNCHANGED registryVars
           /\ call' = [call EXCEPT !.step = "schema", !.routes = RoutesWith(call, FALSE)]
  BY <1>3, <1>4, StutterKeeps DEF ServiceInv, registryVars
<1>5. ASSUME NEW e \in Engines, Engine(DefaultEngine, e), call.key # DefaultEngine,
             call' = [call EXCEPT !.step = "schema", !.routes = RoutesWith(call, TRUE)]
      PROVE  ServiceInv'
  <2>1. RegistryInv'
    BY <1>1, <1>5, EngineKeeps DEF ServiceInv
  <2>2. registered'[call.key] = registered[call.key]
    <3>1. CASE registered[DefaultEngine] # Nothing
      BY <1>5, <3>1 DEF Engine, registryVars
    <3>2. CASE registered[DefaultEngine] = Nothing
      <4>1. registered' = [registered EXCEPT ![DefaultEngine] = e]
        BY <1>5, <3>2 DEF Engine, Fresh, Accept
      <4>2. registered \in [Keys -> Adapters \cup {Nothing}] /\ call.key \in Keys
        BY <1>1 DEF ServiceInv, RegistryInv, RegistryTypeOK, Keys
      <4> QED BY <1>5, <4>1, <4>2
    <3> QED BY <3>1, <3>2
  <2> QED BY <1>3, <1>5, <2>1, <2>2
<1> QED BY <1>2, <1>4, <1>5 DEF FindRoutes, Raise

LEMMA TryRouteKeeps ==
  ASSUME ServiceInv, TryRoute
  PROVE  ServiceInv'
<1> DEFINE Routes == {"selected", "source", "default"}
<1>1. /\ call.step = "schema" /\ call.routes \in Seq(Routes) /\ call.routes # <<>>
      /\ call.tried \in Seq(Routes)
  BY DEF ServiceInv, CallInv, TryRoute
<1>2. Head(call.routes) \in Routes /\ Tail(call.routes) \in Seq(Routes)
  BY <1>1
<1>3. Append(call.tried, Head(call.routes)) \in Seq(Routes) \ {<<>>}
  BY <1>1, <1>2, SMTT(30)
<1>4. Head(Append(call.tried, Head(call.routes))) \in Routes
  BY <1>3
<1>5. RegistryInv'
  BY StutterKeeps DEF TryRoute, ServiceInv
<1>6. registered' = registered
  BY DEF TryRoute, registryVars
<1>7. CASE Answers
  <2>1. CallInv' BY <1>1, <1>2, <1>6, <1>7 DEF ServiceInv, CallInv, Answers
  <2> QED BY <1>5, <2>1 DEF TryRoute, ServiceInv
<1>8. CASE Fails
  <2>1. CallInv' BY <1>1, <1>2, <1>3, <1>6, <1>8 DEF ServiceInv, CallInv, Fails
  <2> QED BY <1>5, <2>1 DEF TryRoute, ServiceInv
<1>9. CASE LastFails
  <2>1. CallInv' BY <1>1, <1>3, <1>4, <1>6, <1>9 DEF ServiceInv, CallInv, LastFails, Refusals
  <2> QED BY <1>5, <2>1 DEF TryRoute, ServiceInv
<1> QED BY <1>7, <1>8, <1>9 DEF TryRoute

LEMMA PlanKeeps ==
  ASSUME ServiceInv, Plan
  PROVE  ServiceInv'
<1>1. RegistryInv'
  BY StutterKeeps DEF Plan, ServiceInv
<1>2. PICK outcome \in Refusals \cup {"answered"} : Finish(outcome)
  BY DEF Plan, Refusals
<1>3. call'.step = "done"
  BY <1>2 DEF Finish, ServiceInv, CallInv
<1>4. CallInv'
  BY <1>2, <1>3 DEF ServiceInv, CallInv, Finish
<1> QED BY <1>1, <1>4 DEF Plan, ServiceInv

LEMMA ChangeKeeps ==
  ASSUME ServiceInv, Change
  PROVE  ServiceInv'
<1>1. RegistryInv'
  BY RegistryNextKeeps DEF Change, ServiceInv
<1>2. CallInv'
  BY DEF ServiceInv, CallInv, Change
<1> QED BY <1>1, <1>2 DEF Change, ServiceInv

LEMMA StepKeeps == ServiceInv /\ [Next]_serviceVars => ServiceInv'
<1> SUFFICES ASSUME ServiceInv, [Next]_serviceVars PROVE ServiceInv'
  OBVIOUS
<1>1. CASE UNCHANGED serviceVars
  <2>1. RegistryInv' BY <1>1, StutterKeeps DEF ServiceInv, serviceVars
  <2> QED BY <1>1, <2>1 DEF ServiceInv, CallInv, serviceVars, registryVars
<1>2. CASE Next
  BY <1>2, BeginKeeps, SelectEngineKeeps, FindRoutesKeeps, TryRouteKeeps, PlanKeeps, ChangeKeeps
     DEF Next
<1> QED BY <1>1, <1>2

LEMMA ServiceInvariant == Spec => []ServiceInv
BY InitEstablishes, StepKeeps, PTL DEF Spec

-----------------------------------------------------------------------------
(* Every variable keeps its type, and the engine a call selected is still  *)
(* the registered one when it discovers the schema and plans.              *)
THEOREM ServiceTypeCorrect == Spec => []TypeOK
<1>1. ServiceInv => TypeOK
  BY DEF ServiceInv, RegistryInv, CallInv, TypeOK
<1> QED BY <1>1, ServiceInvariant, PTL

(* An adapter the context took over is closed or still served.             *)
THEOREM AdaptersAccountedFor == Spec => []NothingForgotten
<1>1. ServiceInv => NothingForgotten
  BY DEF ServiceInv, RegistryInv
<1> QED BY <1>1, ServiceInvariant, PTL

(* A closed adapter is served only where replacing it raised.              *)
THEOREM ClosedNotServed == Spec => []ServesOnlyLive
<1>1. ServiceInv => ServesOnlyLive
  BY DEF ServiceInv, RegistryInv
<1> QED BY <1>1, ServiceInvariant, PTL

-----------------------------------------------------------------------------
(* Schema discovery goes by the documented order: what is preferred to a   *)
(* route still to be tried has failed or comes before it, and the first    *)
(* route of all has nothing preferred to it.                               *)

Failed == {call.tried[i] : i \in DOMAIN call.tried}

Earlier(i) == {call.routes[j] : j \in 1 .. (i - 1)}

OrderInv ==
  /\ call.step \in {"idle", "engine", "routes"} => call.tried = <<>>
  /\ call.step \in {"idle", "engine", "routes", "schema"} => call.route = Nothing
  /\ call.step = "schema" =>
       /\ \A i \in 1 .. Len(call.routes) : Preferred(call)[call.routes[i]] \subseteq Failed \cup Earlier(i)
       /\ Preferred(call)[IF call.tried = <<>> THEN call.routes[1] ELSE call.tried[1]] = {}
  /\ DiscoveryInOrder

LEMMA RoutesInOrder ==
  ASSUME NEW fallback \in BOOLEAN, NEW R, R = RoutesWith(call, fallback)
  PROVE  /\ Preferred(call)[R[1]] = {}
         /\ \A i \in 1 .. Len(R) : Preferred(call)[R[i]] \subseteq {R[j] : j \in 1 .. (i - 1)}
<1> DEFINE reach == Reachable(call.key, call.source)
           back == fallback /\ Reachable(DefaultEngine, call.source)
<1>1. R = ((IF reach THEN <<"selected">> ELSE <<>>) \o <<"source">>)
            \o (IF back THEN <<"default">> ELSE <<>>)
  BY DEF RoutesWith, OwnRoutes
<1>2. /\ Preferred(call)["selected"] = {}
      /\ Preferred(call)["source"] = IF reach THEN {"selected"} ELSE {}
      /\ Preferred(call)["default"] = IF reach THEN {"selected", "source"} ELSE {"source"}
  BY DEF Preferred
<1> HIDE DEF reach, back
<1>3. R = IF reach THEN IF back THEN <<"selected", "source", "default">> ELSE <<"selected", "source">>
          ELSE IF back THEN <<"source", "default">> ELSE <<"source">>
  BY <1>1, SMTT(30)
<1>4. CASE reach
  <2>1. /\ Len(R) \in {2, 3} /\ R[1] = "selected" /\ R[2] = "source"
        /\ Len(R) = 3 => R[3] = "default"
    BY <1>3, <1>4
  <2> QED BY <1>2, <1>4, <2>1
<1>5. CASE ~ reach
  <2>1. /\ Len(R) \in {1, 2} /\ R[1] = "source"
        /\ Len(R) = 2 => R[2] = "default"
    BY <1>3, <1>5
  <2> QED BY <1>2, <1>5, <2>1
<1> QED BY <1>4, <1>5

(* What is preferred depends on the request and on what engines reach.     *)
LEMMA PreferredStays ==
  ASSUME call'.key = call.key, call'.source = call.source, UNCHANGED reaches
  PROVE  Preferred(call)' = Preferred(call)
BY DEF Preferred, Reachable

LEMMA FindRoutesInOrder ==
  ASSUME ServiceInv, OrderInv, FindRoutes
  PROVE  OrderInv'
<1>1. call.step = "routes" /\ call.tried = <<>> /\ call.route = Nothing /\ UNCHANGED reaches
  BY DEF FindRoutes, OrderInv
<1>2. CASE \E outcome \in Refusals : Raise(outcome)
  BY <1>1, <1>2 DEF Raise, Finish, OrderInv, DiscoveryInOrder, ServiceInv, CallInv
<1>3. ASSUME NEW fallback \in BOOLEAN,
             call' = [call EXCEPT !.step = "schema", !.routes = RoutesWith(call, fallback)]
      PROVE  OrderInv'
  <2>1. /\ call'.step = "schema" /\ call'.routes = RoutesWith(call, fallback)
        /\ call'.tried = <<>> /\ call'.route = Nothing
        /\ call'.key = call.key /\ call'.source = call.source
    BY <1>1, <1>3 DEF ServiceInv, CallInv
  <2>2. Preferred(call)' = Preferred(call)
    BY <1>1, <2>1, PreferredStays
  <2>3. /\ Preferred(call)[call'.routes[1]] = {}
        /\ \A i \in 1 .. Len(call'.routes) :
             Preferred(call)[call'.routes[i]] \subseteq {call'.routes[j] : j \in 1 .. (i - 1)}
    BY <2>1, RoutesInOrder
  <2> QED BY <2>1, <2>2, <2>3 DEF OrderInv, DiscoveryInOrder, Earlier
<1> QED BY <1>2, <1>3 DEF FindRoutes, Raise

LEMMA TryRouteInOrder ==
  ASSUME ServiceInv, OrderInv, TryRoute
  PROVE  OrderInv'
<1> DEFINE Routes == {"selected", "source", "default"}
           first == Head(call.routes)
           failed == Append(call.tried, first)
<1>1. /\ call.step = "schema" /\ call.routes \in Seq(Routes) /\ call.routes # <<>>
      /\ call.tried \in Seq(Routes) /\ call.route = Nothing /\ UNCHANGED reaches
  BY DEF ServiceInv, CallInv, TryRoute, OrderInv
<1>2. first \in Routes /\ first = call.routes[1] /\ Len(call.routes) > 0
  BY <1>1
<1>3. Preferred(call)[first] \subseteq Failed
  <2>1. Preferred(call)[call.routes[1]] \subseteq Failed \cup Earlier(1)
    BY <1>1, <1>2 DEF OrderInv
  <2>2. Earlier(1) = {}
    BY DEF Earlier
  <2> QED BY <1>2, <2>1, <2>2
<1>4. /\ failed \in Seq(Routes) /\ failed # <<>>
      /\ failed[1] = IF call.tried = <<>> THEN first ELSE call.tried[1]
      /\ Len(failed) = Len(call.tried) + 1 /\ failed[Len(call.tried) + 1] = first
      /\ \A i \in 1 .. Len(call.tried) : failed[i] = call.tried[i]
  <2> HIDE DEF first
  <2>1. /\ failed \in Seq(Routes) /\ Len(failed) = Len(call.tried) + 1 /\ Len(call.tried) \in Nat
        /\ failed[Len(call.tried) + 1] = first
        /\ \A i \in 1 .. Len(call.tried) : failed[i] = call.tried[i]
    BY <1>1, <1>2
  <2>2. CASE call.tried = <<>>
    BY <2>1, <2>2
  <2>3. CASE call.tried # <<>>
    <3>1. Len(call.tried) > 0
      BY <1>1, <2>3
    <3> QED BY <2>1, <2>3, <3>1
  <2> QED BY <2>1, <2>2, <2>3
<1>5. {failed[i] : i \in DOMAIN failed} = Failed \cup {first}
  <2> HIDE DEF failed, first
  <2>1. DOMAIN failed = 1 .. (Len(call.tried) + 1) /\ DOMAIN call.tried = 1 .. Len(call.tried)
    BY <1>1, <1>4
  <2> QED BY <1>1, <1>4, <2>1, SMTT(20) DEF Failed
<1>6. Preferred(call)[failed[1]] = {}
  BY <1>1, <1>2, <1>4 DEF OrderInv
<1>7. CASE Answers
  <2>1. call'.step = "plan" /\ call'.route = first /\ call'.tried = call.tried
        /\ call'.key = call.key /\ call'.source = call.source
    BY <1>7 DEF Answers, ServiceInv, CallInv
  <2>2. Preferred(call)' = Preferred(call)
    BY <1>1, <2>1, PreferredStays
  <2> QED BY <1>3, <2>1, <2>2 DEF OrderInv, DiscoveryInOrder, Failed
<1>8. CASE Fails
  <2>1. /\ call'.step = "schema" /\ call'.routes = Tail(call.routes) /\ call'.tried = failed
        /\ call'.route = Nothing /\ call'.key = call.key /\ call'.source = call.source
    BY <1>1, <1>8 DEF Fails, ServiceInv, CallInv
  <2>2. Preferred(call)' = Preferred(call)
    BY <1>1, <2>1, PreferredStays
  <2>3. Failed' = Failed \cup {first}
    BY <1>5, <2>1 DEF Failed
  <2>4. ASSUME NEW i \in 1 .. Len(call'.routes)
        PROVE  Preferred(call)[call'.routes[i]] \subseteq Failed' \cup Earlier(i)'
    <3>1. /\ i + 1 \in 1 .. Len(call.routes) /\ call'.routes[i] = call.routes[i + 1]
          /\ \A j \in 1 .. (i - 1) : call'.routes[j] = call.routes[j + 1]
      BY <1>1, <1>2, <2>1
    <3>2. Preferred(call)[call'.routes[i]] \subseteq Failed \cup Earlier(i + 1)
      BY <1>1, <3>1 DEF OrderInv
    <3>3. Earlier(i + 1) \subseteq {first} \cup Earlier(i)'
      <4> SUFFICES ASSUME NEW j \in 1 .. i, call.routes[j] # first
                   PROVE  \E l \in 1 .. (i - 1) : call.routes[j] = call'.routes[l]
        <5>1. Earlier(i + 1) = {call.routes[j] : j \in 1 .. i}
          BY DEF Earlier
        <5> QED BY <5>1 DEF Earlier
      <4>1. j # 1 /\ j - 1 \in 1 .. (i - 1) /\ (j - 1) + 1 = j
        BY <1>2
      <4> QED BY <3>1, <4>1
    <3> QED BY <2>3, <3>2, <3>3
  <2>5. call'.tried # <<>> /\ Preferred(call)[call'.tried[1]] = {}
    BY <1>4, <1>6, <2>1
  <2> QED BY <2>1, <2>2, <2>4, <2>5 DEF OrderInv, DiscoveryInOrder
<1>9. CASE LastFails
  <2>1. /\ call'.step = "done" /\ call'.outcome = "schema unavailable" /\ call'.tried = failed
        /\ call'.route = Head(failed) /\ call'.key = call.key /\ call'.source = call.source
    BY <1>1, <1>9 DEF LastFails, ServiceInv, CallInv
  <2>2. Preferred(call)' = Preferred(call)
    BY <1>1, <2>1, PreferredStays
  <2>3. Head(failed) = failed[1] /\ 1 \in DOMAIN failed
    BY <1>4
  <2> QED BY <1>6, <2>1, <2>2, <2>3 DEF OrderInv, DiscoveryInOrder
<1> QED BY <1>7, <1>8, <1>9 DEF TryRoute

LEMMA OrderKept == ServiceInv /\ OrderInv /\ [Next]_serviceVars => OrderInv'
<1> SUFFICES ASSUME ServiceInv, OrderInv, [Next]_serviceVars PROVE OrderInv'
  OBVIOUS
<1>1. ASSUME UNCHANGED <<call, reaches>> PROVE OrderInv'
  <2>1. Preferred(call)' = Preferred(call)
    BY <1>1, PreferredStays
  <2>2. Failed' = Failed /\ \A i \in 1 .. Len(call.routes) : Earlier(i)' = Earlier(i)
    BY <1>1 DEF Failed, Earlier
  <2>3. DiscoveryInOrder'
    BY <1>1, ZenonT(30) DEF OrderInv, DiscoveryInOrder, Preferred, Reachable
  <2>4. call' = call
    BY <1>1
  <2> QED BY <2>1, <2>2, <2>3, <2>4 DEF OrderInv
<1>2. ASSUME NEW kind \in Kinds, NEW source \in SourceKeys, NEW engine \in EngineKeys,
             Begin(kind, source, engine)
      PROVE  OrderInv'
  <2>1. call' = [step |-> "engine", kind |-> kind, source |-> source, key |-> engine,
                 engine |-> Nothing, routes |-> <<>>, tried |-> <<>>, route |-> Nothing,
                 outcome |-> Nothing]
    BY <1>2 DEF Begin, Idle
  <2>2. call'.step = "engine" /\ call'.tried = <<>> /\ call'.route = Nothing
    BY <2>1
  <2> QED BY <2>2 DEF OrderInv, DiscoveryInOrder
<1>3. CASE SelectEngine
  <2>1. call.step = "engine" /\ call.tried = <<>> /\ call.route = Nothing
    BY <1>3 DEF SelectEngine, OrderInv
  <2>2. \/ \E outcome \in Refusals : Finish(outcome)
        \/ \E e \in Engines : call' = [call EXCEPT !.step = "routes", !.engine = e]
    BY <1>3 DEF SelectEngine, Raise
  <2>3. call'.step \in {"routes", "done"} /\ call'.tried = <<>> /\ call'.route = Nothing
    BY <2>1, <2>2 DEF Finish, ServiceInv, CallInv
  <2> QED BY <2>3 DEF OrderInv, DiscoveryInOrder
<1>4. CASE Plan
  <2>1. PICK outcome \in (Refusals \ {"schema unavailable"}) \cup {"answered"} : Finish(outcome)
    BY <1>4 DEF Plan, Refusals
  <2>2. /\ call.step = "plan" /\ call'.step = "done" /\ call'.outcome # "schema unavailable"
        /\ call'.tried = call.tried /\ call'.route = call.route
        /\ call'.key = call.key /\ call'.source = call.source
    BY <1>4, <2>1 DEF Plan, Finish, ServiceInv, CallInv, Refusals
  <2>3. Preferred(call)' = Preferred(call)
    BY <1>4, <2>2, PreferredStays DEF Plan
  <2> QED BY <2>2, <2>3 DEF OrderInv, DiscoveryInOrder
<1>5. CASE Change
  BY <1>1, <1>5 DEF Change
<1> QED
  BY <1>1, <1>2, <1>3, <1>4, <1>5, FindRoutesInOrder, TryRouteInOrder DEF Next, serviceVars

(* A route to the schema that answers was preceded by the failure of all   *)
(* that are preferred to it, and an error of discovery is that of the      *)
(* selected engine if it has a route, whatever the application changes     *)
(* between its calls.                                                      *)
THEOREM DiscoveryGoesInOrder == Spec => []DiscoveryInOrder
<1>1. Init => OrderInv
  BY DEF Init, Idle, OrderInv, DiscoveryInOrder
<1>2. OrderInv => DiscoveryInOrder
  BY DEF OrderInv
<1> QED BY <1>1, <1>2, OrderKept, ServiceInvariant, PTL DEF Spec

=============================================================================
