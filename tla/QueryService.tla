---------------------------- MODULE QueryService ----------------------------
(***************************************************************************)
(* A context: its registry (application/registry.py) and the calls over it *)
(* (application/service.py, api/context.py).                               *)
(*                                                                         *)
(* The registry holds sources and engines by name, and factories for       *)
(* engines that are made on first use.  Its two dictionaries are one       *)
(* function here, since their keys differ and register_source and          *)
(* register_engine do the same with them.  It takes no lock and no         *)
(* document promises that threads may share a context: a call is one       *)
(* action.                                                                 *)
(*                                                                         *)
(* explain, execute and compile select an engine, find out the source's    *)
(* schema by the first route that answers, plan, and either refuse or hand *)
(* the plan to the engine.  What planning decides is the Planner's         *)
(* subject; here it is an outcome.  One step per call that may raise;      *)
(* between two calls the application changes the registry.                 *)
(***************************************************************************)
EXTENDS Naturals, FiniteSets, Sequences

CONSTANTS
  SourceKeys, EngineKeys, \* names of sources and of engines
  Adapters,     \* source and engine objects
  KeyOf,        \* an adapter's name
  Factories,    \* engine names with a factory
  Made,         \* engines that factories make
  Nothing       \* no adapter

Keys == SourceKeys \cup EngineKeys

ASSUME RegistryInputs ==
  /\ SourceKeys \cap EngineKeys = {}
  /\ KeyOf \in [Adapters -> Keys]
  /\ Factories \subseteq EngineKeys
  /\ Made \subseteq {a \in Adapters : KeyOf[a] \in Factories}
  /\ Nothing \notin Adapters

VARIABLES
  registered, \* the dictionaries
  owned,      \* adapters the registry has accepted or made
  closed,     \* adapters whose close() ran since they were last accepted
  stale       \* names whose last replacement raised

registryVars == <<registered, owned, closed, stale>>

RegistryInit ==
  /\ registered = [k \in Keys |-> Nothing]
  /\ owned = {}
  /\ closed = {}
  /\ stale = {}

Accept(a) ==
  /\ registered' = [registered EXCEPT ![KeyOf[a]] = a]
  /\ owned' = owned \cup {a}
  /\ stale' = stale \ {KeyOf[a]}

(* Mutant of Register: the previous adapter is only dropped.               *)
RegisterOver(a, replace) ==
  /\ registered[KeyOf[a]] # Nothing => replace
  /\ Accept(a)
  /\ closed' = closed \ {a}

(* register_source, register_engine.  The previous adapter is closed       *)
(* before the new one takes its place: when that raises, nothing does.     *)
Register(a, replace) ==
  LET previous == registered[KeyOf[a]]
  IN  /\ previous # Nothing => replace
      /\ \/ /\ previous \in {Nothing, a}
            /\ Accept(a)
            /\ closed' = closed \ {a}
         \/ /\ previous \notin {Nothing, a}
            /\ closed' = (closed \ {a}) \cup {previous}
            /\ Accept(a)
         \/ /\ previous \notin {Nothing, a}
            /\ closed' = closed \cup {previous}
            /\ stale' = stale \cup {KeyOf[a]}
            /\ UNCHANGED <<registered, owned>>

(* unregister_source: the name is gone whether or not close() raises.      *)
Unregister(key) ==
  /\ key \in SourceKeys /\ registered[key] # Nothing
  /\ closed' = closed \cup {registered[key]}
  /\ registered' = [registered EXCEPT ![key] = Nothing]
  /\ stale' = stale \ {key}
  /\ UNCHANGED owned

(* Mutant of CloseAll: the first close() that raises ends the loop.        *)
CloseUntilOneRaises ==
  \/ /\ closed' = closed \cup (owned \cap {registered[k] : k \in Keys})
     /\ registered' = [k \in Keys |-> Nothing]
     /\ stale' = {}
     /\ UNCHANGED owned
  \/ \E k \in Keys :
       /\ registered[k] # Nothing
       /\ closed' = closed \cup {registered[k]}
       /\ UNCHANGED <<registered, owned, stale>>

(* close(): every adapter is closed even if some raise, then the tables    *)
(* are emptied and the first error is raised.  Factories stay.             *)
CloseAll ==
  /\ closed' = closed \cup (owned \cap {registered[k] : k \in Keys})
  /\ registered' = [k \in Keys |-> Nothing]
  /\ stale' = {}
  /\ UNCHANGED owned

(* engine(): the registered engine, or a new one from the factory, unless  *)
(* the factory raises; every call of a factory makes a new object.         *)
Fresh(key) == {e \in Made \ owned : KeyOf[e] = key}

(* Mutant of Engine: the new engine is not kept.                           *)
EngineNotKept(key, e) ==
  IF registered[key] # Nothing
  THEN e = registered[key] /\ UNCHANGED registryVars
  ELSE e \in Fresh(key) /\ owned' = owned \cup {e} /\ UNCHANGED <<registered, closed, stale>>

Engine(key, e) ==
  IF registered[key] # Nothing
  THEN e = registered[key] /\ UNCHANGED registryVars
  ELSE e \in Fresh(key) /\ Accept(e) /\ UNCHANGED closed

has_engine(key) == registered[key] # Nothing \/ key \in Factories

RegistryNext ==
  \/ \E a \in Adapters \ Made, replace \in BOOLEAN : Register(a, replace)
  \/ \E key \in SourceKeys : Unregister(key)
  \/ CloseAll

-----------------------------------------------------------------------------
RegistryTypeOK ==
  /\ registered \in [Keys -> Adapters \cup {Nothing}]
  /\ \A k \in Keys : registered[k] # Nothing => KeyOf[registered[k]] = k /\ registered[k] \in owned
  /\ owned \subseteq Adapters
  /\ closed \subseteq owned
  /\ stale \subseteq Keys

(* The context owns its adapters: one that the registry accepted or made   *)
(* and no longer serves was told to close, whatever replacements,          *)
(* removals, failing closes and engines made after close() came between.   *)
NothingForgotten == \A a \in owned : a \in closed \/ registered[KeyOf[a]] = a

(* The registry serves no adapter it closed, but for the one case of a     *)
(* replacement whose close of the previous adapter raised.                 *)
ServesOnlyLive == \A k \in Keys : registered[k] \in closed => k \in stale

-----------------------------------------------------------------------------
(* Calls.                                                                  *)

CONSTANTS
  DefaultEngine, \* the engine name used when the caller gives none
  Local,         \* engines with execute()
  Compiling      \* engines with compile()

ASSUME ServiceInputs ==
  /\ DefaultEngine \in EngineKeys
  /\ Local \subseteq Adapters /\ Compiling \subseteq Adapters

VARIABLES
  call,       \* the call in progress
  installed,  \* engine names whose factory finds the library it imports
  reaches     \* pairs of an engine name and a source the engine can read

serviceVars == <<registryVars, call, installed, reaches>>

Kinds == {"explain", "execute", "compile"}

Idle ==
  [step |-> "idle", kind |-> "explain", source |-> Nothing, key |-> Nothing, engine |-> Nothing,
   routes |-> <<>>, tried |-> <<>>, route |-> Nothing, outcome |-> Nothing]

Refusals ==
  {"engine unknown", "dependency missing", "operation unsupported", "parameter",
   "source not registered", "schema unavailable", "binding", "staging required",
   "not executable"}

Engines == {a \in Adapters : KeyOf[a] \in EngineKeys}

Init ==
  /\ RegistryInit
  /\ call = Idle
  /\ installed \in SUBSET Factories
  /\ reaches \in SUBSET (EngineKeys \X SourceKeys)

Begin(kind, source, engine) ==
  /\ call.step \in {"idle", "done"}
  /\ call' = [Idle EXCEPT !.step = "engine", !.kind = kind, !.source = source, !.key = engine]
  /\ UNCHANGED <<registryVars, installed, reaches>>

(* A call keeps its request, the engine it selected, the routes to the     *)
(* schema whose errors were kept, and the route that answered or whose     *)
(* error is raised.                                                        *)
Finish(outcome) == call' = [call EXCEPT !.step = "done", !.outcome = outcome]

Raise(outcome) == outcome \in Refusals /\ Finish(outcome)

Suits(kind, e) ==
  /\ kind = "execute" => e \in Local
  /\ kind = "compile" => e \in Compiling

(* _engine, the check of the engine's kind, and bind_parameters.           *)
SelectEngine ==
  /\ call.step = "engine"
  /\ IF has_engine(call.key)
     THEN \/ /\ registered[call.key] = Nothing /\ call.key \notin installed
             /\ Raise("dependency missing")
             /\ UNCHANGED registryVars
          \/ /\ registered[call.key] # Nothing \/ call.key \in installed
             /\ \E e \in Engines :
                  /\ Engine(call.key, e)
                  /\ IF ~ Suits(call.kind, e) THEN Raise("operation unsupported")
                     ELSE \/ call' = [call EXCEPT !.step = "routes", !.engine = e]
                          \/ call.kind # "explain" /\ Raise("parameter")
     ELSE Raise("engine unknown") /\ UNCHANGED registryVars
  /\ UNCHANGED <<installed, reaches>>

-----------------------------------------------------------------------------
(* _discover_schema.                                                       *)

Reachable(key, source) == <<key, source>> \in reaches

OwnRoutes(c) ==
  (IF Reachable(c.key, c.source) THEN <<"selected">> ELSE <<>>) \o <<"source">>

(* Mutant of RoutesWith: the source's declaration before the engine.       *)
RoutesSourceFirst(c, fallback) ==
  <<"source">>
  \o (IF Reachable(c.key, c.source) THEN <<"selected">> ELSE <<>>)
  \o (IF fallback /\ Reachable(DefaultEngine, c.source) THEN <<"default">> ELSE <<>>)

RoutesWith(c, fallback) ==
  OwnRoutes(c)
  \o (IF fallback /\ Reachable(DefaultEngine, c.source) THEN <<"default">> ELSE <<>>)

(* The source is looked up and the list of routes is made.  That makes the *)
(* default engine, if another one was selected: an import that fails there *)
(* fails the call, before any route was tried.                             *)
FindRoutes ==
  /\ call.step = "routes"
  /\ IF registered[call.source] = Nothing
     THEN Raise("source not registered") /\ UNCHANGED registryVars
     ELSE LET fallback == call.key # DefaultEngine /\ has_engine(DefaultEngine)
              ready(routes) ==
                call' = [call EXCEPT !.step = "schema", !.routes = routes]
          IN  IF ~ fallback THEN ready(RoutesWith(call, FALSE)) /\ UNCHANGED registryVars
              ELSE IF registered[DefaultEngine] = Nothing /\ DefaultEngine \notin installed
              THEN Raise("dependency missing") /\ UNCHANGED registryVars
              ELSE \E e \in Engines : Engine(DefaultEngine, e) /\ ready(RoutesWith(call, TRUE))
  /\ UNCHANGED <<installed, reaches>>

Answers == call' = [call EXCEPT !.step = "plan", !.route = Head(call.routes)]

Fails ==
  /\ Tail(call.routes) # <<>>
  /\ call' = [call EXCEPT !.routes = Tail(@), !.tried = Append(@, Head(call.routes))]

(* After the last route the first error is raised.                         *)
LastFails ==
  /\ Tail(call.routes) = <<>>
  /\ LET failed == Append(call.tried, Head(call.routes))
     IN  call' = [call EXCEPT !.step = "done", !.outcome = "schema unavailable",
                              !.tried = failed, !.route = Head(failed)]

TryRoute ==
  /\ call.step = "schema"
  /\ Answers \/ Fails \/ LastFails
  /\ UNCHANGED <<registryVars, installed, reaches>>

-----------------------------------------------------------------------------
(* Binding, planning, and what execute() and compile() do with the plan.   *)
(* An explained plan ends the call whether or not it is executable.        *)
Plan ==
  /\ call.step = "plan"
  /\ \E outcome \in {"binding", "answered",
                     IF Reachable(call.key, call.source) THEN "not executable"
                     ELSE "staging required"} :
       /\ call.kind = "explain" => outcome \in {"binding", "answered"}
       /\ outcome = "answered" => call.kind = "explain" \/ Reachable(call.key, call.source)
       /\ Finish(outcome)
  /\ UNCHANGED <<registryVars, installed, reaches>>

(* The application between its calls.  (The engines a factory can make are *)
(* a bound: close() is not called once they have run out.)                 *)
Change ==
  /\ call.step \in {"idle", "done"}
  /\ \A key \in Factories : Fresh(key) # {}
  /\ RegistryNext
  /\ UNCHANGED <<call, installed, reaches>>

Next ==
  \/ \E kind \in Kinds, source \in SourceKeys, engine \in EngineKeys : Begin(kind, source, engine)
  \/ SelectEngine
  \/ FindRoutes
  \/ TryRoute
  \/ Plan
  \/ Change

Spec == Init /\ [][Next]_serviceVars

-----------------------------------------------------------------------------
TypeOK ==
  /\ RegistryTypeOK
  /\ installed \subseteq Factories
  /\ reaches \subseteq EngineKeys \X SourceKeys
  /\ call.step \in {"idle", "engine", "routes", "schema", "plan", "done"}
  /\ call.step \in {"schema", "plan"} => registered[call.key] = call.engine
  /\ call.outcome \in Refusals \cup {"answered", Nothing}

(* The documented order of schema discovery: the selected engine when it   *)
(* can reach the source, the source's own declaration, then the default    *)
(* engine.  A route that answers was preceded by the failure of all before *)
(* it; when all fail, the error names the selected engine if it has one.   *)
Preferred(c) ==
  [route \in {"selected", "source", "default"} |->
    CASE route = "selected" -> {}
      [] route = "source" -> {r \in {"selected"} : Reachable(c.key, c.source)}
      [] OTHER -> {"source"} \cup {r \in {"selected"} : Reachable(c.key, c.source)}]

DiscoveryInOrder ==
  call.step \in {"plan", "done"} /\ call.route # Nothing =>
    LET failed == {call.tried[i] : i \in DOMAIN call.tried}
    IN  IF call.step = "done" /\ call.outcome = "schema unavailable"
        THEN Preferred(call)[call.route] = {} /\ call.route \in failed
        ELSE Preferred(call)[call.route] \subseteq failed

=============================================================================
