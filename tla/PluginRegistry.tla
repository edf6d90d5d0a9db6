--------------------------- MODULE PluginRegistry ---------------------------
(***************************************************************************)
(* How filter plugins come to be called (vcon/filter_plugins/__init__.py,  *)
(* class Vcon) and processors to be served (processor/__init__.py,         *)
(* vcon_api.py), in one process of the server or of another program.       *)
(*                                                                         *)
(* A filter plugin is registered under a name, imported when it is first   *)
(* used, and then kept.  Vcon() gives the class a method for every name    *)
(* registered, and for every type that has a default.  A processor is      *)
(* imported when it is registered.  None of this awaits, so a call is one  *)
(* action; what a filter does after that is the subject of VconFilters.    *)
(*                                                                         *)
(* What a plugin's constructor does is up to the plugin.  Packages may be  *)
(* installed while the process runs.                                       *)
(***************************************************************************)
EXTENDS Naturals, Sequences, Functions, FiniteSets

CONSTANTS Name,             \* names of plugins, types and attributes
          Type,             \* those that are used as types
          DataName,         \* the names attribute_exists knows of which class
                            \* Vcon has no value: dialog, parties, cli, ...
          MethodName,       \* names of its methods: sign, verify, ...
          Whisper,          \* the plugin the built in processor is bound to
          Module,           \* modules that implement processors
          PluginModule,     \* those that implement plugins
          Package,          \* those of them that can be installed
          Processor,        \* names of processors
          WhisperBase,      \* the built in one
          MaxRegistrations  \* bound: how many plugins are registered

ASSUME NamesAssumption == /\ PluginModule \subseteq Module
                          /\ Package \subseteq Module
                          /\ Type \subseteq Name
                          /\ DataName \subseteq Name
                          /\ MethodName \subseteq Name
                          /\ Whisper \in Name \ (DataName \cup MethodName)
                          /\ WhisperBase \in Processor

VARIABLES registrations,  \* the FilterPluginRegistration objects made so far
          registry,       \* _registry: the registration of a name, 0 for none
          names,          \* its keys in the order of a dict
          defaults,       \* _defaults: the name a type stands for
          types,          \* its keys in the order of a dict
          methods,        \* attributes added to class Vcon
          installed,      \* modules that can be imported, with what they need
          constructed,    \* history: calls of the constructor, by registration
          processors,     \* VCON_PROCESSOR_REGISTRY
          processorNames, \* its keys in the order of a dict
          endpoints,      \* processors that have an entry point, in that order
          reply           \* the registration and the answer of the last call

pluginVars == <<registrations, registry, names, defaults, types, constructed>>
serverVars == <<processors, processorNames, endpoints>>
registryVars == <<pluginVars, methods, installed, serverVars, reply>>

NoName == "no name"

\* What the constructor of a class may come to: an instance, or an exception.
\* getattr of a class that is missing raises AttributeError as well.
Outcome == {"made", "AttributeError", "ModuleNotFoundError", "Exception"}

RegistryInit ==
    /\ registrations = <<>>
    /\ registry = [n \in Name |-> 0]
    /\ names = <<>>
    /\ defaults = [type \in Type |-> NoName]
    /\ types = <<>>
    /\ methods = {}
    /\ installed \in SUBSET Package
    /\ constructed = <<>>
    /\ processors = [p \in Processor |-> "none"]
    /\ processorNames = <<>>
    /\ endpoints = <<>>
    /\ reply = [id |-> 0, answer |-> "ok"]

Answer(id, answer) == reply' = [id |-> id, answer |-> answer]

\* A key of a dict keeps its place when its value is replaced.
WithKey(keys, n) == IF n \in Range(keys) THEN keys ELSE Append(keys, n)

-----------------------------------------------------------------------------
\* Registering and importing plugins

NewRegistration(module) ==
    [module |-> module, attempted |-> FALSE, notFound |-> FALSE,
     classNotFound |-> FALSE, plugin |-> FALSE]

Register(n, module, replace) ==
    \/ /\ registry[n] # 0
       /\ ~replace
       /\ Answer(0, "FilterPluginAlreadyRegistered")
       /\ UNCHANGED <<pluginVars, methods, installed, serverVars>>
    \/ /\ registry[n] = 0 \/ replace
       /\ Len(registrations) < MaxRegistrations
       /\ registrations' = Append(registrations, NewRegistration(module))
       /\ constructed' = Append(constructed, 0)
       /\ registry' = [registry EXCEPT ![n] = Len(registrations) + 1]
       /\ names' = WithKey(names, n)
       /\ Answer(Len(registrations) + 1, "ok")
       /\ UNCHANGED <<defaults, types, methods, installed, serverVars>>

SetTypeDefaultName(type, n) ==
    /\ defaults' = [defaults EXCEPT ![type] = n]
    /\ types' = WithKey(types, type)
    /\ Answer(0, "ok")
    /\ UNCHANGED <<registrations, registry, names, methods, installed,
                   constructed, serverVars>>

\* The registration FilterPluginRegistry.get finds, 0 if it raises
\* FilterPluginNotRegistered.  A plugin goes before a type of the same name.
Found(n, checkDefault) ==
    IF registry[n] # 0 \/ ~checkDefault \/ n \notin Range(types)
    THEN registry[n]
    ELSE registry[defaults[n]]

Importable(r) == ~r.attempted /\ r.module \in installed

\* The attempt is noted before the import.
FaultyImportedOnce(r, outcome) ==
    IF ~Importable(r)
    THEN [r EXCEPT !.attempted = TRUE,
                   !.notFound = r.notFound \/ ~r.attempted]
    ELSE [r EXCEPT !.attempted = TRUE,
                   !.notFound = outcome = "ModuleNotFoundError",
                   !.classNotFound = outcome = "AttributeError",
                   !.plugin = outcome = "made"]

\* A module that is missing does not count as an attempt.  One that the
\* constructor of the plugin misses does.
Imported(r, outcome) ==
    IF ~Importable(r)
    THEN [r EXCEPT !.notFound = r.notFound \/ ~r.attempted]
    ELSE [r EXCEPT !.attempted = TRUE,
                   !.notFound = outcome = "ModuleNotFoundError",
                   !.classNotFound = outcome = "AttributeError",
                   !.plugin = outcome = "made"]

\* Every attempt constructs a plugin.
FaultyImportPlugin(id, outcome) ==
    /\ registrations' =
           [registrations EXCEPT ![id] = Imported([@ EXCEPT !.attempted = FALSE],
                                                  outcome)]
    /\ constructed' =
           IF registrations[id].module \in installed
           THEN [constructed EXCEPT ![id] = @ + 1] ELSE constructed
    /\ UNCHANGED <<registry, names, defaults, types>>

ImportPlugin(id, outcome) ==
    /\ registrations' = [registrations EXCEPT ![id] = Imported(@, outcome)]
    /\ constructed' =
           IF Importable(registrations[id])
           THEN [constructed EXCEPT ![id] = @ + 1] ELSE constructed
    /\ UNCHANGED <<registry, names, defaults, types>>

\* What a call of the registration answers once import_plugin has returned, or
\* raised: options_type and filter look at the same flags in the same order.
CallAnswer(r) ==
    CASE r.notFound -> "FilterPluginModuleNotFound"
      [] ~r.notFound /\ r.classNotFound -> "FilterPluginClassNotFound"
      [] ~r.notFound /\ ~r.classNotFound /\ ~r.plugin -> "Exception"
      [] OTHER -> "ok"

\* get(n, check_type_default, load_plugin); without loading it only looks.
Get(n, checkDefault, load, outcome) ==
    LET id == Found(n, checkDefault)
    IN \/ /\ id = 0
          /\ Answer(0, "FilterPluginNotRegistered")
          /\ UNCHANGED pluginVars
       \/ /\ id # 0
          /\ ~load
          /\ Answer(id, "ok")
          /\ UNCHANGED pluginVars
       \/ /\ id # 0
          /\ load
          /\ ImportPlugin(id, outcome)
          /\ Answer(id, IF Importable(registrations[id])
                            /\ outcome = "Exception" THEN "Exception" ELSE "ok")

\* Vcon.filter of an object that may be modified, and options_type.  typed:
\* the options are a dict, or of the class that filter asks for.
Filter(n, typed, outcome) ==
    LET id == Found(n, TRUE)
        answer == CallAnswer(Imported(registrations[id], outcome))
    IN \/ /\ id = 0
          /\ Answer(0, "FilterPluginNotRegistered")
          /\ UNCHANGED pluginVars
       \/ /\ id # 0
          /\ ImportPlugin(id, outcome)
          /\ Answer(id, IF answer = "ok" /\ ~typed
                        THEN "FilterPluginNotImplemented" ELSE answer)

-----------------------------------------------------------------------------
\* Methods of class Vcon

AttributeExists(n) == n \in DataName \cup MethodName \cup methods

\* Vcon.__init__ goes through the names and then through the types.  At a name
\* of an attribute the class has no value for, getattr raises, after the
\* methods before it were added.
Ahead == names \o types

Blocks(n) == n \in DataName /\ AttributeExists(n)

MethodsAfterInit ==
    methods \cup {n \in Range(Ahead) :
                     /\ ~AttributeExists(n)
                     /\ \E i \in DOMAIN Ahead :
                           /\ Ahead[i] = n
                           /\ \A k \in 1 .. i : ~Blocks(Ahead[k])}

InitRaises == \E n \in Range(Ahead) : Blocks(n)

NewVcon ==
    /\ methods' = MethodsAfterInit
    /\ Answer(0, IF InitRaises THEN "AttributeError" ELSE "ok")
    /\ UNCHANGED <<pluginVars, installed, serverVars>>

-----------------------------------------------------------------------------
\* Processors

Enter(p, entry) == /\ processors' = [processors EXCEPT ![p] = entry]
                   /\ processorNames' = WithKey(processorNames, p)

\* A processor whose module is missing is registered, without an instance and
\* in place of the one of that name.  One whose class is not right is not.
RegisterProcessor(p, module, outcome) ==
    /\ \/ /\ module \notin installed
          /\ Enter(p, "empty")
          /\ Answer(0, "ok")
       \/ /\ module \in installed
          /\ outcome = "made"
          /\ Enter(p, "instance")
          /\ Answer(0, "ok")
       \/ /\ module \in installed
          /\ outcome # "made"
          /\ Answer(0, outcome)
          /\ UNCHANGED <<processors, processorNames>>
    /\ UNCHANGED <<pluginVars, methods, installed, endpoints>>

\* Importing processor/whisper_base.py imports builtin/whisper.py, whose
\* classes derive from those of the plugin: without a plugin, plugin() is None.
ImportWhisperBase(outcome) ==
    /\ registry[Whisper] # 0
    /\ LET id == registry[Whisper]
           r == Imported(registrations[id], outcome)
       IN /\ ImportPlugin(id, outcome)
          /\ \/ /\ ~r.plugin
                /\ Answer(id, IF Importable(registrations[id])
                                   /\ outcome = "Exception"
                              THEN "Exception" ELSE "AttributeError")
                /\ UNCHANGED <<processors, processorNames>>
             \/ /\ r.plugin
                /\ Answer(id, "ok")
                /\ Enter(WhisperBase, "instance")
    /\ UNCHANGED <<methods, installed, endpoints>>

\* get_processor_names()
LoadedNames == SelectSeq(processorNames, LAMBDA p : processors[p] = "instance")

\* vcon_api.init, once when the server starts.
InitVconApi ==
    /\ endpoints = <<>>
    /\ endpoints' = LoadedNames
    /\ Answer(0, "ok")
    /\ UNCHANGED <<pluginVars, methods, installed, processors, processorNames>>

\* get_processor_instance
InstanceError(p) ==
    CASE processors[p] = "none" -> "VconProcessorNotRegistered"
      [] processors[p] = "empty" -> "VconProcessorNotInstantiated"
      [] OTHER -> "ok"

\* The entry point of any processor looks up the name the loop that made the
\* entry points ended with.  The vCon is loaded from storage, which makes a
\* Vcon, and whisper_base runs the filter.
RunProcessor(p, outcome) ==
    /\ p \in Range(endpoints)
    /\ LET last == endpoints[Len(endpoints)]
       IN \/ /\ InstanceError(last) # "ok"
             /\ Answer(0, InstanceError(last))
             /\ UNCHANGED <<pluginVars, methods>>
          \/ /\ InstanceError(last) = "ok"
             /\ methods' = MethodsAfterInit
             /\ \/ /\ InitRaises
                   /\ Answer(0, "AttributeError")
                   /\ UNCHANGED pluginVars
                \/ /\ ~InitRaises
                   /\ last # WhisperBase
                   /\ Answer(0, "ok")
                   /\ UNCHANGED pluginVars
                \/ /\ ~InitRaises
                   /\ last = WhisperBase
                   /\ Filter(Whisper, TRUE, outcome)
    /\ UNCHANGED <<installed, serverVars>>

Install(module) ==
    /\ module \notin installed
    /\ installed' = installed \cup {module}
    /\ Answer(0, "ok")
    /\ UNCHANGED <<pluginVars, methods, serverVars>>

\* What the constructor comes to, in a call that gets to it.
Outcomes(id) == IF id # 0 /\ Importable(registrations[id])
                THEN Outcome ELSE {"not called"}

\* A call of the registry, or of the method Vcon has by that name.
UsePlugin(n) ==
    /\ \E outcome \in Outcomes(Found(n, TRUE)) :
           \/ \E check, load \in BOOLEAN : Get(n, check, load, outcome)
           \/ \E typed \in BOOLEAN : Filter(n, typed, outcome)
    /\ UNCHANGED <<methods, installed, serverVars>>

RegistryNext ==
    \/ \E n \in Name, m \in PluginModule, replace \in BOOLEAN :
           Register(n, m, replace)
    \/ \E type \in Type, n \in Name : SetTypeDefaultName(type, n)
    \/ \E n \in Name : UsePlugin(n)
    \/ NewVcon
    \/ \E p \in Processor, m \in Module, outcome \in Outcome :
           RegisterProcessor(p, m, outcome)
    \/ \E outcome \in Outcomes(registry[Whisper]) : ImportWhisperBase(outcome)
    \/ InitVconApi
    \/ \E p \in Processor, outcome \in Outcomes(Found(Whisper, TRUE)) :
           RunProcessor(p, outcome)
    \/ \E m \in Package : Install(m)

RegistrySpec == RegistryInit /\ [][RegistryNext]_registryVars

-----------------------------------------------------------------------------

\* "Initialization and teardown are only performed once": whatever order the
\* calls that import lazily come in, retries included, the constructor of a
\* registered plugin runs at most once.
ConstructedOnce == \A id \in DOMAIN constructed : constructed[id] <= 1

\* A plugin that was missing is found once it is installed: no call answers
\* that the module is missing when it can be imported, unless the constructor
\* of the plugin itself missed one.
MissingIsNews ==
    [][reply'.answer = "FilterPluginModuleNotFound" =>
           LET r == registrations'[reply'.id]
           IN \/ r.module \notin installed'
              \/ constructed'[reply'.id] > 0 /\ ~r.plugin
      ]_registryVars

\* "It stays loaded until the system exits": no call changes a registration
\* that has its plugin, and none it answers fails for want of one.  A plugin or
\* a processor keeps its place when the registration of another one fails.
PluginStays ==
    [][/\ \A id \in DOMAIN registrations : registrations[id].plugin =>
              /\ registrations'[id] = registrations[id]
              /\ reply'.id = id => reply'.answer \in
                                      {"ok", "FilterPluginNotImplemented"}
       /\ reply'.answer # "ok" =>
              UNCHANGED <<registry, names, processors, processorNames>>
      ]_registryVars
=============================================================================
