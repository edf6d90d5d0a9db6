------------------------ MODULE PluginRegistry_proofs ------------------------
(***************************************************************************)
(* Proofs about PluginRegistry for every set of names, types, modules and  *)
(* processors, and every number of registrations.                          *)
(***************************************************************************)
EXTENDS PluginRegistry, SequenceTheorems, TLAPS

Registration == [module : PluginModule, attempted : BOOLEAN,
                 notFound : BOOLEAN, classNotFound : BOOLEAN, plugin : BOOLEAN]

\* What the flags of a registration say of its constructor: it has been called
\* once an import was attempted and never before, and a plugin is one that it
\* made, with no failure noted before or after.
FlagsAgree(r, calls) ==
    /\ calls = IF r.attempted THEN 1 ELSE 0
    /\ r.plugin => r.attempted /\ ~r.notFound /\ ~r.classNotFound

\* Registrations are only added, so that a name keeps one to stand for.
RegTypes ==
    /\ registrations \in Seq(Registration)
    /\ constructed \in Seq(Nat)
    /\ Len(constructed) = Len(registrations)
    /\ registry \in [Name -> 0 .. Len(registrations)]
    /\ types \in Seq(Type)
    /\ defaults \in [Type -> Name \cup {NoName}]
    /\ \A type \in Range(types) : defaults[type] \in Name

RegInv ==
    /\ RegTypes
    /\ \A id \in 1 .. Len(registrations) :
           FlagsAgree(registrations[id], constructed[id])

-----------------------------------------------------------------------------
\* Importing plugins

\* What an import, or passing one over, makes of a registration.
LEMMA ImportedFacts ==
  ASSUME NEW r \in Registration, NEW calls \in Nat, NEW outcome,
         FlagsAgree(r, calls)
  PROVE  /\ Imported(r, outcome) \in Registration
         /\ FlagsAgree(Imported(r, outcome),
                       IF Importable(r) THEN calls + 1 ELSE calls)
         /\ Imported(r, outcome).module = r.module
         /\ r.plugin => ~Importable(r) /\ Imported(r, outcome) = r
         /\ Imported(r, outcome).notFound =>
               \/ r.module \notin installed
               \/ Imported(r, outcome).attempted /\ ~Imported(r, outcome).plugin
<1>1. CASE Importable(r)
  <2> DEFINE missing == outcome = "ModuleNotFoundError"
             unknown == outcome = "AttributeError"
             made == outcome = "made"
  <2>1. /\ missing \in BOOLEAN /\ unknown \in BOOLEAN /\ made \in BOOLEAN
        /\ made => ~missing /\ ~unknown
    OBVIOUS
  <2>2. Imported(r, outcome) =
          [r EXCEPT !.attempted = TRUE, !.notFound = missing,
                    !.classNotFound = unknown, !.plugin = made]
    BY <1>1 DEF Imported
  <2> HIDE DEF missing, unknown, made
  <2>3. ~r.attempted /\ calls = 0 /\ ~r.plugin
    BY <1>1 DEF Importable, FlagsAgree
  <2>4. /\ Imported(r, outcome) \in Registration
        /\ Imported(r, outcome).module = r.module
        /\ Imported(r, outcome).attempted = TRUE
        /\ Imported(r, outcome).notFound = missing
        /\ Imported(r, outcome).classNotFound = unknown
        /\ Imported(r, outcome).plugin = made
    BY <2>1, <2>2 DEF Registration
  <2>5. QED
    BY <1>1, <2>1, <2>3, <2>4 DEF FlagsAgree
<1>2. CASE ~Importable(r)
  <2>1. CASE r.attempted
    BY <1>2, <2>1 DEF Imported, Importable, Registration, FlagsAgree
  <2>2. CASE ~r.attempted
    BY <1>2, <2>2 DEF Imported, Importable, Registration, FlagsAgree
  <2>3. QED
    BY <2>1, <2>2
<1>3. QED
  BY <1>1, <1>2

\* No registration that has its plugin is changed.
PluginsKept ==
    \A id \in 1 .. Len(registrations) :
        registrations[id].plugin => registrations'[id] = registrations[id]

LEMMA RegistrationFacts ==
  ASSUME RegInv, NEW id \in 1 .. Len(registrations)
  PROVE  /\ registrations[id] \in Registration
         /\ constructed[id] \in Nat
         /\ FlagsAgree(registrations[id], constructed[id])
BY DEF RegInv, RegTypes

LEMMA ImportPluginFacts ==
  ASSUME RegInv, NEW id \in 1 .. Len(registrations), NEW outcome,
         ImportPlugin(id, outcome)
  PROVE  /\ RegInv'
         /\ PluginsKept
         /\ registrations'[id] = Imported(registrations[id], outcome)
         /\ id \in 1 .. Len(registrations)'
<1> DEFINE r == registrations[id]
           calls == IF Importable(r) THEN constructed[id] + 1 ELSE constructed[id]
<1>1. /\ r \in Registration /\ constructed[id] \in Nat
      /\ FlagsAgree(r, constructed[id])
  BY RegistrationFacts
<1>2. /\ Imported(r, outcome) \in Registration
      /\ FlagsAgree(Imported(r, outcome), calls)
      /\ r.plugin => Imported(r, outcome) = r
  BY <1>1, ImportedFacts
<1>3. calls \in Nat
  BY <1>1
<1>4. /\ registrations \in Seq(Registration) /\ constructed \in Seq(Nat)
      /\ Len(constructed) = Len(registrations)
  BY DEF RegInv, RegTypes
<1>5. /\ registrations' = [registrations EXCEPT ![id] = Imported(r, outcome)]
      /\ constructed' = [constructed EXCEPT ![id] = calls]
  <2>1. registrations' = [registrations EXCEPT ![id] = Imported(r, outcome)]
    BY DEF ImportPlugin
  <2>2. CASE Importable(r)
    BY <2>2 DEF ImportPlugin
  <2>3. CASE ~Importable(r)
    <3>1. constructed' = constructed
      BY <2>3 DEF ImportPlugin
    <3>2. [constructed EXCEPT ![id] = constructed[id]] = constructed
      BY <1>4
    <3>3. QED
      BY <2>1, <2>3, <3>1, <3>2
  <2>4. QED
    BY <2>1, <2>2, <2>3
<1> HIDE DEF r, calls
<1>6. /\ registrations' \in Seq(Registration) /\ constructed' \in Seq(Nat)
      /\ Len(registrations)' = Len(registrations)
      /\ Len(constructed)' = Len(constructed)
  <2>1. id \in 1 .. Len(constructed)
    BY <1>4
  <2>2. /\ registrations' \in Seq(Registration)
        /\ Len(registrations') = Len(registrations)
    <3> DEFINE e == Imported(r, outcome)
    <3>1. e \in Registration
      BY <1>2
    <3>2. registrations' = [registrations EXCEPT ![id] = e]
      BY <1>5
    <3> HIDE DEF e
    <3>3. QED
      BY ONLY <1>4, <3>1, <3>2, ExceptSeq, id \in 1 .. Len(registrations)
  <2>3. constructed' \in Seq(Nat) /\ Len(constructed') = Len(constructed)
    BY ONLY <1>3, <1>4, <1>5, <2>1, ExceptSeq
  <2>4. QED
    BY <2>2, <2>3
<1>7. \A i \in 1 .. Len(registrations) :
        /\ registrations'[i] = IF i = id THEN Imported(r, outcome)
                               ELSE registrations[i]
        /\ constructed'[i] = IF i = id THEN calls ELSE constructed[i]
  BY <1>4, <1>5
<1>8. RegTypes'
  BY <1>4, <1>6 DEF RegInv, RegTypes, ImportPlugin
<1>9. \A i \in 1 .. Len(registrations)' :
        FlagsAgree(registrations[i], constructed[i])'
  <2> SUFFICES ASSUME NEW i \in 1 .. Len(registrations)
               PROVE  FlagsAgree(registrations'[i], constructed'[i])
    BY <1>6 DEF FlagsAgree
  <2>1. FlagsAgree(registrations[i], constructed[i])
    BY RegistrationFacts
  <2>2. QED
    BY <1>2, <1>7, <2>1
<1>10. PluginsKept
  BY <1>2, <1>7 DEF PluginsKept, r
<1>11. QED
  BY <1>6, <1>7, <1>8, <1>9, <1>10 DEF RegInv, r

-----------------------------------------------------------------------------
\* What a step does, of which the action properties speak.

\* A call that answers that the module is missing is right about it.
MissingStep ==
    reply'.answer = "FilterPluginModuleNotFound" =>
        LET r == registrations'[reply'.id]
        IN \/ r.module \notin installed'
           \/ constructed'[reply'.id] > 0 /\ ~r.plugin

\* No call of a registration that has its plugin fails for want of one.
PluginAnswers ==
    \A id \in 1 .. Len(registrations) :
        registrations[id].plugin =>
            (reply'.id = id => reply'.answer \in {"ok", "FilterPluginNotImplemented"})

\* A call that fails leaves the plugins and the processors in their places.
PlacesKept ==
    reply'.answer # "ok" =>
        UNCHANGED <<registry, names, processors, processorNames>>

GoodStep == RegInv' /\ MissingStep /\ PluginsKept /\ PluginAnswers /\ PlacesKept

LEMMA SamePlugins ==
  ASSUME RegInv, UNCHANGED pluginVars
  PROVE  RegInv' /\ PluginsKept
<1>1. UNCHANGED <<registrations, registry, names, defaults, types, constructed>>
  BY DEF pluginVars
<1>2. PluginsKept
  BY <1>1 DEF PluginsKept
<1>3. RegInv'
  BY <1>1 DEF RegInv, RegTypes, FlagsAgree
<1>4. QED
  BY <1>2, <1>3

\* A call that leaves the plugins alone, and does not answer for one.
LEMMA OtherCall ==
  ASSUME RegInv, UNCHANGED pluginVars,
         reply'.id = 0, reply'.answer # "FilterPluginModuleNotFound",
         PlacesKept
  PROVE  GoodStep
<1>1. RegInv' /\ PluginsKept
  BY SamePlugins
<1>2. MissingStep /\ PluginAnswers
  BY DEF MissingStep, PluginAnswers
<1>3. QED
  BY <1>1, <1>2 DEF GoodStep

\* A call that imports a plugin may leave the module missing, and finds the
\* plugin of a registration that has it.
LEMMA ImportingCall ==
  ASSUME RegInv, NEW id \in 1 .. Len(registrations), NEW outcome,
         ImportPlugin(id, outcome), UNCHANGED installed,
         reply'.id = id,
         reply'.answer = "FilterPluginModuleNotFound" =>
             Imported(registrations[id], outcome).notFound,
         registrations[id].plugin =>
             reply'.answer \in {"ok", "FilterPluginNotImplemented"},
         PlacesKept
  PROVE  GoodStep
<1> DEFINE r == registrations[id]
<1>1. /\ RegInv' /\ PluginsKept
      /\ registrations'[id] = Imported(r, outcome)
      /\ id \in 1 .. Len(registrations)'
  BY ImportPluginFacts
<1>2. PluginAnswers
  BY DEF PluginAnswers
<1>3. MissingStep
  <2>1. FlagsAgree(registrations'[id], constructed'[id])
    BY <1>1 DEF RegInv, FlagsAgree
  <2>2. /\ r \in Registration /\ constructed[id] \in Nat
        /\ FlagsAgree(r, constructed[id])
    BY RegistrationFacts
  <2>3. /\ Imported(r, outcome).module = r.module
        /\ Imported(r, outcome).notFound =>
              \/ r.module \notin installed
              \/ Imported(r, outcome).attempted /\ ~Imported(r, outcome).plugin
    BY <2>2, ImportedFacts
  <2>4. QED
    BY <1>1, <2>1, <2>3 DEF MissingStep, FlagsAgree
<1>4. QED
  BY <1>1, <1>2, <1>3 DEF GoodStep

-----------------------------------------------------------------------------
\* The actions

\* A name that is found stands for a registration.
LEMMA FoundFacts ==
  ASSUME RegInv, NEW n \in Name, NEW check \in BOOLEAN
  PROVE  /\ Found(n, check) \in 0 .. Len(registrations)
         /\ Found(n, check) # 0 => Found(n, check) \in 1 .. Len(registrations)
<1>1. registry \in [Name -> 0 .. Len(registrations)] /\ Len(registrations) \in Nat
  BY DEF RegInv, RegTypes
<1>2. n \in Range(types) => defaults[n] \in Name
  BY DEF RegInv, RegTypes
<1>3. Found(n, check) \in 0 .. Len(registrations)
  BY <1>1, <1>2 DEF Found
<1>4. QED
  BY <1>1, <1>3

LEMMA RegisterStep ==
  ASSUME RegInv, NEW n \in Name, NEW module \in PluginModule,
         NEW replace \in BOOLEAN, Register(n, module, replace)
  PROVE  GoodStep
<1>1. CASE registry[n] # 0 /\ ~replace
  BY <1>1, OtherCall DEF Register, Answer, PlacesKept, serverVars, pluginVars
<1>2. CASE registry[n] = 0 \/ replace
  <2> DEFINE new == NewRegistration(module)
  <2>1. /\ registrations' = Append(registrations, new)
        /\ constructed' = Append(constructed, 0)
        /\ registry' = [registry EXCEPT ![n] = Len(registrations) + 1]
        /\ reply' = [id |-> Len(registrations) + 1, answer |-> "ok"]
        /\ UNCHANGED <<defaults, types>>
    BY <1>2 DEF Register, Answer
  <2>2. /\ registrations \in Seq(Registration) /\ constructed \in Seq(Nat)
        /\ Len(constructed) = Len(registrations)
        /\ registry \in [Name -> 0 .. Len(registrations)]
    BY DEF RegInv, RegTypes
  <2>3. new \in Registration /\ FlagsAgree(new, 0) /\ ~new.plugin
    BY DEF NewRegistration, Registration, FlagsAgree
  <2> HIDE DEF new
  <2>4. /\ registrations' \in Seq(Registration)
        /\ Len(registrations') = Len(registrations) + 1
        /\ \A i \in 1 .. Len(registrations) : registrations'[i] = registrations[i]
        /\ registrations'[Len(registrations) + 1] = new
    BY ONLY <2>1, <2>2, <2>3, AppendProperties
  <2>5. /\ constructed' \in Seq(Nat)
        /\ Len(constructed') = Len(constructed) + 1
        /\ \A i \in 1 .. Len(constructed) : constructed'[i] = constructed[i]
        /\ constructed'[Len(constructed) + 1] = 0
    BY ONLY <2>1, <2>2, AppendProperties
  <2>6. Len(registrations) \in Nat
    BY <2>2
  <2>7. registry' \in [Name -> 0 .. Len(registrations')]
    BY <2>1, <2>2, <2>4, <2>6
  <2>8. RegTypes'
    BY <2>1, <2>2, <2>4, <2>5, <2>7 DEF RegInv, RegTypes
  <2>9. \A i \in 1 .. Len(registrations') :
          FlagsAgree(registrations'[i], constructed'[i])
    <3> SUFFICES ASSUME NEW i \in 1 .. Len(registrations')
                 PROVE  FlagsAgree(registrations'[i], constructed'[i])
      OBVIOUS
    <3>1. CASE i = Len(registrations) + 1
      BY <2>2, <2>3, <2>4, <2>5, <3>1
    <3>2. CASE i \in 1 .. Len(registrations)
      BY <2>2, <2>4, <2>5, <3>2, RegistrationFacts
    <3>3. QED
      BY <2>4, <2>6, <3>1, <3>2
  <2>10. RegInv'
    BY <2>8, <2>9 DEF RegInv, FlagsAgree
  <2>11. PluginsKept
    BY <2>4 DEF PluginsKept
  <2>12. MissingStep /\ PluginAnswers /\ PlacesKept
    BY <2>1, <2>6 DEF MissingStep, PluginAnswers, PlacesKept
  <2>13. QED
    BY <2>10, <2>11, <2>12 DEF GoodStep
<1>3. QED
  BY <1>1, <1>2 DEF Register

\* A type only gets a name of its own, one that is in the registry's domain.
LEMMA SetTypeDefaultNameStep ==
  ASSUME RegInv, NEW type \in Type, NEW n \in Name, SetTypeDefaultName(type, n)
  PROVE  GoodStep
<1>1. /\ defaults' = [defaults EXCEPT ![type] = n]
      /\ types' = WithKey(types, type)
      /\ reply' = [id |-> 0, answer |-> "ok"]
      /\ UNCHANGED <<registrations, registry, constructed>>
  BY DEF SetTypeDefaultName, Answer
<1>2. /\ types \in Seq(Type)
      /\ defaults \in [Type -> Name \cup {NoName}]
      /\ \A t \in Range(types) : defaults[t] \in Name
  BY DEF RegInv, RegTypes
<1>3. types' \in Seq(Type) /\ \A t \in Range(types') : t = type \/ t \in Range(types)
  <2>1. CASE type \in Range(types)
    BY <1>1, <1>2, <2>1 DEF WithKey
  <2>2. CASE type \notin Range(types)
    <3>1. types' = Append(types, type)
      BY <1>1, <2>2 DEF WithKey
    <3>2. /\ types' \in Seq(Type)
          /\ Len(types') = Len(types) + 1
          /\ \A i \in 1 .. Len(types) : types'[i] = types[i]
          /\ types'[Len(types) + 1] = type
      BY ONLY <1>2, <3>1, type \in Type, AppendProperties
    <3>3. DOMAIN types' = 1 .. Len(types) + 1 /\ DOMAIN types = 1 .. Len(types)
          /\ Len(types) \in Nat
      BY <1>2, <3>2
    <3>4. QED
      BY <3>2, <3>3 DEF Range
  <2>3. QED
    BY <2>1, <2>2
<1>4. \A t \in Range(types') : t \in Type
  BY <1>3 DEF Range
<1>5. /\ defaults' \in [Type -> Name \cup {NoName}]
      /\ \A t \in Range(types') : defaults'[t] \in Name
  BY <1>1, <1>2, <1>3, <1>4
<1>6. RegTypes'
  BY <1>1, <1>3, <1>5 DEF RegInv, RegTypes
<1>7. RegInv'
  BY <1>1, <1>6 DEF RegInv, FlagsAgree
<1>8. PluginsKept /\ MissingStep /\ PluginAnswers /\ PlacesKept
  BY <1>1 DEF PluginsKept, MissingStep, PluginAnswers, PlacesKept
<1>9. QED
  BY <1>7, <1>8 DEF GoodStep

\* A registration that has its plugin is not imported again, and answers.
LEMMA LoadedFacts ==
  ASSUME RegInv, NEW id \in 1 .. Len(registrations), NEW outcome,
         registrations[id].plugin
  PROVE  /\ ~Importable(registrations[id])
         /\ Imported(registrations[id], outcome).plugin
         /\ CallAnswer(Imported(registrations[id], outcome)) = "ok"
<1>1. /\ registrations[id] \in Registration /\ constructed[id] \in Nat
      /\ FlagsAgree(registrations[id], constructed[id])
  BY RegistrationFacts
<1>2. /\ ~Importable(registrations[id])
      /\ Imported(registrations[id], outcome) = registrations[id]
  BY <1>1, ImportedFacts
<1>3. QED
  BY <1>1, <1>2 DEF FlagsAgree, CallAnswer

LEMMA FilterStep ==
  ASSUME RegInv, NEW n \in Name, NEW typed, NEW outcome,
         Filter(n, typed, outcome),
         UNCHANGED <<installed, processors, processorNames>>
  PROVE  GoodStep
<1> DEFINE id == Found(n, TRUE)
           answer == CallAnswer(Imported(registrations[id], outcome))
<1>1. CASE id = 0
  <2>1. /\ UNCHANGED <<pluginVars, registry, names>>
        /\ reply' = [id |-> 0, answer |-> "FilterPluginNotRegistered"]
    BY <1>1 DEF Filter, Answer, pluginVars
  <2>2. QED
    BY <2>1, OtherCall DEF PlacesKept
<1>2. CASE id # 0
  <2>1. /\ ImportPlugin(id, outcome)
        /\ UNCHANGED <<registry, names>>
        /\ reply' = [id |-> id,
                     answer |-> IF answer = "ok" /\ ~typed
                                THEN "FilterPluginNotImplemented" ELSE answer]
    BY <1>2 DEF Filter, Answer, ImportPlugin
  <2>2. id \in 1 .. Len(registrations)
    BY <1>2, FoundFacts
  <2>3. answer = "FilterPluginModuleNotFound" =>
            Imported(registrations[id], outcome).notFound
    BY DEF CallAnswer
  <2>4. registrations[id].plugin => answer = "ok"
    BY <2>2, LoadedFacts
  <2> HIDE DEF id, answer
  <2>5. /\ reply'.id = id
        /\ reply'.answer = "FilterPluginModuleNotFound" =>
               answer = "FilterPluginModuleNotFound"
        /\ answer = "ok" => reply'.answer \in {"ok", "FilterPluginNotImplemented"}
    BY <2>1
  <2>6. PlacesKept
    BY <2>1 DEF PlacesKept
  <2>7. QED
    BY <2>1, <2>2, <2>3, <2>4, <2>5, <2>6, ImportingCall
<1>3. QED
  BY <1>1, <1>2

LEMMA GetStep ==
  ASSUME RegInv, NEW n \in Name, NEW check \in BOOLEAN, NEW load \in BOOLEAN,
         NEW outcome, Get(n, check, load, outcome),
         UNCHANGED <<installed, processors, processorNames>>
  PROVE  GoodStep
<1> DEFINE id == Found(n, check)
<1>1. CASE id = 0
  <2>1. /\ UNCHANGED <<pluginVars, registry, names>>
        /\ reply' = [id |-> 0, answer |-> "FilterPluginNotRegistered"]
    BY <1>1 DEF Get, Answer, pluginVars
  <2>2. QED
    BY <2>1, OtherCall DEF PlacesKept
<1>2. CASE id # 0 /\ ~load
  <2>1. /\ UNCHANGED <<pluginVars, registry, names>>
        /\ reply' = [id |-> id, answer |-> "ok"]
    BY <1>2 DEF Get, Answer, pluginVars
  <2>2. RegInv' /\ PluginsKept
    BY <2>1, SamePlugins
  <2>3. QED
    BY <2>1, <2>2 DEF GoodStep, MissingStep, PluginAnswers, PlacesKept
<1>3. CASE id # 0 /\ load
  <2>1. /\ ImportPlugin(id, outcome)
        /\ UNCHANGED <<registry, names>>
        /\ reply' = [id |-> id,
                     answer |-> IF Importable(registrations[id])
                                    /\ outcome = "Exception"
                                THEN "Exception" ELSE "ok"]
    BY <1>3 DEF Get, Answer, ImportPlugin
  <2>2. id \in 1 .. Len(registrations)
    BY <1>3, FoundFacts
  <2>3. registrations[id].plugin => ~Importable(registrations[id])
    BY <2>2, LoadedFacts
  <2> HIDE DEF id
  <2>4. /\ reply'.id = id
        /\ reply'.answer # "FilterPluginModuleNotFound"
        /\ registrations[id].plugin => reply'.answer = "ok"
    BY <2>1, <2>3
  <2>5. PlacesKept
    BY <2>1 DEF PlacesKept
  <2>6. QED
    BY <2>1, <2>2, <2>4, <2>5, ImportingCall
<1>4. QED
  BY <1>1, <1>2, <1>3

LEMMA UsePluginStep ==
  ASSUME RegInv, NEW n \in Name, UsePlugin(n)
  PROVE  GoodStep
<1>1. UNCHANGED <<installed, processors, processorNames>>
  BY DEF UsePlugin, serverVars
<1>2. PICK outcome \in Outcomes(Found(n, TRUE)) :
        \/ \E check, load \in BOOLEAN : Get(n, check, load, outcome)
        \/ \E typed \in BOOLEAN : Filter(n, typed, outcome)
  BY DEF UsePlugin
<1>3. CASE \E check, load \in BOOLEAN : Get(n, check, load, outcome)
  BY <1>1, <1>3, GetStep
<1>4. CASE \E typed \in BOOLEAN : Filter(n, typed, outcome)
  BY <1>1, <1>4, FilterStep
<1>5. QED
  BY <1>2, <1>3, <1>4

LEMMA NewVconStep == ASSUME RegInv, NewVcon PROVE GoodStep
<1>1. /\ UNCHANGED <<pluginVars, registry, names, processors, processorNames>>
      /\ reply' = [id |-> 0,
                   answer |-> IF InitRaises THEN "AttributeError" ELSE "ok"]
  BY DEF NewVcon, Answer, pluginVars, serverVars
<1>2. reply'.id = 0 /\ reply'.answer # "FilterPluginModuleNotFound" /\ PlacesKept
  BY <1>1 DEF PlacesKept
<1>3. QED
  BY <1>1, <1>2, OtherCall

LEMMA RegisterProcessorStep ==
  ASSUME RegInv, NEW p \in Processor, NEW module \in Module,
         NEW outcome \in Outcome, RegisterProcessor(p, module, outcome)
  PROVE  GoodStep
<1>1. UNCHANGED <<pluginVars, registry, names>>
  BY DEF RegisterProcessor, pluginVars
<1>2. \/ reply' = [id |-> 0, answer |-> "ok"]
      \/ /\ reply' = [id |-> 0, answer |-> outcome]
         /\ UNCHANGED <<processors, processorNames>>
  BY DEF RegisterProcessor, Answer
<1>3. reply'.id = 0 /\ reply'.answer # "FilterPluginModuleNotFound"
  BY <1>2 DEF Outcome
<1>4. PlacesKept
  BY <1>1, <1>2 DEF PlacesKept
<1>5. QED
  BY <1>1, <1>3, <1>4, OtherCall

LEMMA ImportWhisperBaseStep ==
  ASSUME RegInv, NEW outcome, ImportWhisperBase(outcome)
  PROVE  GoodStep
<1> DEFINE id == registry[Whisper]
           r == Imported(registrations[id], outcome)
<1>1. id \in 1 .. Len(registrations)
  <2>1. Whisper \in Name /\ id # 0 /\ Len(registrations) \in Nat
    BY NamesAssumption DEF ImportWhisperBase, RegInv, RegTypes
  <2>2. id \in 0 .. Len(registrations)
    BY <2>1 DEF RegInv, RegTypes
  <2>3. QED
    BY <2>1, <2>2
<1>2. /\ ImportPlugin(id, outcome)
      /\ UNCHANGED <<installed, registry, names>>
  BY DEF ImportWhisperBase, ImportPlugin
<1>3. \/ /\ ~r.plugin
         /\ reply' = [id |-> id,
                      answer |-> IF Importable(registrations[id])
                                     /\ outcome = "Exception"
                                 THEN "Exception" ELSE "AttributeError"]
         /\ UNCHANGED <<processors, processorNames>>
      \/ /\ r.plugin
         /\ reply' = [id |-> id, answer |-> "ok"]
  BY DEF ImportWhisperBase, Answer
<1>4. registrations[id].plugin => r.plugin
  BY <1>1, LoadedFacts
<1> HIDE DEF id, r
<1>5. /\ reply'.id = id
      /\ reply'.answer # "FilterPluginModuleNotFound"
      /\ registrations[id].plugin => reply'.answer = "ok"
  BY <1>3, <1>4
<1>6. PlacesKept
  BY <1>2, <1>3 DEF PlacesKept
<1>7. QED
  BY <1>1, <1>2, <1>5, <1>6, ImportingCall

LEMMA InitVconApiStep == ASSUME RegInv, InitVconApi PROVE GoodStep
<1>1. /\ UNCHANGED <<pluginVars, registry, names, processors, processorNames>>
      /\ reply' = [id |-> 0, answer |-> "ok"]
  BY DEF InitVconApi, Answer, pluginVars
<1>2. QED
  BY <1>1, OtherCall DEF PlacesKept

LEMMA RunProcessorStep ==
  ASSUME RegInv, NEW p \in Processor, NEW outcome, RunProcessor(p, outcome)
  PROVE  GoodStep
<1> DEFINE last == endpoints[Len(endpoints)]
<1>1. UNCHANGED <<installed, processors, processorNames>>
  BY DEF RunProcessor, serverVars
<1>2. CASE InstanceError(last) # "ok"
  <2>1. /\ UNCHANGED <<pluginVars, registry, names>>
        /\ reply' = [id |-> 0, answer |-> InstanceError(last)]
    BY <1>2 DEF RunProcessor, Answer, pluginVars
  <2>2. InstanceError(last) # "FilterPluginModuleNotFound"
    BY DEF InstanceError
  <2>3. QED
    BY <1>1, <2>1, <2>2, OtherCall DEF PlacesKept
<1>3. CASE InitRaises \/ last # WhisperBase
  <2>1. CASE InstanceError(last) = "ok"
    <3>1. /\ UNCHANGED <<pluginVars, registry, names>>
          /\ \/ reply' = [id |-> 0, answer |-> "AttributeError"]
             \/ reply' = [id |-> 0, answer |-> "ok"]
      BY <1>3, <2>1 DEF RunProcessor, Answer, pluginVars
    <3>2. QED
      BY <1>1, <3>1, OtherCall DEF PlacesKept
  <2>2. QED
    BY <1>2, <2>1
<1>4. CASE InstanceError(last) = "ok" /\ ~InitRaises /\ last = WhisperBase
  <2>1. Filter(Whisper, TRUE, outcome)
    BY <1>4 DEF RunProcessor
  <2>2. QED
    BY <1>1, <2>1, FilterStep, NamesAssumption
<1>5. QED
  BY <1>2, <1>3, <1>4

LEMMA InstallStep ==
  ASSUME RegInv, NEW module \in Package, Install(module)
  PROVE  GoodStep
<1>1. /\ UNCHANGED <<pluginVars, registry, names, processors, processorNames>>
      /\ reply' = [id |-> 0, answer |-> "ok"]
  BY DEF Install, Answer, pluginVars, serverVars
<1>2. QED
  BY <1>1, OtherCall DEF PlacesKept

LEMMA RegistryNextStep == ASSUME RegInv, RegistryNext PROVE GoodStep
<1>1. ASSUME NEW n \in Name, NEW m \in PluginModule, NEW replace \in BOOLEAN,
             Register(n, m, replace)
      PROVE  GoodStep
  BY <1>1, RegisterStep
<1>2. ASSUME NEW type \in Type, NEW n \in Name, SetTypeDefaultName(type, n)
      PROVE  GoodStep
  BY <1>2, SetTypeDefaultNameStep
<1>3. ASSUME NEW n \in Name, UsePlugin(n)
      PROVE  GoodStep
  BY <1>3, UsePluginStep
<1>4. CASE NewVcon
  BY <1>4, NewVconStep
<1>5. ASSUME NEW p \in Processor, NEW m \in Module, NEW outcome \in Outcome,
             RegisterProcessor(p, m, outcome)
      PROVE  GoodStep
  BY <1>5, RegisterProcessorStep
<1>6. ASSUME NEW outcome, ImportWhisperBase(outcome)
      PROVE  GoodStep
  BY <1>6, ImportWhisperBaseStep
<1>7. CASE InitVconApi
  BY <1>7, InitVconApiStep
<1>8. ASSUME NEW p \in Processor, NEW outcome, RunProcessor(p, outcome)
      PROVE  GoodStep
  BY <1>8, RunProcessorStep
<1>9. ASSUME NEW m \in Package, Install(m)
      PROVE  GoodStep
  BY <1>9, InstallStep
<1>10. QED
  BY <1>1, <1>2, <1>3, <1>4, <1>5, <1>6, <1>7, <1>8, <1>9 DEF RegistryNext

-----------------------------------------------------------------------------

LEMMA RegistryInitInv == RegistryInit => RegInv
<1> SUFFICES ASSUME RegistryInit PROVE RegInv
  OBVIOUS
<1>1. Len(registrations) = 0 /\ Len(constructed) = 0 /\ Range(types) = {}
  BY DEF RegistryInit, Range
<1>2. QED
  BY <1>1 DEF RegistryInit, RegInv, RegTypes

LEMMA RegistryInvariance == RegistrySpec => []RegInv
<1>1. RegInv /\ UNCHANGED registryVars => RegInv'
  BY SamePlugins DEF registryVars
<1>2. RegInv /\ [RegistryNext]_registryVars => RegInv'
  BY <1>1, RegistryNextStep DEF GoodStep
<1>3. QED
  BY <1>2, RegistryInitInv, PTL DEF RegistrySpec

\* A plugin is initialized only once, whatever order the calls that import it
\* come in, and however often they are retried.
THEOREM InitializedOnce == RegistrySpec => []ConstructedOnce
<1>1. RegInv => ConstructedOnce
  <2> SUFFICES ASSUME RegInv, NEW id \in DOMAIN constructed
               PROVE  constructed[id] <= 1
    BY DEF ConstructedOnce
  <2>1. id \in 1 .. Len(registrations)
    BY DEF RegInv, RegTypes
  <2>2. QED
    BY <2>1, RegistrationFacts DEF FlagsAgree
<1>2. QED
  BY <1>1, RegistryInvariance, PTL

\* No call answers that a module is missing when it can be imported, unless the
\* plugin itself missed one.
THEOREM MissingMeansMissing == RegistrySpec => MissingIsNews
<1>1. RegInv /\ [RegistryNext]_registryVars => [MissingStep]_registryVars
  BY RegistryNextStep DEF GoodStep
<1>2. QED
  BY <1>1, RegistryInvariance, PTL DEF RegistrySpec, MissingIsNews, MissingStep

\* A plugin that was made stays and answers, and a call that fails moves no
\* plugin and no processor.
THEOREM LoadedPluginsStay == RegistrySpec => PluginStays
<1> DEFINE Stays ==
        /\ \A id \in DOMAIN registrations : registrations[id].plugin =>
               /\ registrations'[id] = registrations[id]
               /\ reply'.id = id => reply'.answer \in
                                       {"ok", "FilterPluginNotImplemented"}
        /\ reply'.answer # "ok" =>
               UNCHANGED <<registry, names, processors, processorNames>>
<1>1. RegInv /\ RegistryNext => Stays
  <2> SUFFICES ASSUME RegInv, RegistryNext PROVE Stays
    OBVIOUS
  <2>1. GoodStep
    BY RegistryNextStep
  <2>2. DOMAIN registrations = 1 .. Len(registrations)
    BY DEF RegInv, RegTypes
  <2>3. QED
    BY <2>1, <2>2 DEF GoodStep, PluginsKept, PluginAnswers, PlacesKept
<1>2. RegInv /\ [RegistryNext]_registryVars => [Stays]_registryVars
  BY <1>1
<1>3. QED
  BY <1>2, RegistryInvariance, PTL DEF RegistrySpec, PluginStays
=============================================================================
