-------------------------- MODULE VconFilters_proofs --------------------------
(***************************************************************************)
(* Proofs about the lists of a vCon and the filters that extend them, for  *)
(* every set of addresses, messages and outputs, lists of any length, and  *)
(* transcripts by any of the services in any order.                        *)
(***************************************************************************)
EXTENDS VconFilters, VconContent_proofs

-----------------------------------------------------------------------------
(***************************************************************************)
(* The inductive invariant of VconFilters.                                 *)
(***************************************************************************)

\* The labels that transcripts have: a service has schemas of its own.
Labelled(e) ==
    e.type = "transcript" =>
        \/ e.vendor = "whisper" /\ e.schema = "timestamps"
        \/ e.vendor = "openai" /\ e.schema \in Range(Output)
        \/ e.vendor = "deepgram" /\ e.schema = "prerecorded"

\* The people of an imported message, and nobody else, are in its dialog, as
\* far as the code's search tells them apart.
TakePart(im) ==
    LET people == {im.message.from} \cup Range(im.message.to)
        listed == Range(dialog[im.dialog].parties)
    IN  /\ \A a \in people : \E p \in listed : Represents(parties[p], a)
        /\ \A p \in listed : \E a \in people : Represents(parties[p], a)

\* What holds of the lists.
ListsInv ==
    /\ parties \in Seq(Party)
    /\ ReferencesExist
    /\ \A k \in 1 .. Length(analysis) : Labelled(analysis[k])
    /\ TranscribedOnce
    /\ SummaryRestsOnItsDialogs
    /\ \A k \in 1 .. Length(analysis) : analysis[k].sources \subseteq 1 .. k - 1
    /\ \A im \in imported : /\ im.message \in Message
                            /\ im.dialog \in 1 .. Length(dialog)
                            /\ TakePart(im)
    /\ FromAddresses(parties)

\* The dialog has what the filter is to make of it.
Done(filter, outputs, d) ==
    dialog[d].type = "recording" =>
        /\ filter = "whisper" /\ dialog[d].media = "audio"
               => \A schema \in outputs : TranscriptsOf(d, Labels(schema)) # {}
        /\ filter = "deepgram" => TranscriptsOf(d, Deepgram) # {}

CallSet == [filter : Filter, asked : Seq(Nat), todo : Seq(Nat),
            outputs : SUBSET Range(Output), transcribed : BOOLEAN,
            texts : SUBSET Nat, sources : SUBSET Nat]

\* A filter that has left a dialog behind has done its work on it.
LeftBehind(filter, outputs, asked, todo) ==
    \A d \in Range(asked) : d \in Range(todo) \/
        (d \in 1 .. Length(dialog) /\ Done(filter, outputs, d))

\* The transcripts that a chat has collected are of dialogs it was asked about.
SourceOf(s, asked) == /\ s \in 1 .. Length(analysis)
                      /\ analysis[s].type = "transcript"
                      /\ Range(analysis[s].dialog) \subseteq Range(asked)

CallInv(c) ==
    /\ c \in CallSet
    /\ Range(c.todo) \subseteq Range(c.asked)
    /\ LeftBehind(c.filter, c.outputs, c.asked, c.todo)
    /\ \A s \in c.sources : SourceOf(s, c.asked)

CallsInv ==
    /\ calls \in Seq(CallSet)
    /\ \A i \in 1 .. Len(calls) : CallInv(calls[i])
    /\ calls # <<>> => dialog # Absent /\ reply = NoReply

ReplyInv ==
    reply.status = "ok" =>
        /\ reply.outputs \in SUBSET Range(Output)
        /\ LeftBehind(reply.filter, reply.outputs, reply.asked, <<>>)

FiltersInv == ListsInv /\ CallsInv /\ ReplyInv

-----------------------------------------------------------------------------
\* The lists of a vCon, and the outputs that are missing

LEMMA ListsFacts ==
  ASSUME ListsInv
  PROVE  /\ dialog \in Seq(Dialog) \cup {Absent}
         /\ analysis \in Seq(Analysis) \cup {Absent}
         /\ Length(dialog) \in Nat /\ Length(analysis) \in Nat
         /\ dialog # Absent => dialog \in Seq(Dialog) /\ Length(dialog) = Len(dialog)
         /\ analysis # Absent => analysis \in Seq(Analysis) /\ Length(analysis) = Len(analysis)
         /\ \A d \in 1 .. Length(dialog) : dialog[d] \in Dialog
         /\ \A k \in 1 .. Length(analysis) : analysis[k] \in Analysis
         /\ DOMAIN parties = 1 .. Len(parties) /\ Len(parties) \in Nat
         /\ parties \in Seq(Party)
         /\ Absent \notin Seq(Dialog) /\ Absent \notin Seq(Analysis)
<1>1. /\ dialog \in Seq(Dialog) \cup {Absent}
      /\ analysis \in Seq(Analysis) \cup {Absent}
      /\ parties \in Seq(Party)
  BY DEF ListsInv, ReferencesExist
<1>2. QED
  BY <1>1, LengthFacts, AbsentAssumption

\* The outputs that are missing are those to be made, each of them once.
LEMMA InTurnsFacts ==
  ASSUME NEW outputs \in SUBSET Range(Output)
  PROVE  /\ InTurns(outputs) \in Seq(outputs)
         /\ Range(InTurns(outputs)) = outputs
         /\ \A i, j \in 1 .. Len(InTurns(outputs)) :
               i # j => InTurns(outputs)[i] # InTurns(outputs)[j]
<1> DEFINE S == {i \in 1 .. 3 : Output[i] \in outputs}
           turns == InOrder(S)
           N == Len(turns)
           made == [n \in 1 .. N |-> Output[turns[n]]]
<1>1. /\ DOMAIN Output = 1 .. 3
      /\ \A i, j \in 1 .. 3 : i # j => Output[i] # Output[j]
      /\ \A o \in Range(Output) : \E i \in 1 .. 3 : o = Output[i]
  BY DEF Output, Range
<1>2. S \in SUBSET (1 .. 3) /\ 3 \in Nat
  OBVIOUS
<1>3. /\ turns \in Seq(S) /\ Range(turns) = S
      /\ \A i, j \in DOMAIN turns : i < j => turns[i] < turns[j]
  <2> HIDE DEF S
  <2>1. QED
    BY <1>2, InOrderFacts
<1>4. InTurns(outputs) = [n \in DOMAIN turns |-> Output[turns[n]]]
  <2>1. S = {i \in DOMAIN Output : Output[i] \in outputs}
    BY <1>1
  <2>2. QED
    BY <2>1 DEF InTurns
<1> HIDE DEF turns, S
<1>5. N \in Nat /\ DOMAIN turns = 1 .. N /\ \A n \in 1 .. N : turns[n] \in S
  BY <1>3
<1>6. InTurns(outputs) = made
  BY <1>4, <1>5
<1>7. \A n \in 1 .. N : turns[n] \in 1 .. 3 /\ made[n] \in outputs
  BY <1>5 DEF S
<1>8. made \in Seq(outputs) /\ Len(made) = N /\ DOMAIN made = 1 .. N
  BY <1>5, <1>7
<1>9. ASSUME NEW i \in 1 .. N, NEW j \in 1 .. N, i # j
      PROVE  made[i] # made[j]
  <2>1. turns[i] # turns[j]
    <3>1. i < j \/ j < i
      BY <1>5, <1>9
    <3>2. turns[i] < turns[j] \/ turns[j] < turns[i]
      BY <1>3, <1>5, <3>1
    <3>3. QED
      BY <1>7, <3>2
  <2>2. QED
    BY <1>1, <1>7, <2>1
<1>10. ASSUME NEW o \in outputs PROVE o \in Range(made)
  <2>1. PICK i \in 1 .. 3 : o = Output[i]
    BY <1>1
  <2>2. i \in Range(turns)
    BY <1>3, <2>1 DEF S
  <2>3. PICK n \in 1 .. N : turns[n] = i
    BY <1>5, <2>2 DEF Range
  <2>4. QED
    BY <1>8, <2>1, <2>3 DEF Range
<1>11. \A o \in Range(made) : o \in outputs
  BY <1>7, <1>8 DEF Range
<1> HIDE DEF made
<1>12. QED
  BY <1>6, <1>8, <1>9, <1>10, <1>11

LEMMA MissingFacts ==
  ASSUME NEW outputs \in SUBSET Range(Output), NEW d
  PROVE  /\ Missing(d, outputs) \in Seq(outputs)
         /\ Range(Missing(d, outputs)) =
               {schema \in outputs : TranscriptsOf(d, Labels(schema)) = {}}
         /\ \A i, j \in 1 .. Len(Missing(d, outputs)) :
               i # j => Missing(d, outputs)[i] # Missing(d, outputs)[j]
         /\ Missing(d, outputs) = <<>> <=>
               \A schema \in outputs : TranscriptsOf(d, Labels(schema)) # {}
<1> DEFINE S == {schema \in outputs : TranscriptsOf(d, Labels(schema)) = {}}
           m == Missing(d, outputs)
<1>1. S \in SUBSET Range(Output) /\ S \subseteq outputs /\ m = InTurns(S)
  BY DEF Missing
<1>2. S = {} <=> \A schema \in outputs : TranscriptsOf(d, Labels(schema)) # {}
  OBVIOUS
<1> HIDE DEF S, m
<1>3. /\ m \in Seq(S) /\ Range(m) = S
      /\ \A i, j \in 1 .. Len(m) : i # j => m[i] # m[j]
  BY <1>1, InTurnsFacts
<1>4. m = <<>> <=> S = {}
  <2>1. m = <<>> => S = {}
    BY <1>3 DEF Range
  <2>2. m # <<>> => m[1] \in S
    BY <1>3
  <2>3. QED
    BY <2>1, <2>2
<1>5. m \in Seq(outputs)
  BY <1>1, <1>3, SeqMonotonic
<1>6. QED
  BY <1>2, <1>3, <1>4, <1>5 DEF S, m

-----------------------------------------------------------------------------
\* The lists keep their invariant

LEMMA PeopleAreParties ==
  ASSUME NEW im, im.message \in Message
  PROVE  {im.message.from} \cup Range(im.message.to) \subseteq Address \cap Party
<1>1. im.message.from \in Address /\ im.message.to \in Seq(Address)
  BY AddressesAreParties
<1>2. Range(im.message.to) \subseteq Address
  BY <1>1, RangeOfSeq
<1>3. QED
  BY <1>1, <1>2, AddressesAreParties

\* Parties and dialogs are added, and a party stays recognisable.
LEMMA ContentGrows ==
  ASSUME ListsInv, UNCHANGED analysis,
         parties' \in Seq(Party), Len(parties) <= Len(parties'),
         \A p \in 1 .. Len(parties) : \A a \in Party :
             Represents(parties[p], a) => Represents(parties'[p], a),
         FromAddresses(parties'),
         dialog' \in Seq(Dialog) \cup {Absent}, Longer(dialog', dialog),
         \A d \in 1 .. Length(dialog') : d > Length(dialog) =>
             Range(dialog'[d].parties) \subseteq 1 .. Len(parties'),
         \A im \in imported' : im \in imported \/
             (im.message \in Message /\ im.dialog \in 1 .. Length(dialog')
              /\ TakePart(im)')
  PROVE  ListsInv'
<1>1. /\ Length(dialog) \in Nat /\ Length(dialog') \in Nat
      /\ Len(parties) \in Nat /\ Len(parties') \in Nat
      /\ DOMAIN parties = 1 .. Len(parties) /\ DOMAIN parties' = 1 .. Len(parties')
      /\ Length(dialog) <= Length(dialog')
      /\ \A d \in 1 .. Length(dialog) : dialog'[d] = dialog[d]
  BY ListsFacts, LengthFacts DEF Longer
<1>2. ASSUME NEW d \in 1 .. Length(dialog')
      PROVE  Range(dialog'[d].parties) \subseteq DOMAIN parties'
  <2>1. CASE d \in 1 .. Length(dialog)
    <3>1. Range(dialog[d].parties) \subseteq DOMAIN parties
      BY <2>1 DEF ListsInv, ReferencesExist
    <3>2. QED
      BY <1>1, <2>1, <3>1
  <2>2. CASE d \notin 1 .. Length(dialog)
    BY <1>1, <2>2
  <2>3. QED
    BY <2>1, <2>2
<1>3. \A k \in 1 .. Length(analysis) :
        Range(analysis[k].dialog) \subseteq 1 .. Length(dialog')
  <2>1. \A k \in 1 .. Length(analysis) :
          Range(analysis[k].dialog) \subseteq 1 .. Length(dialog)
    BY DEF ListsInv, ReferencesExist
  <2>2. QED
    BY <1>1, <2>1
<1>4. analysis \in Seq(Analysis) \cup {Absent}
  BY ListsFacts
<1>5. ReferencesExist'
  BY <1>2, <1>3, <1>4 DEF ReferencesExist, Length
<1>6. ASSUME NEW im \in imported'
      PROVE  /\ im.message \in Message
             /\ im.dialog \in 1 .. Length(dialog')
             /\ TakePart(im)'
  <2>1. CASE im \in imported
    <3>1. im.message \in Message /\ im.dialog \in 1 .. Length(dialog) /\ TakePart(im)
      BY <2>1 DEF ListsInv
    <3>2. /\ {im.message.from} \cup Range(im.message.to) \subseteq Party
          /\ Range(dialog[im.dialog].parties) \subseteq 1 .. Len(parties)
          /\ dialog'[im.dialog] = dialog[im.dialog]
      BY <1>1, <3>1, PeopleAreParties DEF ListsInv, ReferencesExist
    <3>3. TakePart(im)'
      BY <3>1, <3>2 DEF TakePart
    <3>4. im.dialog \in 1 .. Length(dialog')
      BY <1>1, <3>1
    <3>5. QED
      BY <3>1, <3>3, <3>4
  <2>2. CASE im \notin imported
    BY <2>2
  <2>3. QED
    BY <2>1, <2>2
<1>7. (FromAddresses(parties))'
  BY DEF FromAddresses
<1>8. /\ (\A k \in 1 .. Length(analysis) : /\ Labelled(analysis[k])
                                             /\ analysis[k].sources \subseteq 1 .. k - 1)'
      /\ TranscribedOnce' /\ SummaryRestsOnItsDialogs'
  BY DEF ListsInv, TranscribedOnce, SummaryRestsOnItsDialogs, Length, Labelled
<1>9. (\A im \in imported : /\ im.message \in Message
                            /\ im.dialog \in 1 .. Length(dialog)
                            /\ TakePart(im))'
  BY <1>6 DEF Length
<1>10. QED
  BY <1>5, <1>7, <1>8, <1>9 DEF ListsInv

\* What an added analysis is to be.
Fits(e, k) ==
    /\ Labelled(e)
    /\ Range(e.dialog) \subseteq 1 .. Length(dialog)
    /\ \A j \in 1 .. k - 1 :
          /\ analysis[j].type = "transcript" /\ e.type = "transcript"
          /\ analysis[j].dialog = e.dialog
          /\ analysis[j].schema = e.schema
          => e.vendor = "whisper"
    /\ \A s \in e.sources :
          /\ s \in 1 .. k - 1
          /\ analysis[s].type = "transcript"
          /\ Range(analysis[s].dialog) \subseteq Range(e.dialog)

LEMMA AnalysisGrows ==
  ASSUME ListsInv, UNCHANGED <<parties, dialog, imported>>,
         analysis' \in Seq(Analysis) \cup {Absent}, Longer(analysis', analysis),
         \A k \in 1 .. Length(analysis') :
             k > Length(analysis) => Fits(analysis[k], k)'
  PROVE  ListsInv'
<1>1. /\ Length(analysis) \in Nat /\ Length(analysis') \in Nat
      /\ Length(analysis) <= Length(analysis')
      /\ \A k \in 1 .. Length(analysis) : analysis'[k] = analysis[k]
      /\ Length(dialog)' = Length(dialog)
  BY ListsFacts, LengthFacts DEF Longer, Length
<1>2. \A k \in 1 .. Length(analysis') : k \in 1 .. Length(analysis) \/ Fits(analysis[k], k)'
  BY <1>1
<1>3. \A k \in 1 .. Length(analysis') : /\ Labelled(analysis'[k])
                                         /\ Range(analysis'[k].dialog) \subseteq 1 .. Length(dialog')
                                         /\ analysis'[k].sources \subseteq 1 .. k - 1
  <2> SUFFICES ASSUME NEW k \in 1 .. Length(analysis')
               PROVE  /\ Labelled(analysis'[k])
                      /\ Range(analysis'[k].dialog) \subseteq 1 .. Length(dialog')
                      /\ analysis'[k].sources \subseteq 1 .. k - 1
    OBVIOUS
  <2>1. CASE k \in 1 .. Length(analysis)
    <3>1. /\ Labelled(analysis[k])
          /\ Range(analysis[k].dialog) \subseteq 1 .. Length(dialog)
          /\ analysis[k].sources \subseteq 1 .. k - 1
      BY <2>1 DEF ListsInv, ReferencesExist
    <3>2. QED
      BY <1>1, <2>1, <3>1
  <2>2. CASE k \notin 1 .. Length(analysis)
    <3>1. Fits(analysis[k], k)'
      BY <1>2, <2>2
    <3>2. QED
      BY <3>1 DEF Fits
  <2>3. QED
    BY <2>1, <2>2
<1>4. TranscribedOnce'
  <2> SUFFICES ASSUME NEW k \in 1 .. Length(analysis'), NEW j \in 1 .. k - 1,
                      analysis'[j].type = "transcript",
                      analysis'[k].type = "transcript",
                      analysis'[j].dialog = analysis'[k].dialog,
                      analysis'[j].schema = analysis'[k].schema
               PROVE  analysis'[k].vendor = "whisper"
    BY DEF TranscribedOnce, Length
  <2>1. CASE k \in 1 .. Length(analysis)
    <3>1. j \in 1 .. Length(analysis)
      BY <1>1, <2>1
    <3>2. analysis'[j] = analysis[j] /\ analysis'[k] = analysis[k]
      BY <1>1, <2>1, <3>1
    <3>3. QED
      BY <2>1, <3>2 DEF ListsInv, TranscribedOnce
  <2>2. CASE k \notin 1 .. Length(analysis)
    <3>1. Fits(analysis[k], k)'
      BY <1>2, <2>2
    <3>2. QED
      BY <3>1 DEF Fits
  <2>3. QED
    BY <2>1, <2>2
<1>5. SummaryRestsOnItsDialogs'
  <2> SUFFICES ASSUME NEW k \in 1 .. Length(analysis'),
                      NEW s \in analysis'[k].sources
               PROVE  /\ s < k
                      /\ analysis'[s].type = "transcript"
                      /\ Range(analysis'[s].dialog) \subseteq Range(analysis'[k].dialog)
    BY DEF SummaryRestsOnItsDialogs, Length
  <2>1. s \in 1 .. k - 1
    BY <1>3
  <2>2. CASE k \in 1 .. Length(analysis)
    <3>1. s \in 1 .. Length(analysis)
      BY <1>1, <2>1, <2>2
    <3>2. analysis'[s] = analysis[s] /\ analysis'[k] = analysis[k]
      BY <1>1, <2>2, <3>1
    <3>3. QED
      BY <2>2, <3>2 DEF ListsInv, SummaryRestsOnItsDialogs
  <2>3. CASE k \notin 1 .. Length(analysis)
    <3>1. Fits(analysis[k], k)'
      BY <1>2, <2>3
    <3>2. s < k
      BY <2>1
    <3>3. QED
      BY <3>1, <3>2 DEF Fits
  <2>4. QED
    BY <2>2, <2>3
<1>6. ReferencesExist'
  <2>1. /\ dialog \in Seq(Dialog) \cup {Absent}
        /\ \A d \in 1 .. Length(dialog) :
              Range(dialog[d].parties) \subseteq DOMAIN parties
    BY DEF ListsInv, ReferencesExist
  <2>2. QED
    BY <1>1, <1>3, <2>1 DEF ReferencesExist, Length
<1>7. /\ (\A k \in 1 .. Length(analysis) : /\ Labelled(analysis[k])
                                            /\ analysis[k].sources \subseteq 1 .. k - 1)'
  BY <1>3 DEF Length
<1>8. /\ (\A im \in imported : /\ im.message \in Message
                               /\ im.dialog \in 1 .. Length(dialog)
                               /\ TakePart(im))'
      /\ parties' \in Seq(Party) /\ (FromAddresses(parties))'
  BY <1>1 DEF ListsInv, TakePart, FromAddresses
<1>9. QED
  BY <1>4, <1>5, <1>6, <1>7, <1>8 DEF ListsInv

LEMMA KeepsRepresents ==
  ASSUME ListsInv, Extends(parties', parties), parties' \in Seq(Party)
  PROVE  /\ Len(parties) <= Len(parties')
         /\ \A p \in 1 .. Len(parties) : \A a \in Party :
               Represents(parties[p], a) => Represents(parties'[p], a)
BY DEF Extends

LEMMA AddPartyKeeps ==
  ASSUME ListsInv, NEW a \in Address, AddParty(a)
  PROVE  ListsInv'
<1>1. parties \in Seq(Party) /\ a \in Party /\ parties' = Append(parties, a)
  BY AddressesAreParties, ListsFacts DEF AddParty
<1>2. /\ parties' \in Seq(Party)
      /\ Extends(parties', parties)
  BY <1>1, RangeOfAppend DEF Extends
<1>3. UNCHANGED <<dialog, analysis, imported>>
  BY DEF AddParty
<1>6. FromAddresses(parties')
  <2>1. /\ Len(parties') = Len(parties) + 1 /\ Len(parties) \in Nat
        /\ \A p \in 1 .. Len(parties) : parties'[p] = parties[p]
        /\ parties'[Len(parties) + 1] = a
        /\ FromAddresses(parties)
    BY <1>1, RangeOfAppend, ListsFacts DEF ListsInv
  <2>2. \A p \in 1 .. Len(parties') : p \in 1 .. Len(parties) \/ p = Len(parties) + 1
    BY <2>1
  <2>3. QED
    BY <2>1, <2>2 DEF FromAddresses
<1>4. /\ dialog' \in Seq(Dialog) \cup {Absent}
      /\ Longer(dialog', dialog)
      /\ \A d \in 1 .. Length(dialog') : d <= Length(dialog)
  BY <1>3, ListsFacts DEF Longer
<1>5. \A d \in 1 .. Length(dialog') : d > Length(dialog) =>
          Range(dialog'[d].parties) \subseteq 1 .. Len(parties')
  <2>1. \A d \in 1 .. Length(dialog') : ~(d > Length(dialog))
    BY <1>4, ListsFacts
  <2>2. QED
    BY <2>1
<1>7. QED
  BY <1>2, <1>3, <1>4, <1>5, <1>6, KeepsRepresents, ContentGrows

\* A name or an address that is missing can be set: nobody was recognised by it.
LEMMA SetPartyParameterKeeps ==
  ASSUME ListsInv, NEW parameter \in {"name", "mailto"}, NEW value \in STRING,
         NEW b \in Address, value = b[parameter],
         NEW index \in DOMAIN parties, parties[index][parameter] = "",
         SetPartyParameter(parameter, value, index)
  PROVE  ListsInv'
<1>1. /\ parties \in Seq(Party) /\ index \in 1 .. Len(parties)
      /\ DOMAIN parties = 1 .. Len(parties) /\ Len(parties) \in Nat
      /\ \A p \in 1 .. Len(parties) : parties[p] \in Party
  <2>1. /\ DOMAIN parties = 1 .. Len(parties) /\ Len(parties) \in Nat
        /\ parties \in Seq(Party)
    BY ListsFacts
  <2>2. \A p \in 1 .. Len(parties) : parties[p] \in Party
    BY ONLY <2>1
  <2>3. QED
    BY <2>1, <2>2
<1> DEFINE completed == [parties[index] EXCEPT ![parameter] = value]
<1>2. parties' = [parties EXCEPT ![index] = completed]
  BY DEF SetPartyParameter
<1>3. /\ completed \in Party
      /\ parameter = "name" =>
            completed.name = value /\ completed.mailto = parties[index].mailto
      /\ parameter = "mailto" =>
            completed.mailto = value /\ completed.name = parties[index].name
  BY <1>1 DEF Party
<1> HIDE DEF completed
<1>4. /\ parties' \in Seq(Party) /\ Len(parties') = Len(parties)
      /\ \A p \in 1 .. Len(parties) :
            parties'[p] = IF p = index THEN completed ELSE parties[p]
  BY <1>1, <1>2, <1>3, ExceptSeq
<1>5. ASSUME NEW a \in Party, Represents(parties[index], a)
      PROVE  Represents(completed, a)
  <2>1. \A part : Occurs(part, "") => Occurs(part, value)
    BY ContentAssumption DEF Occurs
  <2>2. CASE parameter = "name"
    BY <1>3, <1>5, <2>1, <2>2 DEF Represents
  <2>3. CASE parameter = "mailto"
    BY <1>3, <1>5, <2>1, <2>3 DEF Represents
  <2>4. QED
    BY <2>2, <2>3
<1>6. \A p \in 1 .. Len(parties) : \A a \in Party :
          Represents(parties[p], a) => Represents(parties'[p], a)
  BY <1>4, <1>5
<1>7. UNCHANGED <<dialog, analysis, imported>>
  BY DEF SetPartyParameter
<1>8. /\ dialog' \in Seq(Dialog) \cup {Absent}
      /\ Longer(dialog', dialog)
      /\ \A d \in 1 .. Length(dialog') : ~(d > Length(dialog))
  <2>1. dialog' = dialog /\ dialog \in Seq(Dialog) \cup {Absent} /\ Length(dialog) \in Nat
    BY <1>7, ListsFacts
  <2>2. QED
    BY ONLY <2>1 DEF Longer
<1>9. Len(parties) <= Len(parties')
  BY ONLY <1>1, <1>4
<1>10. FromAddresses(parties')
  <2>1. FromAddresses(parties)
    BY DEF ListsInv
  <2>2. \/ parameter = "name" /\ value = b.name
        \/ parameter = "mailto" /\ value = b.mailto
    OBVIOUS
  <2>3. /\ \E x \in Address : completed.name = x.name
        /\ \E x \in Address : completed.mailto = x.mailto
    BY <1>1, <1>3, <2>1, <2>2 DEF FromAddresses
  <2>4. QED
    BY <1>4, <2>1, <2>3 DEF FromAddresses
<1>11. QED
  BY <1>4, <1>6, <1>7, <1>8, <1>9, <1>10, ContentGrows

\* A dialog between parties that there are.
LEMMA AddDialogKeeps ==
  ASSUME ListsInv, NEW e \in Dialog,
         Range(e.parties) \subseteq 1 .. Len(parties),
         dialog' = Added(dialog, e), UNCHANGED <<parties, analysis, imported>>
  PROVE  ListsInv' /\ dialog' # Absent /\ Longer(dialog', dialog)
<1>1. /\ dialog \in Seq(Dialog) \cup {Absent} /\ Absent \notin Seq(Dialog)
      /\ Length(dialog) \in Nat /\ parties \in Seq(Party)
      /\ Len(parties) \in Nat
  BY ListsFacts
<1>2. /\ dialog' \in Seq(Dialog) /\ dialog' # Absent
      /\ Length(dialog') = Length(dialog) + 1
      /\ dialog'[Length(dialog) + 1] = e
      /\ Longer(dialog', dialog)
  BY <1>1, AddedFacts
<1>3. ASSUME NEW d \in 1 .. Length(dialog'), d > Length(dialog)
      PROVE  Range(dialog'[d].parties) \subseteq 1 .. Len(parties')
  <2>1. d = Length(dialog) + 1
    BY <1>1, <1>2, <1>3
  <2>2. QED
    BY <1>2, <2>1
<1>4. (FromAddresses(parties))'
  BY DEF ListsInv, FromAddresses
<1>5. QED
  BY <1>1, <1>2, <1>3, <1>4, ContentGrows

LEMMA AddAnalysisTranscriptKeeps ==
  ASSUME ListsInv, NEW d \in 1 .. Length(dialog), AddAnalysisTranscript(d)
  PROVE  ListsInv' /\ Longer(analysis', analysis)
<1> DEFINE e == Transcript(d, "whisper", "timestamps")
<1>1. /\ analysis \in Seq(Analysis) \cup {Absent} /\ Absent \notin Seq(Analysis)
      /\ Length(analysis) \in Nat /\ Length(dialog) \in Nat
  BY ListsFacts
<1>2. /\ e \in Analysis /\ e.type = "transcript" /\ e.vendor = "whisper"
      /\ e.schema = "timestamps" /\ e.dialog = <<d>> /\ e.sources = {}
      /\ Range(e.dialog) = {d}
  BY <1>1 DEF Analysis, Transcript, Range
<1>3. analysis' = Added(analysis, e) /\ UNCHANGED <<parties, dialog, imported>>
  BY DEF AddAnalysisTranscript
<1> HIDE DEF e
<1>4. /\ analysis' \in Seq(Analysis)
      /\ Length(analysis') = Length(analysis) + 1
      /\ analysis'[Length(analysis) + 1] = e
      /\ Longer(analysis', analysis)
  BY <1>1, <1>2, <1>3, AddedFacts
<1>5. ASSUME NEW k \in 1 .. Length(analysis'), k > Length(analysis)
      PROVE  Fits(analysis[k], k)'
  <2>1. analysis'[k] = e
    <3>1. k = Length(analysis) + 1
      BY <1>1, <1>4, <1>5
    <3>2. QED
      BY <1>4, <3>1
  <2>2. d \in 1 .. Length(dialog')
    BY <1>3
  <2>3. QED
    BY <1>2, <2>1, <2>2 DEF Fits, Labelled, Length
<1>6. QED
  BY <1>3, <1>4, <1>5, AnalysisGrows

\* The sender and the recipients take part in the dialog of the message.
LEMMA ImportKeeps ==
  ASSUME ListsInv, NEW m \in Message, AddDialogInlineEmailMessage(m)
  PROVE  ListsInv'
<1> DEFINE known == Identified(m)
           e == TextDialog(known.indices, FALSE, m.media)
<1>1. /\ parties \in Seq(Party) /\ m.media \in Media
      /\ dialog \in Seq(Dialog) \cup {Absent} /\ Absent \notin Seq(Dialog)
      /\ Length(dialog) \in Nat
  BY ListsFacts, ContentAssumption
<1>2. After(known, Len(People(m)), m)
  BY <1>1, IdentifiedFacts
<1>3. /\ parties' = known.parties /\ UNCHANGED analysis
      /\ \/ UNCHANGED <<dialog, imported>>
         \/ /\ ~known.unbound
            /\ dialog' = Added(dialog, e)
            /\ imported' = imported \cup {[message |-> m, dialog |-> Length(dialog) + 1]}
  BY DEF AddDialogInlineEmailMessage
<1> HIDE DEF known
<1>4. /\ parties' \in Seq(Party) /\ Extends(parties', parties)
      /\ known.indices \in Seq(Nat)
      /\ \A i \in Range(known.indices) : i \in 1 .. Len(parties')
      /\ ~known.unbound =>
            \A k \in 1 .. Len(People(m)) : \E p \in Range(known.indices) :
                Represents(parties'[p], People(m)[k])
      /\ \A p \in Range(known.indices) : \E k \in 1 .. Len(People(m)) :
            Represents(parties'[p], People(m)[k])
      /\ FromAddresses(parties')
  BY <1>2, <1>3 DEF After, Sound, KnownSet, ListsInv
<1>5. /\ e \in Dialog /\ e.parties = known.indices
  BY <1>1, <1>4 DEF TextDialog, Dialog, Kind
<1> HIDE DEF e
<1>6. CASE UNCHANGED <<dialog, imported>>
  <2>1. /\ dialog' \in Seq(Dialog) \cup {Absent}
        /\ Longer(dialog', dialog)
        /\ \A d \in 1 .. Length(dialog') : ~(d > Length(dialog))
    <3>1. dialog' = dialog
      BY <1>6
    <3>2. QED
      BY ONLY <1>1, <3>1 DEF Longer
  <2>2. \A im \in imported' : im \in imported
    BY <1>6
  <2>3. QED
    BY <1>3, <1>4, <2>1, <2>2, KeepsRepresents, ContentGrows
<1>7. CASE ~known.unbound /\ dialog' = Added(dialog, e)
           /\ imported' = imported \cup {[message |-> m, dialog |-> Length(dialog) + 1]}
  <2>1. /\ dialog' \in Seq(Dialog)
        /\ Length(dialog') = Length(dialog) + 1
        /\ dialog'[Length(dialog) + 1] = e
        /\ Longer(dialog', dialog)
    BY <1>1, <1>5, <1>7, AddedFacts
  <2>2. ASSUME NEW d \in 1 .. Length(dialog'), d > Length(dialog)
        PROVE  Range(dialog'[d].parties) \subseteq 1 .. Len(parties')
    <3>1. d = Length(dialog) + 1
      BY <1>1, <2>1, <2>2
    <3>2. QED
      BY <1>4, <1>5, <2>1, <3>1
  <2>3. ASSUME NEW im \in imported', im \notin imported
        PROVE  im.message \in Message /\ im.dialog \in 1 .. Length(dialog') /\ TakePart(im)'
    <3>1. im.message = m /\ im.dialog = Length(dialog) + 1
      BY <1>7, <2>3
    <3>2. im.dialog \in 1 .. Length(dialog')
      BY <1>1, <2>1, <3>1
    <3>3. dialog'[im.dialog].parties = known.indices
      BY <1>5, <2>1, <3>1
    <3>4. ASSUME NEW a \in {im.message.from} \cup Range(im.message.to)
          PROVE  \E p \in Range(dialog'[im.dialog].parties) : Represents(parties'[p], a)
      <4>1. a \in Range(People(m)) /\ DOMAIN People(m) = 1 .. Len(People(m))
        BY <3>1, PeopleFacts
      <4>2. PICK k \in 1 .. Len(People(m)) : a = People(m)[k]
        BY <4>1 DEF Range
      <4>3. QED
        BY <1>4, <1>7, <3>3, <4>2
    <3>7. ASSUME NEW p \in Range(dialog'[im.dialog].parties)
          PROVE  \E a \in {im.message.from} \cup Range(im.message.to) :
                     Represents(parties'[p], a)
      <4>1. PICK k \in 1 .. Len(People(m)) : Represents(parties'[p], People(m)[k])
        BY <1>4, <3>3
      <4>2. People(m)[k] \in Range(People(m))
        <5>1. DOMAIN People(m) = 1 .. Len(People(m))
          BY PeopleFacts
        <5>2. QED
          BY <5>1 DEF Range
      <4>3. QED
        BY <3>1, <4>1, <4>2, PeopleFacts
    <3>5. TakePart(im)'
      BY <3>4, <3>7 DEF TakePart
    <3>6. QED
      BY <3>1, <3>2, <3>5
  <2>4. dialog' \in Seq(Dialog) \cup {Absent}
    BY <2>1
  <2>5. \A im \in imported' : im \in imported \/
           (im.message \in Message /\ im.dialog \in 1 .. Length(dialog')
            /\ TakePart(im)')
    BY <2>3
  <2>6. QED
    BY <1>3, <1>4, <2>1, <2>2, <2>4, <2>5, KeepsRepresents, ContentGrows
<1>8. QED
  BY <1>3, <1>6, <1>7

LEMMA EverybodyFacts ==
  ASSUME ListsInv
  PROVE  Everybody \in Seq(Nat) /\ Range(Everybody) \subseteq 1 .. Len(parties)
<1>1. DOMAIN parties = 1 .. Len(parties) /\ Len(parties) \in Nat
  BY ListsFacts
<1>2. Everybody = [p \in 1 .. Len(parties) |-> p]
  BY <1>1 DEF Everybody
<1>3. QED
  BY <1>1, <1>2 DEF Range

LEMMA ClientStepKeeps ==
  ASSUME ListsInv, ClientStep
  PROVE  ListsInv'
<1>1. ASSUME NEW a \in Invited, AddParty(a) PROVE ListsInv'
  BY <1>1, AddPartyKeeps, FiltersAssumption
<1>2. ASSUME NEW parameter \in {"name", "mailto"}, NEW a \in Invited,
             NEW p \in DOMAIN parties, parties[p][parameter] = "",
             SetPartyParameter(parameter, a[parameter], p)
      PROVE  ListsInv'
  <2>1. a \in [name : STRING, mailto : STRING]
    BY FiltersAssumption, ContentAssumption
  <2>2. a[parameter] \in STRING
    <3>1. a.name \in STRING /\ a.mailto \in STRING
      BY <2>1
    <3>2. QED
      BY <3>1
  <2>3. a \in Address
    BY FiltersAssumption
  <2>4. QED
    BY <1>2, <2>2, <2>3, SetPartyParameterKeeps
<1>3. ASSUME NEW media \in Texts, NEW ps \in Seq(Nat), NEW single \in BOOLEAN,
             Range(ps) \subseteq 1 .. Len(parties),
             AddDialogInlineText(ps, single, media)
      PROVE  ListsInv'
  <2>1. /\ TextDialog(ps, single, media) \in Dialog
        /\ TextDialog(ps, single, media).parties = ps
    BY FiltersAssumption DEF TextDialog, Dialog, Kind
  <2>2. /\ dialog' = Added(dialog, TextDialog(ps, single, media))
        /\ UNCHANGED <<parties, analysis, imported>>
    BY <1>3 DEF AddDialogInlineText
  <2>3. QED
    BY <1>3, <2>1, <2>2, AddDialogKeeps
<1>4. ASSUME NEW media \in Recordings, AddDialogRecording(Everybody, media)
      PROVE  ListsInv'
  <2> DEFINE e == [type |-> "recording", parties |-> Everybody,
                   single |-> FALSE, media |-> media]
  <2>1. e \in Dialog /\ e.parties = Everybody
    BY EverybodyFacts, FiltersAssumption DEF Dialog, Kind
  <2>2. /\ dialog' = Added(dialog, e)
        /\ UNCHANGED <<parties, analysis, imported>>
    BY <1>4 DEF AddDialogRecording
  <2> HIDE DEF e
  <2>3. QED
    BY <2>1, <2>2, EverybodyFacts, AddDialogKeeps
<1>5. Everybody # <<>> => <<1>> \in Seq(Nat) /\ Range(<<1>>) \subseteq 1 .. Len(parties)
  <2>1. DOMAIN parties = 1 .. Len(parties) /\ Len(parties) \in Nat
    BY ListsFacts
  <2>2. Range(<<1>>) = {1}
    BY DEF Range
  <2>3. ASSUME Len(parties) = 0 PROVE Everybody = <<>>
    BY <2>1, <2>3 DEF Everybody
  <2>4. QED
    BY <2>1, <2>2, <2>3
<1>6. \A d \in 1 .. Length(dialog) : AddAnalysisTranscript(d) => ListsInv'
  BY AddAnalysisTranscriptKeeps
<1>7. \A m \in Message : AddDialogInlineEmailMessage(m) => ListsInv'
  BY ImportKeeps
<1>8. QED
  BY <1>1, <1>2, <1>3, <1>4, <1>5, <1>6, <1>7, EverybodyFacts DEF ClientStep

-----------------------------------------------------------------------------
\* Analyses are added by the filters

NotAgain(old, new) ==
    /\ old.type = "transcript" /\ new.type = "transcript"
    /\ old.dialog = new.dialog /\ old.schema = new.schema
    => new.vendor = "whisper"

LEMMA AddFacts ==
  ASSUME ListsInv, NEW elements \in Seq(Analysis), Add(elements)
  PROVE  /\ UNCHANGED <<parties, dialog, imported>>
         /\ analysis' \in Seq(Analysis) \cup {Absent}
         /\ Length(analysis') = Length(analysis) + Len(elements)
         /\ Longer(analysis', analysis)
         /\ \A i \in 1 .. Len(elements) :
               analysis'[Length(analysis) + i] = elements[i]
<1>1. /\ UNCHANGED <<parties, dialog, imported>>
      /\ analysis' = IF elements = <<>> THEN analysis
                     ELSE IF analysis = Absent THEN elements
                     ELSE analysis \o elements
  BY DEF Add
<1>2. /\ analysis \in Seq(Analysis) \cup {Absent} /\ Absent \notin Seq(Analysis)
      /\ Length(analysis) \in Nat /\ Len(elements) \in Nat
      /\ analysis # Absent => analysis \in Seq(Analysis) /\ Length(analysis) = Len(analysis)
  BY ListsFacts
<1>3. CASE elements = <<>>
  <2>1. analysis' = analysis /\ Len(elements) = 0
    BY <1>1, <1>3
  <2>2. QED
    BY <1>1, <1>2, <2>1 DEF Longer
<1>4. CASE elements # <<>> /\ analysis = Absent
  <2>1. analysis' = elements /\ Length(analysis) = 0
    BY <1>1, <1>4 DEF Length
  <2>2. elements # Absent /\ Length(elements) = Len(elements)
    BY <1>2 DEF Length
  <2>3. Length(analysis') = Len(elements)
    BY <2>1, <2>2
  <2>4. Longer(analysis', analysis)
    BY ONLY <1>2, <2>1, <2>3 DEF Longer
  <2>5. \A i \in 1 .. Len(elements) : Length(analysis) + i = i
    BY ONLY <2>1, <1>2
  <2>6. QED
    BY <1>1, <1>2, <2>1, <2>3, <2>4, <2>5
<1>5. CASE elements # <<>> /\ analysis # Absent
  <2>1. /\ analysis' = analysis \o elements
        /\ analysis \in Seq(Analysis) /\ Length(analysis) = Len(analysis)
    BY <1>1, <1>2, <1>5
  <2>2. /\ analysis \o elements \in Seq(Analysis)
        /\ Len(analysis \o elements) = Len(analysis) + Len(elements)
        /\ \A i \in 1 .. Len(analysis) : (analysis \o elements)[i] = analysis[i]
        /\ \A i \in 1 .. Len(elements) : (analysis \o elements)[Len(analysis) + i] = elements[i]
    <3>1. \A i \in 1 .. Len(analysis) : (analysis \o elements)[i] = analysis[i]
      BY <2>1
    <3>2. \A i \in 1 .. Len(elements) : (analysis \o elements)[Len(analysis) + i] = elements[i]
      BY <2>1
    <3>3. QED
      BY <2>1, <3>1, <3>2
  <2>3. Length(analysis') = Len(analysis')
    BY <1>2, <2>1, <2>2 DEF Length
  <2>4. QED
    BY <1>1, <1>2, <2>1, <2>2, <2>3 DEF Longer
<1>6. QED
  BY <1>3, <1>4, <1>5

LEMMA AddKeeps ==
  ASSUME ListsInv, NEW elements \in Seq(Analysis), Add(elements),
         \A i \in 1 .. Len(elements) :
            /\ Labelled(elements[i])
            /\ Range(elements[i].dialog) \subseteq 1 .. Length(dialog)
            /\ \A j \in 1 .. Length(analysis) : NotAgain(analysis[j], elements[i])
            /\ \A j \in 1 .. i - 1 : NotAgain(elements[j], elements[i])
            /\ \A s \in elements[i].sources :
                  /\ s \in 1 .. Length(analysis)
                  /\ analysis[s].type = "transcript"
                  /\ Range(analysis[s].dialog) \subseteq Range(elements[i].dialog)
  PROVE  ListsInv'
<1> DEFINE n == Length(analysis)
<1>1. /\ UNCHANGED <<parties, dialog, imported>>
      /\ analysis' \in Seq(Analysis) \cup {Absent}
      /\ Length(analysis') = n + Len(elements)
      /\ Longer(analysis', analysis)
      /\ \A i \in 1 .. Len(elements) : analysis'[n + i] = elements[i]
      /\ \A j \in 1 .. n : analysis'[j] = analysis[j]
      /\ n \in Nat /\ Len(elements) \in Nat
  BY AddFacts, ListsFacts DEF Longer
<1> HIDE DEF n
<1>2. ASSUME NEW k \in 1 .. Length(analysis'), k > n
      PROVE  Fits(analysis[k], k)'
  <2> DEFINE i == k - n
             e == elements[i]
  <2>1. i \in 1 .. Len(elements) /\ k = n + i
    BY <1>1, <1>2
  <2>2. analysis'[k] = e
    BY <1>1, <2>1
  <2>3. /\ Labelled(e) /\ Range(e.dialog) \subseteq 1 .. Length(dialog')
    <3>1. Length(dialog') = Length(dialog)
      BY <1>1
    <3>2. QED
      BY <2>1, <3>1
  <2>4. ASSUME NEW j \in 1 .. k - 1 PROVE NotAgain(analysis'[j], e)
    <3>1. CASE j \in 1 .. n
      BY <1>1, <2>1, <3>1 DEF n
    <3>2. CASE j \notin 1 .. n
      <4> DEFINE h == j - n
      <4>1. h \in 1 .. i - 1 /\ h \in 1 .. Len(elements) /\ j = n + h
        BY <1>1, <2>1, <3>2
      <4>2. analysis'[j] = elements[h]
        BY <1>1, <4>1
      <4>3. QED
        BY <2>1, <4>1, <4>2
    <3>3. QED
      BY <3>1, <3>2
  <2>5. ASSUME NEW s \in e.sources
        PROVE  /\ s \in 1 .. k - 1
               /\ analysis'[s].type = "transcript"
               /\ Range(analysis'[s].dialog) \subseteq Range(e.dialog)
    <3>1. /\ s \in 1 .. n
          /\ analysis[s].type = "transcript"
          /\ Range(analysis[s].dialog) \subseteq Range(e.dialog)
      BY <2>1 DEF n
    <3>2. s \in 1 .. k - 1
      BY <1>1, <2>1, <3>1
    <3>3. QED
      BY <1>1, <3>1, <3>2
  <2> HIDE DEF e, i
  <2>6. QED
    BY <2>2, <2>3, <2>4, <2>5 DEF Fits, NotAgain, Length
<1>3. QED
  BY <1>1, <1>2, AnalysisGrows DEF n

\* What the filters have done stays done.
LEMMA StaysDone ==
  ASSUME ListsInv, UNCHANGED dialog, Longer(analysis', analysis),
         Length(analysis') \in Nat
  PROVE  /\ \A d, labels : TranscriptsOf(d, labels) \subseteq TranscriptsOf(d, labels)'
         /\ \A filter, outputs, d :
               Done(filter, outputs, d) => Done(filter, outputs, d)'
         /\ \A filter, outputs, asked, todo :
               LeftBehind(filter, outputs, asked, todo) =>
                   LeftBehind(filter, outputs, asked, todo)'
         /\ \A s, asked : SourceOf(s, asked) => SourceOf(s, asked)'
         /\ \A c : CallInv(c) => CallInv(c)'
<1>1. /\ Length(analysis) \in Nat
      /\ \A k \in 1 .. Length(analysis) :
            k \in 1 .. Length(analysis') /\ analysis'[k] = analysis[k]
  BY ListsFacts DEF Longer
<1>2. ASSUME NEW d, NEW labels
      PROVE  TranscriptsOf(d, labels) \subseteq TranscriptsOf(d, labels)'
  BY <1>1 DEF TranscriptsOf, Length
<1>3. ASSUME NEW filter, NEW outputs, NEW d, Done(filter, outputs, d)
      PROVE  Done(filter, outputs, d)'
  <2>1. \A labels : TranscriptsOf(d, labels) # {} => TranscriptsOf(d, labels)' # {}
    BY <1>2
  <2>2. QED
    BY <1>3, <2>1 DEF Done
<1>4. ASSUME NEW filter, NEW outputs, NEW asked, NEW todo,
             LeftBehind(filter, outputs, asked, todo)
      PROVE  LeftBehind(filter, outputs, asked, todo)'
  BY <1>3, <1>4 DEF LeftBehind, Length
<1>5. ASSUME NEW s, NEW asked, SourceOf(s, asked)
      PROVE  SourceOf(s, asked)'
  BY <1>1, <1>5 DEF SourceOf, Length
<1>6. ASSUME NEW c, CallInv(c) PROVE CallInv(c)'
  <2>1. LeftBehind(c.filter, c.outputs, c.asked, c.todo)'
    BY <1>4, <1>6 DEF CallInv
  <2>2. \A s \in c.sources : SourceOf(s, c.asked)'
    BY <1>5, <1>6 DEF CallInv
  <2>3. QED
    BY <1>6, <2>1, <2>2 DEF CallInv
<1>7. QED
  BY <1>2, <1>3, <1>4, <1>5, <1>6

-----------------------------------------------------------------------------
\* The calls under way

InnerInv == /\ calls \in Seq(CallSet) /\ Len(calls) \in Nat
            /\ Len(calls) \in 1 .. Len(calls)
            /\ inner = calls[Len(calls)]
            /\ inner \in CallSet /\ CallInv(inner)

LEMMA InnerFacts ==
  ASSUME FiltersInv, calls # <<>>
  PROVE  InnerInv /\ dialog # Absent /\ reply = NoReply
<1>1. /\ calls \in Seq(CallSet)
      /\ \A i \in 1 .. Len(calls) : CallInv(calls[i])
      /\ dialog # Absent /\ reply = NoReply
  BY DEF FiltersInv, CallsInv
<1>2. Len(calls) \in Nat /\ Len(calls) \in 1 .. Len(calls)
  BY <1>1
<1>3. inner = calls[Len(calls)]
  BY DEF inner, Last
<1>4. inner \in CallSet /\ CallInv(inner)
  BY <1>1, <1>2, <1>3
<1>5. QED
  BY <1>1, <1>2, <1>3, <1>4 DEF InnerInv

LEMMA HereFacts ==
  ASSUME FiltersInv, calls # <<>>, inner.todo # <<>>
  PROVE  /\ inner.todo \in Seq(Nat) /\ here \in Nat
         /\ here \in Range(inner.asked)
         /\ InRange <=> here \in 1 .. Length(dialog)
         /\ InRange => dialog[here] \in Dialog
         /\ Tail(inner.todo) \in Seq(Nat)
         /\ Range(inner.todo) = {here} \cup Range(Tail(inner.todo))
<1> DEFINE todo == inner.todo
<1>1. todo \in Seq(Nat) /\ Range(todo) \subseteq Range(inner.asked)
  BY InnerFacts DEF InnerInv, CallSet, CallInv
<1>2. here = Head(todo) /\ todo # <<>>
  BY DEF here
<1>3. dialog \in Seq(Dialog) /\ Length(dialog) = Len(dialog)
  BY InnerFacts, ListsFacts DEF FiltersInv
<1> HIDE DEF todo
<1>4. /\ Head(todo) = todo[1] /\ Len(todo) \in Nat /\ Len(todo) >= 1
      /\ Tail(todo) \in Seq(Nat) /\ Len(Tail(todo)) = Len(todo) - 1
      /\ \A i \in 1 .. Len(todo) - 1 : Tail(todo)[i] = todo[i + 1]
  BY <1>1, <1>2
<1>5. /\ DOMAIN todo = 1 .. Len(todo) /\ DOMAIN Tail(todo) = 1 .. Len(todo) - 1
  BY <1>1, <1>4
<1>6. Range(todo) = {todo[1]} \cup Range(Tail(todo))
  <2>1. ASSUME NEW x \in Range(todo), x # todo[1]
        PROVE  x \in Range(Tail(todo))
    <3>1. PICK i \in 1 .. Len(todo) : x = todo[i]
      BY <1>5, <2>1 DEF Range
    <3>2. i - 1 \in 1 .. Len(todo) - 1 /\ (i - 1) + 1 = i
      BY <1>4, <2>1, <3>1
    <3>3. Tail(todo)[i - 1] = todo[i]
      BY <1>4, <3>2
    <3>4. QED
      BY <1>5, <3>1, <3>2, <3>3 DEF Range
  <2>2. ASSUME NEW x \in Range(Tail(todo)) PROVE x \in Range(todo)
    <3>1. PICK i \in 1 .. Len(todo) - 1 : x = Tail(todo)[i]
      BY <1>5, <2>2 DEF Range
    <3>2. i + 1 \in 1 .. Len(todo)
      BY <1>4
    <3>3. x = todo[i + 1]
      BY <1>4, <3>1
    <3>4. QED
      BY <1>5, <3>2, <3>3 DEF Range
  <2>3. todo[1] \in Range(todo)
    <3>1. 1 \in 1 .. Len(todo)
      BY <1>4
    <3>2. QED
      BY <1>5, <3>1 DEF Range
  <2>4. QED
    BY <2>1, <2>2, <2>3
<1>7. todo[1] \in Nat /\ todo[1] \in Range(todo)
  BY <1>1, <1>4, <1>6
<1>8. QED
  BY <1>1, <1>2, <1>3, <1>4, <1>6, <1>7 DEF InRange, todo

\* What a turn of the innermost call leaves as it is, or extends.
Grew == /\ UNCHANGED dialog
        /\ Longer(analysis', analysis) /\ Length(analysis') \in Nat

LEMMA NothingGrew ==
  ASSUME ListsInv, UNCHANGED contentVars
  PROVE  ListsInv' /\ Grew
<1>1. Length(analysis) \in Nat /\ UNCHANGED <<parties, dialog, analysis, imported>>
  BY ListsFacts DEF contentVars
<1>2. Grew
  BY <1>1 DEF Grew, Longer
<1>3. ListsInv'
  <2>1. ReferencesExist' /\ TranscribedOnce' /\ SummaryRestsOnItsDialogs'
    BY <1>1 DEF ListsInv, ReferencesExist, TranscribedOnce, Length,
                SummaryRestsOnItsDialogs
  <2>2. \A im : TakePart(im) => TakePart(im)'
    BY <1>1 DEF TakePart
  <2>3. (FromAddresses(parties))'
    BY <1>1 DEF ListsInv, FromAddresses
  <2>4. QED
    BY <1>1, <2>1, <2>2, <2>3 DEF ListsInv, Length
<1>4. QED
  BY <1>2, <1>3

\* One dialog less to do, as the work on it is done.
LEMMA NextDialogKeeps ==
  ASSUME FiltersInv, ListsInv', Grew, calls # <<>>, inner.todo # <<>>, InRange,
         NEW texts \in SUBSET Nat, NEW sources \in SUBSET Nat,
         NextDialog(texts, sources),
         NEW c, c = inner, NEW d, d = here,
         Done(c.filter, c.outputs, d)',
         \A s \in sources : SourceOf(s, c.asked)'
  PROVE  FiltersInv'
<1> DEFINE tail == Tail(c.todo)
           next == [c EXCEPT !.todo = tail, !.transcribed = FALSE,
                             !.texts = c.texts \cup texts,
                             !.sources = c.sources \cup sources]
<1>1. /\ calls \in Seq(CallSet) /\ Len(calls) \in Nat
      /\ Len(calls) \in 1 .. Len(calls) /\ calls[Len(calls)] = c
      /\ c \in CallSet /\ CallInv(c)
      /\ dialog # Absent /\ reply = NoReply
  BY InnerFacts DEF InnerInv
<1>2. /\ tail \in Seq(Nat) /\ d \in 1 .. Length(dialog)
      /\ Range(c.todo) = {d} \cup Range(tail)
  BY HereFacts
<1>3. UNCHANGED reply /\ calls' = [calls EXCEPT ![Len(calls)] = next]
  BY DEF NextDialog
<1>4. /\ next \in CallSet
      /\ next.filter = c.filter /\ next.outputs = c.outputs
      /\ next.asked = c.asked /\ next.todo = tail
      /\ next.sources = c.sources \cup sources
  <2> HIDE DEF tail
  <2>1. QED
    BY <1>1, <1>2 DEF CallSet
<1> HIDE DEF next, tail
<1>5. \A x : CallInv(x) => CallInv(x)'
  BY StaysDone DEF Grew, FiltersInv
<1>6. CallInv(next)'
  <2>1. Range(tail) \subseteq Range(c.asked)
    BY <1>1, <1>2 DEF CallInv
  <2>2. CallInv(c)'
    BY <1>1, <1>5
  <2>3. ASSUME NEW x \in Range(c.asked)
        PROVE  x \in Range(tail) \/
                 (x \in 1 .. Length(dialog') /\ Done(c.filter, c.outputs, x)')
    <3>1. x \in Range(c.todo) \/
            (x \in 1 .. Length(dialog') /\ Done(c.filter, c.outputs, x)')
      BY <2>2 DEF CallInv, LeftBehind, Length
    <3>2. d \in 1 .. Length(dialog')
      BY <1>2 DEF Grew
    <3>3. QED
      BY <1>2, <3>1, <3>2
  <2>4. LeftBehind(next.filter, next.outputs, next.asked, next.todo)'
    BY <1>4, <2>3 DEF LeftBehind, Length
  <2>5. \A x \in next.sources : SourceOf(x, next.asked)'
    BY <1>4, <2>2 DEF CallInv
  <2>6. QED
    BY <1>4, <2>1, <2>4, <2>5 DEF CallInv
<1>7. /\ calls' \in Seq(CallSet) /\ Len(calls') = Len(calls)
      /\ \A a \in 1 .. Len(calls) :
            calls'[a] = IF a = Len(calls) THEN next ELSE calls[a]
  BY <1>1, <1>3, <1>4, ExceptSeq
<1>8. \A a \in 1 .. Len(calls') : CallInv(calls[a])'
  <2>1. ASSUME NEW a \in 1 .. Len(calls) PROVE CallInv(calls[a])'
    <3>1. CASE a = Len(calls)
      BY <1>6, <1>7, <3>1
    <3>2. CASE a # Len(calls)
      <4>1. CallInv(calls[a])
        BY DEF FiltersInv, CallsInv
      <4>2. QED
        BY <1>5, <1>7, <3>2, <4>1
    <3>3. QED
      BY <3>1, <3>2
  <2>2. QED
    BY <1>7, <2>1
<1>9. CallsInv' /\ ReplyInv'
  <2>1. dialog' # Absent /\ reply' = NoReply
    BY <1>1, <1>3 DEF Grew
  <2>2. ReplyInv'
    BY <2>1 DEF ReplyInv, NoReply
  <2>3. QED
    BY <1>7, <1>8, <2>1, <2>2 DEF CallsInv
<1>10. QED
  BY <1>9 DEF FiltersInv

LEMMA RaiseKeeps ==
  ASSUME ListsInv', NEW status, status # "ok", Raise(status)
  PROVE  FiltersInv'
<1>1. calls' = <<>> /\ reply'.status # "ok"
  BY DEF Raise, Reply
<1>2. calls' \in Seq(CallSet) /\ Len(calls') = 0
  BY <1>1
<1>3. CallsInv' /\ ReplyInv'
  BY <1>1, <1>2 DEF CallsInv, ReplyInv
<1>4. QED
  BY <1>3 DEF FiltersInv

\* A call that has no dialog left has done its work on all of them.
LEMMA ReturnKeeps ==
  ASSUME FiltersInv, ListsInv', Grew, calls # <<>>, inner.todo = <<>>, Return
  PROVE  FiltersInv'
<1>0. PICK c : c = inner
  OBVIOUS
<1>1. /\ calls \in Seq(CallSet) /\ Len(calls) \in Nat
      /\ Len(calls) \in 1 .. Len(calls)
      /\ c \in CallSet /\ CallInv(c)
      /\ dialog # Absent /\ reply = NoReply
      /\ c.todo = <<>>
  BY <1>0, InnerFacts DEF InnerInv
<1>2. /\ calls' = Front(calls)
      /\ reply' = IF Len(calls) = 1 THEN Reply("ok", c) ELSE reply
  BY <1>0 DEF Return
<1>3. \A x : CallInv(x) => CallInv(x)'
  BY StaysDone DEF Grew, FiltersInv
<1>4. Front(calls) = [i \in 1 .. Len(calls) - 1 |-> calls[i]]
  <2>1. Front(calls) = SubSeq(calls, 1, Len(calls) - 1)
    BY DEF Front
  <2>2. QED
    BY <1>1, <2>1
<1>5. /\ calls' \in Seq(CallSet) /\ Len(calls') = Len(calls) - 1
      /\ \A i \in 1 .. Len(calls') : i \in 1 .. Len(calls) /\ calls'[i] = calls[i]
  BY <1>1, <1>2, <1>4
<1>6. \A i \in 1 .. Len(calls') : CallInv(calls[i])'
  <2>1. \A i \in 1 .. Len(calls) : CallInv(calls[i])
    BY DEF FiltersInv, CallsInv
  <2>2. QED
    BY <1>3, <1>5, <2>1
<1>7. CASE Len(calls) = 1
  <2>1. calls' = <<>>
    BY <1>5, <1>7
  <2>2. CallInv(c)'
    BY <1>1, <1>3
  <2>3. /\ reply'.filter = c.filter /\ reply'.outputs = c.outputs
        /\ reply'.asked = c.asked
    BY <1>2, <1>7 DEF Reply
  <2>4. ReplyInv'
    BY <1>1, <2>2, <2>3 DEF ReplyInv, CallInv, CallSet, LeftBehind
  <2>5. CallsInv'
    BY <1>5, <1>6, <2>1 DEF CallsInv
  <2>6. QED
    BY <2>4, <2>5 DEF FiltersInv
<1>8. CASE Len(calls) # 1
  <2>1. dialog' # Absent /\ reply' = NoReply
    BY <1>1, <1>2, <1>8 DEF Grew
  <2>2. ReplyInv'
    BY <2>1 DEF ReplyInv, NoReply
  <2>3. CallsInv'
    BY <1>5, <1>6, <2>1 DEF CallsInv
  <2>4. QED
    BY <2>2, <2>3 DEF FiltersInv
<1>9. QED
  BY <1>7, <1>8

\* A call that has just begun has everything to do.
LEMMA NewCall ==
  ASSUME NEW filter \in Filter, NEW asked \in Seq(Nat),
         NEW outputs \in SUBSET Range(Output)
  PROVE  /\ Call(filter, asked, outputs) \in CallSet
         /\ CallInv(Call(filter, asked, outputs))'
<1> DEFINE c == Call(filter, asked, outputs)
<1>1. /\ c \in CallSet /\ c.todo = asked /\ c.asked = asked /\ c.sources = {}
  BY DEF Call, CallSet
<1> HIDE DEF c
<1>2. CallInv(c)'
  BY <1>1 DEF CallInv, LeftBehind
<1>3. QED
  BY <1>1, <1>2 DEF c

LEMMA AllDialogs ==
  ASSUME NEW n \in Nat, NEW spec, spec = All \/ spec \in Seq(Nat)
  PROVE  SliceIndices(spec, n) \in Seq(Nat)
<1>1. [i \in 1 .. n |-> i] \in Seq(Nat) /\ <<>> \in Seq(Nat)
  OBVIOUS
<1>2. QED
  BY <1>1 DEF SliceIndices

LEMMA StartKeeps ==
  ASSUME FiltersInv, NEW filter \in Filter, NEW spec \in Lists \cup {All},
         NEW outputs \in Outputs, Start(filter, spec, outputs)
  PROVE  FiltersInv'
<1> DEFINE asked == IF filter \in {"deepgram", "completion"} \ Keyed THEN <<>>
                    ELSE SliceIndices(spec, Len(dialog))
           made == IF outputs = {} THEN Range(Output) ELSE outputs
<1>1. ListsInv' /\ Grew
  BY NothingGrew DEF Start, FiltersInv
<1>2. dialog \in Seq(Dialog)
  BY ListsFacts DEF Start, FiltersInv
<1>3. asked \in Seq(Nat)
  <2>1. Len(dialog) \in Nat /\ <<>> \in Seq(Nat)
    BY <1>2
  <2>2. QED
    BY <2>1, AllDialogs, FiltersAssumption
<1>4. made \in SUBSET Range(Output)
  BY FiltersAssumption
<1>5. PICK c \in CallSet : c = Call(filter, asked, made) /\ CallInv(c)'
  <2> HIDE DEF asked, made
  <2>1. PICK a \in Seq(Nat) : a = asked
    BY <1>3
  <2>2. PICK o \in SUBSET Range(Output) : o = made
    BY <1>4
  <2>3. PICK c : c = Call(filter, a, o)
    OBVIOUS
  <2>4. c \in CallSet /\ CallInv(c)'
    BY <2>3, NewCall
  <2>5. QED
    BY <2>1, <2>2, <2>3, <2>4
<1>6. calls' = <<c>> /\ reply' = NoReply /\ dialog' # Absent
  BY <1>5 DEF Start, contentVars
<1> HIDE DEF asked, made
<1>7. calls' \in Seq(CallSet) /\ Len(calls') = 1 /\ calls'[1] = c
  BY <1>5, <1>6
<1>8. \A i \in 1 .. Len(calls') : CallInv(calls[i])'
  <2>1. \A i \in 1 .. Len(calls') : i = 1
    BY <1>7
  <2>2. QED
    BY <1>5, <1>7, <2>1
<1>9. CallsInv' /\ ReplyInv'
  BY <1>6, <1>7, <1>8 DEF CallsInv, ReplyInv, NoReply
<1>10. QED
  BY <1>1, <1>9 DEF FiltersInv

LEMMA StartWithoutDialogsKeeps ==
  ASSUME FiltersInv, NEW filter \in Filter, StartWithoutDialogs(filter)
  PROVE  FiltersInv'
<1>1. ListsInv' /\ Grew
  BY NothingGrew DEF StartWithoutDialogs, FiltersInv
<1>2. calls' = <<>> /\ reply'.asked = <<>> /\ reply'.outputs = {}
  BY DEF StartWithoutDialogs, Reply, Call
<1>3. CallsInv'
  BY <1>2 DEF CallsInv
<1>4. Range(<<>>) = {}
  BY DEF Range
<1>5. ReplyInv'
  BY <1>2, <1>4 DEF ReplyInv, LeftBehind
<1>6. QED
  BY <1>1, <1>3, <1>5 DEF FiltersInv

LEMMA ClientKeeps ==
  ASSUME FiltersInv, Client(ClientStep)
  PROVE  FiltersInv'
<1>1. ListsInv'
  BY ClientStepKeeps DEF Client, FiltersInv
<1>2. calls' = <<>> /\ reply' = NoReply
  BY DEF Client
<1>3. CallsInv' /\ ReplyInv'
  BY <1>2 DEF CallsInv, ReplyInv, NoReply
<1>4. QED
  BY <1>1, <1>3 DEF FiltersInv

LEMMA TranscribeKeeps ==
  ASSUME FiltersInv, Transcribe
  PROVE  FiltersInv'
<1>a. PICK c : c = inner
  OBVIOUS
<1>b. PICK marked : marked = [c EXCEPT !.transcribed = TRUE]
  OBVIOUS
<1>c. PICK asked : asked = SliceIndices(All, Len(dialog))
  OBVIOUS
<1>d. PICK added : added = Call("whisper", asked, Range(Output))
  OBVIOUS
<1>e. PICK before : before = [calls EXCEPT ![Len(calls)] = marked]
  OBVIOUS
<1>1. ListsInv' /\ Grew
  BY NothingGrew DEF Transcribe, FiltersInv
<1>2. /\ calls \in Seq(CallSet) /\ Len(calls) \in Nat
      /\ Len(calls) \in 1 .. Len(calls) /\ calls[Len(calls)] = c
      /\ c \in CallSet /\ CallInv(c)
      /\ dialog # Absent /\ reply = NoReply
  BY <1>a, InnerFacts DEF InnerInv, Transcribe, InTurn
<1>3. calls' = Append(before, added) /\ reply' = reply /\ UNCHANGED dialog
  BY <1>2, <1>b, <1>c, <1>d, <1>e DEF Transcribe, contentVars
<1>4. /\ marked \in CallSet
      /\ marked.filter = c.filter /\ marked.outputs = c.outputs
      /\ marked.asked = c.asked /\ marked.todo = c.todo
      /\ marked.sources = c.sources
  BY <1>2, <1>b DEF CallSet
<1>5. added \in CallSet /\ CallInv(added)'
  <2>1. Len(dialog) \in Nat
    BY <1>2, ListsFacts DEF FiltersInv
  <2>2. asked \in Seq(Nat)
    BY <1>c, <2>1, AllDialogs
  <2>3. "whisper" \in Filter
    BY DEF Filter
  <2>4. QED
    BY <1>d, <2>2, <2>3, NewCall
<1>6. \A x : CallInv(x) => CallInv(x)'
  BY <1>1, StaysDone DEF Grew, FiltersInv
<1>7. CallInv(marked)'
  <2>1. CallInv(c)'
    BY <1>2, <1>6
  <2>2. QED
    BY <1>4, <2>1 DEF CallInv
<1>8. /\ before \in Seq(CallSet) /\ Len(before) = Len(calls)
      /\ \A a \in 1 .. Len(calls) :
            before[a] = IF a = Len(calls) THEN marked ELSE calls[a]
  BY <1>2, <1>4, <1>e, ExceptSeq
<1>9. /\ calls' \in Seq(CallSet) /\ Len(calls') = Len(calls) + 1
      /\ \A a \in 1 .. Len(calls) : calls'[a] = before[a]
      /\ calls'[Len(calls) + 1] = added
  BY <1>3, <1>5, <1>8, RangeOfAppend
<1>10. ASSUME NEW a \in 1 .. Len(calls') PROVE CallInv(calls[a])'
  <2>1. a \in 1 .. Len(calls) \/ a = Len(calls) + 1
    BY <1>2, <1>9
  <2>2. CASE a = Len(calls) + 1
    BY <1>5, <1>9, <2>2
  <2>3. CASE a \in 1 .. Len(calls) /\ a = Len(calls)
    BY <1>7, <1>8, <1>9, <2>3
  <2>4. CASE a \in 1 .. Len(calls) /\ a # Len(calls)
    <3>1. CallInv(calls[a])
      BY <2>4 DEF FiltersInv, CallsInv
    <3>2. QED
      BY <1>6, <1>8, <1>9, <2>4, <3>1
  <2>5. QED
    BY <2>1, <2>2, <2>3, <2>4
<1>11. CallsInv' /\ ReplyInv'
  BY <1>2, <1>3, <1>9, <1>10 DEF CallsInv, ReplyInv, NoReply
<1>12. QED
  BY <1>1, <1>11 DEF FiltersInv

-----------------------------------------------------------------------------
\* The turns of the filters

LEMMA SkipKeeps ==
  ASSUME FiltersInv, ListsInv', Grew, calls # <<>>, inner.todo # <<>>, InRange,
         Skip, NEW c, c = inner, NEW d, d = here, Done(c.filter, c.outputs, d)'
  PROVE  FiltersInv'
BY NextDialogKeeps DEF Skip

\* The work on a dialog can be done without a change of the vCon.
LEMMA SkipUnchanged ==
  ASSUME FiltersInv, UNCHANGED contentVars, calls # <<>>, inner.todo # <<>>,
         InRange, NEW texts \in SUBSET Nat, NEW sources \in SUBSET Nat,
         NextDialog(texts, sources),
         NEW c, c = inner, NEW d, d = here, Done(c.filter, c.outputs, d),
         \A s \in sources : SourceOf(s, c.asked)
  PROVE  FiltersInv'
<1>1. ListsInv' /\ Grew
  BY NothingGrew DEF FiltersInv
<1>2. /\ Done(c.filter, c.outputs, d)'
      /\ \A s \in sources : SourceOf(s, c.asked)'
  BY <1>1, StaysDone DEF Grew, FiltersInv
<1>3. QED
  BY <1>1, <1>2, NextDialogKeeps

LEMMA RaiseUnchanged ==
  ASSUME FiltersInv, UNCHANGED contentVars,
         NEW status, status # "ok", Raise(status)
  PROVE  FiltersInv'
BY NothingGrew, RaiseKeeps DEF FiltersInv

\* Only the filters that transcribe are to leave something behind.
LEMMA OpenAIDone ==
  ASSUME NEW filter \in OpenAI, NEW outputs, NEW d
  PROVE  Done(filter, outputs, d) /\ Done(filter, outputs, d)'
<1>1. filter # "whisper" /\ filter # "deepgram"
  BY DEF OpenAI
<1>2. QED
  BY <1>1 DEF Done

LEMMA WhisperSkipsKeeps ==
  ASSUME FiltersInv, WhisperSkips
  PROVE  FiltersInv'
<1>1. PICK c : c = inner
  OBVIOUS
<1>2. PICK d : d = here
  OBVIOUS
<1>3. /\ calls # <<>> /\ inner.todo # <<>> /\ InRange
      /\ c.filter = "whisper" /\ NextDialog({}, {}) /\ UNCHANGED contentVars
  BY <1>1 DEF WhisperSkips, InTurn, Skip
<1>4. c.outputs \in SUBSET Range(Output)
  BY <1>1, <1>3, InnerFacts DEF InnerInv, CallSet
<1>5. Done(c.filter, c.outputs, d)
  <2>1. CASE dialog[d].type = "text"
    BY <2>1 DEF Done
  <2>2. CASE dialog[d].media \in {"plain", "other"}
    BY <1>3, <2>2 DEF Done
  <2>3. CASE Missing(d, c.outputs) = <<>>
    BY <1>3, <1>4, <2>3, MissingFacts DEF Done
  <2>4. QED
    BY <1>1, <1>2, <2>1, <2>2, <2>3 DEF WhisperSkips
<1>6. QED
  BY <1>1, <1>2, <1>3, <1>5, SkipUnchanged

LEMMA WhisperIgnoresKeeps ==
  ASSUME FiltersInv, WhisperIgnores
  PROVE  FiltersInv'
<1>1. PICK c : c = inner
  OBVIOUS
<1>2. PICK d : d = here
  OBVIOUS
<1>3. /\ calls # <<>> /\ inner.todo # <<>> /\ InRange
      /\ c.filter = "whisper" /\ UNCHANGED contentVars
      /\ dialog[d].media = "silent"
  BY <1>1, <1>2 DEF WhisperIgnores, InTurn
<1>4. CASE Skip
  <2>1. Done(c.filter, c.outputs, d)
    BY <1>3 DEF Done
  <2>2. NextDialog({}, {})
    BY <1>4 DEF Skip
  <2>3. QED
    BY <1>1, <1>2, <1>3, <2>1, <2>2, SkipUnchanged
<1>5. CASE Raise("service")
  <2>1. "service" # "ok"
    OBVIOUS
  <2>2. QED
    BY <1>3, <1>5, <2>1, RaiseUnchanged
<1>6. QED
  BY <1>4, <1>5 DEF WhisperIgnores

LEMMA DeepgramSkipsKeeps ==
  ASSUME FiltersInv, DeepgramSkips
  PROVE  FiltersInv'
<1>1. PICK c : c = inner
  OBVIOUS
<1>2. PICK d : d = here
  OBVIOUS
<1>3. /\ calls # <<>> /\ inner.todo # <<>> /\ InRange
      /\ c.filter = "deepgram" /\ NextDialog({}, {}) /\ UNCHANGED contentVars
      /\ dialog[d].type = "text" \/ TranscriptsOf(d, Deepgram) # {}
  BY <1>1, <1>2 DEF DeepgramSkips, InTurn, Skip
<1>4. Done(c.filter, c.outputs, d)
  BY <1>3 DEF Done
<1>5. QED
  BY <1>1, <1>2, <1>3, <1>4, SkipUnchanged

LEMMA OpenAISkipsKeeps ==
  ASSUME FiltersInv, OpenAISkips
  PROVE  FiltersInv'
<1>1. PICK c : c = inner
  OBVIOUS
<1>2. PICK d : d = here
  OBVIOUS
<1>3. /\ calls # <<>> /\ inner.todo # <<>> /\ InRange
      /\ c.filter \in OpenAI /\ NextDialog({}, {}) /\ UNCHANGED contentVars
  BY <1>1 DEF OpenAISkips, InTurn, Skip
<1>4. QED
  BY <1>1, <1>2, <1>3, OpenAIDone, SkipUnchanged

\* A transcript of the vendor and schema asked for is found afterwards.
LEMMA TranscriptFound ==
  ASSUME NEW k, NEW d, NEW vendor, NEW schema, NEW labels,
         k \in 1 .. Length(analysis'),
         analysis'[k] = Transcript(d, vendor, schema),
         <<vendor, schema>> \in labels
  PROVE  TranscriptsOf(d, labels)' # {}
<1>1. /\ analysis'[k].type = "transcript" /\ analysis'[k].dialog = <<d>>
      /\ analysis'[k].vendor = vendor /\ analysis'[k].schema = schema
  BY DEF Transcript
<1>2. k \in TranscriptsOf(d, labels)'
  BY <1>1 DEF TranscriptsOf, Length
<1>3. QED
  BY <1>2

\* Where a service's own label was looked for and not found, its transcript is
\* not made again.
LEMMA NewTranscript ==
  ASSUME ListsInv, NEW d \in 1 .. Length(dialog), NEW vendor, NEW schema,
         NEW labels, TranscriptsOf(d, labels) = {},
         \/ /\ vendor = "openai" /\ schema \in Range(Output)
            /\ labels = Labels(schema)
         \/ /\ vendor = "deepgram" /\ schema = "prerecorded"
            /\ labels = Deepgram
  PROVE  LET e == Transcript(d, vendor, schema)
         IN  /\ e \in Analysis
             /\ Labelled(e)
             /\ Range(e.dialog) \subseteq 1 .. Length(dialog)
             /\ \A j \in 1 .. Length(analysis) : NotAgain(analysis[j], e)
             /\ e.sources = {}
             /\ e.schema = schema
<1> DEFINE e == Transcript(d, vendor, schema)
<1>1. /\ e.type = "transcript" /\ e.dialog = <<d>> /\ e.vendor = vendor
      /\ e.schema = schema /\ e.sources = {} /\ Range(e.dialog) = {d}
  BY DEF Transcript, Range
<1>2. Range(Output) = {"timestamps", "srt", "ass"}
  BY DEF Output, Range
<1>3. d \in Nat
  BY ListsFacts
<1>4. e \in Analysis
  BY <1>2, <1>3 DEF Transcript, Analysis
<1> HIDE DEF e
<1>5. ASSUME NEW j \in 1 .. Length(analysis) PROVE NotAgain(analysis[j], e)
  <2> SUFFICES ASSUME analysis[j].type = "transcript",
                      analysis[j].dialog = <<d>>, analysis[j].schema = schema
               PROVE  FALSE
    BY <1>1 DEF NotAgain
  <2>1. Labelled(analysis[j])
    BY DEF ListsInv
  <2>2. <<analysis[j].vendor, schema>> \in labels
    BY <1>2, <2>1 DEF Labelled, Labels, Deepgram
  <2>3. j \in TranscriptsOf(d, labels)
    BY <2>2 DEF TranscriptsOf
  <2>4. QED
    BY <2>3
<1>6. Labelled(e)
  BY <1>1 DEF Labelled
<1>7. QED
  BY <1>1, <1>4, <1>5, <1>6 DEF e

\* Some of the outputs that are missing are made, or all of them.
LEMMA WhisperTranscribesKeeps ==
  ASSUME FiltersInv, WhisperTranscribes
  PROVE  FiltersInv'
<1>1. PICK c : c = inner
  OBVIOUS
<1>2. PICK d : d = here
  OBVIOUS
<1>3. PICK outputs : outputs = c.outputs
  OBVIOUS
<1>4. PICK missing : missing = Missing(d, outputs)
  OBVIOUS
<1>5. /\ calls # <<>> /\ inner.todo # <<>> /\ InRange
      /\ c.filter = "whisper" /\ c.outputs \in SUBSET Range(Output)
      /\ d \in 1 .. Length(dialog) /\ ListsInv
  BY <1>1, <1>2, InnerFacts, HereFacts
     DEF WhisperTranscribes, InTurn, InnerInv, CallSet, FiltersInv
<1>6. /\ missing \in Seq(outputs)
      /\ Range(missing) = {schema \in outputs : TranscriptsOf(d, Labels(schema)) = {}}
      /\ \A i, j \in 1 .. Len(missing) : i # j => missing[i] # missing[j]
  <2>1. outputs \in SUBSET Range(Output)
    BY <1>3, <1>5
  <2>2. /\ Missing(d, outputs) \in Seq(outputs)
        /\ Range(Missing(d, outputs)) =
               {schema \in outputs : TranscriptsOf(d, Labels(schema)) = {}}
        /\ \A i, j \in 1 .. Len(Missing(d, outputs)) :
              i # j => Missing(d, outputs)[i] # Missing(d, outputs)[j]
    BY ONLY <2>1, MissingFacts
  <2>3. QED
    BY ONLY <1>4, <2>2
<1>7. PICK n \in 0 .. Len(missing) :
        /\ Add([k \in 1 .. n |-> Transcript(d, "openai", missing[k])])
        /\ IF n = Len(missing) THEN Skip ELSE Raise("service")
  BY <1>1, <1>2, <1>3, <1>4 DEF WhisperTranscribes
<1>8. PICK elements : elements = [k \in 1 .. n |-> Transcript(d, "openai", missing[k])]
  OBVIOUS
<1>9. /\ Len(missing) \in Nat /\ n \in Nat /\ DOMAIN missing = 1 .. Len(missing)
      /\ \A k \in 1 .. n : k \in 1 .. Len(missing)
  BY <1>6
<1>10. \A k \in 1 .. Len(missing) : /\ missing[k] \in Range(Output)
                                    /\ missing[k] \in outputs
                                    /\ TranscriptsOf(d, Labels(missing[k])) = {}
  <2>1. \A k \in 1 .. Len(missing) : missing[k] \in Range(missing)
    BY <1>9 DEF Range
  <2>2. QED
    BY <1>3, <1>5, <1>6, <2>1
<1>11. \A k \in 1 .. n :
          /\ elements[k] = Transcript(d, "openai", missing[k])
          /\ elements[k] \in Analysis
          /\ Labelled(elements[k])
          /\ Range(elements[k].dialog) \subseteq 1 .. Length(dialog)
          /\ \A j \in 1 .. Length(analysis) : NotAgain(analysis[j], elements[k])
          /\ elements[k].sources = {}
          /\ elements[k].schema = missing[k]
  <2> SUFFICES ASSUME NEW k \in 1 .. n
               PROVE  /\ elements[k] = Transcript(d, "openai", missing[k])
                      /\ elements[k] \in Analysis
                      /\ Labelled(elements[k])
                      /\ Range(elements[k].dialog) \subseteq 1 .. Length(dialog)
                      /\ \A j \in 1 .. Length(analysis) :
                            NotAgain(analysis[j], elements[k])
                      /\ elements[k].sources = {}
                      /\ elements[k].schema = missing[k]
    OBVIOUS
  <2>1. elements[k] = Transcript(d, "openai", missing[k])
    BY <1>8
  <2>2. PICK schema : schema = missing[k]
    OBVIOUS
  <2>3. /\ schema \in Range(Output) /\ TranscriptsOf(d, Labels(schema)) = {}
    BY <1>9, <1>10, <2>2
  <2>4. PICK e : e = Transcript(d, "openai", schema)
    OBVIOUS
  <2>5. /\ e \in Analysis /\ Labelled(e)
        /\ Range(e.dialog) \subseteq 1 .. Length(dialog)
        /\ \A j \in 1 .. Length(analysis) : NotAgain(analysis[j], e)
        /\ e.sources = {} /\ e.schema = schema
    BY <1>5, <2>3, <2>4, NewTranscript
  <2>6. QED
    BY <2>1, <2>2, <2>4, <2>5
<1>12. elements \in Seq(Analysis) /\ Len(elements) = n
  BY <1>8, <1>9, <1>11
<1>13. \A i \in 1 .. n : \A j \in 1 .. i - 1 : NotAgain(elements[j], elements[i])
  <2> SUFFICES ASSUME NEW i \in 1 .. n, NEW j \in 1 .. i - 1
               PROVE  elements[j].schema # elements[i].schema
    BY DEF NotAgain
  <2>1. j \in 1 .. n /\ j # i
    BY <1>9
  <2>2. QED
    BY <1>6, <1>9, <1>11, <2>1
<1>14. ListsInv'
  <2>1. Add(elements)
    BY <1>7, <1>8
  <2>2. QED
    BY <1>5, <1>11, <1>12, <1>13, <2>1, AddKeeps
<1>15. /\ UNCHANGED dialog
       /\ Length(analysis') = Length(analysis) + n
       /\ Longer(analysis', analysis)
       /\ \A i \in 1 .. n : analysis'[Length(analysis) + i] = elements[i]
  <2>1. Add(elements)
    BY <1>7, <1>8
  <2>2. QED
    BY <1>5, <1>12, <2>1, AddFacts
<1>16. Length(analysis) \in Nat /\ Length(analysis') \in Nat
  BY <1>5, <1>9, <1>15, ListsFacts
<1>17. Grew
  BY <1>15, <1>16 DEF Grew
<1>18. CASE n = Len(missing)
  <2>1. ASSUME NEW schema \in outputs
        PROVE  TranscriptsOf(d, Labels(schema))' # {}
    <3>1. CASE TranscriptsOf(d, Labels(schema)) = {}
      <4>1. PICK i \in 1 .. n : schema = missing[i]
        BY <1>6, <1>9, <1>18, <2>1, <3>1 DEF Range
      <4>2. PICK k : k = Length(analysis) + i
        OBVIOUS
      <4>3. k \in 1 .. Length(analysis')
        BY <1>9, <1>15, <1>16, <4>2
      <4>4. analysis'[k] = Transcript(d, "openai", schema)
        BY <1>11, <1>15, <4>1, <4>2
      <4>5. QED
        BY <4>3, <4>4, TranscriptFound DEF Labels
    <3>2. CASE TranscriptsOf(d, Labels(schema)) # {}
      <4>1. PICK labels : labels = Labels(schema)
        OBVIOUS
      <4>2. TranscriptsOf(d, labels) \subseteq TranscriptsOf(d, labels)'
        BY <1>5, <1>15, <1>16, StaysDone
      <4>3. labels = Labels(schema)'
        BY <4>1 DEF Labels
      <4>4. QED
        BY <3>2, <4>1, <4>2 DEF Labels
    <3>3. QED
      BY <3>1, <3>2
  <2>2. Done(c.filter, c.outputs, d)'
    BY <1>3, <1>5, <2>1 DEF Done
  <2>3. QED
    BY <1>1, <1>2, <1>5, <1>7, <1>14, <1>17, <1>18, <2>2, SkipKeeps
<1>19. CASE n # Len(missing)
  <2>1. Raise("service")
    BY <1>7, <1>19
  <2>2. "service" # "ok"
    OBVIOUS
  <2>3. QED
    BY <1>14, <2>1, <2>2, RaiseKeeps
<1>20. QED
  BY <1>18, <1>19

LEMMA DeepgramTranscribesKeeps ==
  ASSUME FiltersInv, DeepgramTranscribes
  PROVE  FiltersInv'
<1>1. PICK c : c = inner
  OBVIOUS
<1>2. PICK d : d = here
  OBVIOUS
<1>3. /\ calls # <<>> /\ inner.todo # <<>> /\ InRange
      /\ c.filter = "deepgram" /\ TranscriptsOf(d, Deepgram) = {}
      /\ d \in 1 .. Length(dialog) /\ ListsInv
  BY <1>1, <1>2, HereFacts DEF DeepgramTranscribes, InTurn, FiltersInv
<1>4. PICK e : e = Transcript(d, "deepgram", "prerecorded")
  OBVIOUS
<1>5. PICK elements : elements = <<e>>
  OBVIOUS
<1>6. /\ e \in Analysis /\ Labelled(e)
      /\ Range(e.dialog) \subseteq 1 .. Length(dialog)
      /\ \A j \in 1 .. Length(analysis) : NotAgain(analysis[j], e)
      /\ e.sources = {}
  BY <1>3, <1>4, NewTranscript
<1>7. elements \in Seq(Analysis) /\ Len(elements) = 1 /\ elements[1] = e
  BY <1>5, <1>6
<1>8. CASE UNCHANGED contentVars /\ Raise("service")
  <2>1. "service" # "ok"
    OBVIOUS
  <2>2. QED
    BY <1>8, <2>1, RaiseUnchanged
<1>9. CASE Add(elements) /\ Skip
  <2>1. /\ UNCHANGED dialog
        /\ Length(analysis') = Length(analysis) + 1
        /\ Longer(analysis', analysis)
        /\ analysis'[Length(analysis) + 1] = e
        /\ Length(analysis) \in Nat
    BY <1>3, <1>7, <1>9, AddFacts, ListsFacts
  <2>2. ListsInv'
    <3>1. \A i \in 1 .. Len(elements) : elements[i] = e /\ 1 .. i - 1 = {}
      BY <1>7
    <3>2. QED
      BY <1>3, <1>6, <1>7, <1>9, <3>1, AddKeeps
  <2>3. PICK k : k = Length(analysis) + 1
    OBVIOUS
  <2>4. k \in 1 .. Length(analysis') /\ Length(analysis') \in Nat
    BY <2>1, <2>3
  <2>5. TranscriptsOf(d, Deepgram)' # {}
    BY <1>4, <2>1, <2>3, <2>4, TranscriptFound DEF Deepgram
  <2>6. Done(c.filter, c.outputs, d)'
    BY <1>3, <2>5 DEF Done
  <2>7. Grew
    BY <2>1, <2>4 DEF Grew
  <2>8. QED
    BY <1>1, <1>2, <1>3, <1>9, <2>2, <2>6, <2>7, SkipKeeps
<1>10. \/ Add(<<Transcript(here, "deepgram", "prerecorded")>>) /\ Skip
       \/ UNCHANGED contentVars /\ Raise("service")
  BY DEF DeepgramTranscribes
<1>11. elements = <<Transcript(here, "deepgram", "prerecorded")>>
  BY <1>2, <1>4, <1>5
<1>12. QED
  BY <1>8, <1>9, <1>10, <1>11

\* The transcript that the text of a recording is read from.
LEMMA SourcesFacts ==
  ASSUME FiltersInv, calls # <<>>, inner.todo # <<>>, HasText
  PROVE  /\ InRange /\ here \in 1 .. Length(dialog)
         /\ Sources \in SUBSET Nat
         /\ \A s \in Sources : /\ s \in 1 .. Length(analysis)
                               /\ analysis[s].type = "transcript"
                               /\ analysis[s].dialog = <<here>>
<1>1. InRange
  BY DEF HasText, IsText, IsRecording
<1>2. here \in 1 .. Length(dialog)
  BY <1>1, HereFacts
<1>3. Length(analysis) \in Nat
  BY ListsFacts DEF FiltersInv
<1>4. Usable \in SUBSET Nat /\ \A s \in Usable :
          /\ s \in 1 .. Length(analysis) /\ analysis[s].type = "transcript"
          /\ analysis[s].dialog = <<here>>
  BY <1>3 DEF Usable, TranscriptsOf
<1>5. CASE IsText
  BY <1>1, <1>2, <1>5 DEF Sources
<1>6. CASE ~IsText
  <2>1. Usable # {}
    BY <1>6 DEF HasText
  <2>2. \E x \in Usable : \A y \in Usable : x <= y
    BY <1>4, <2>1, Least
  <2>3. Min(Usable) \in Usable
    BY <2>2 DEF Min
  <2>4. Sources = {Min(Usable)}
    BY <1>6 DEF Sources
  <2>5. QED
    BY <1>1, <1>2, <1>4, <2>3, <2>4
<1>7. QED
  BY <1>5, <1>6

\* A summary can be added, of transcripts that are of its dialogs.
LEMMA SummaryKeeps ==
  ASSUME ListsInv, NEW dialogs \in Seq(Nat), NEW sources \in SUBSET Nat,
         Range(dialogs) \subseteq 1 .. Length(dialog),
         \A s \in sources : SourceOf(s, dialogs),
         Add(<<Summary(dialogs, sources)>>)
  PROVE  ListsInv' /\ Grew
<1>1. PICK e : e = Summary(dialogs, sources)
  OBVIOUS
<1>2. PICK elements : elements = <<e>>
  OBVIOUS
<1>3. /\ e.type = "summary" /\ e.dialog = dialogs /\ e.sources = sources
      /\ e \in Analysis
  BY <1>1 DEF Summary, Analysis
<1>4. elements \in Seq(Analysis) /\ Len(elements) = 1 /\ elements[1] = e
  BY <1>2, <1>3
<1>5. Add(elements)
  BY <1>1, <1>2
<1>6. ListsInv'
  <2>1. \A i \in 1 .. Len(elements) : elements[i] = e
    BY <1>4
  <2>2. Labelled(e) /\ \A old : NotAgain(old, e)
    BY <1>3 DEF Labelled, NotAgain
  <2>3. \A s \in e.sources : /\ s \in 1 .. Length(analysis)
                             /\ analysis[s].type = "transcript"
                             /\ Range(analysis[s].dialog) \subseteq Range(e.dialog)
    BY <1>3 DEF SourceOf
  <2>4. Range(e.dialog) \subseteq 1 .. Length(dialog)
    BY <1>3
  <2>5. QED
    BY <1>4, <1>5, <2>1, <2>2, <2>3, <2>4, AddKeeps
<1>7. /\ UNCHANGED dialog
      /\ Length(analysis') = Length(analysis) + 1
      /\ Longer(analysis', analysis)
      /\ Length(analysis) \in Nat
  BY <1>4, <1>5, AddFacts, ListsFacts
<1>8. QED
  BY <1>6, <1>7 DEF Grew

LEMMA CompletionAnswersKeeps ==
  ASSUME FiltersInv, CompletionAnswers
  PROVE  FiltersInv'
<1>1. PICK c : c = inner
  OBVIOUS
<1>2. PICK d : d = here
  OBVIOUS
<1>3. PICK sources : sources = Sources
  OBVIOUS
<1>4. /\ calls # <<>> /\ inner.todo # <<>> /\ HasText
      /\ c.filter \in OpenAI /\ ListsInv
  BY <1>1 DEF CompletionAnswers, InTurn, OpenAI, FiltersInv
<1>5. /\ InRange /\ d \in 1 .. Length(dialog) /\ d \in Nat
      /\ sources \in SUBSET Nat
      /\ \A s \in sources : SourceOf(s, <<d>>)
  BY <1>2, <1>3, <1>4, SourcesFacts, HereFacts DEF SourceOf
<1>6. CASE UNCHANGED contentVars /\ Raise("service")
  <2>1. "service" # "ok"
    OBVIOUS
  <2>2. QED
    BY <1>6, <2>1, RaiseUnchanged
<1>7. CASE UNCHANGED contentVars /\ Skip
  <2>1. NextDialog({}, {})
    BY <1>7 DEF Skip
  <2>2. QED
    BY <1>1, <1>2, <1>4, <1>5, <1>7, <2>1, OpenAIDone, SkipUnchanged
<1>8. CASE Add(<<Summary(<<d>>, sources)>>) /\ Skip
  <2>1. PICK dialogs : dialogs = <<d>>
    OBVIOUS
  <2>2. dialogs \in Seq(Nat) /\ Range(dialogs) = {d}
    BY <1>5, <2>1 DEF Range
  <2>3. Range(dialogs) \subseteq 1 .. Length(dialog)
    BY <1>5, <2>2
  <2>4. ListsInv' /\ Grew
    BY <1>4, <1>5, <1>8, <2>1, <2>2, <2>3, SummaryKeeps
  <2>5. Done(c.filter, c.outputs, d)'
    BY <1>4, OpenAIDone
  <2>6. QED
    BY <1>1, <1>2, <1>4, <1>5, <1>8, <2>4, <2>5, SkipKeeps
<1>9. \/ Add(<<Summary(<<here>>, Sources)>>) /\ Skip
      \/ UNCHANGED contentVars /\ Skip
      \/ UNCHANGED contentVars /\ Raise("service")
  BY DEF CompletionAnswers
<1>10. Summary(<<here>>, Sources) = Summary(<<d>>, sources)
  BY <1>2, <1>3
<1>11. QED
  BY <1>6, <1>7, <1>8, <1>9, <1>10

LEMMA ChatCollectsKeeps ==
  ASSUME FiltersInv, ChatCollects
  PROVE  FiltersInv'
<1>1. PICK c : c = inner
  OBVIOUS
<1>2. PICK d : d = here
  OBVIOUS
<1>3. PICK sources : sources = Sources
  OBVIOUS
<1>4. /\ calls # <<>> /\ inner.todo # <<>> /\ HasText
      /\ c.filter \in OpenAI /\ UNCHANGED contentVars
  BY <1>1 DEF ChatCollects, InTurn, OpenAI
<1>5. /\ InRange /\ d \in Nat /\ d \in Range(c.asked)
      /\ sources \in SUBSET Nat
      /\ \A s \in sources : /\ s \in 1 .. Length(analysis)
                            /\ analysis[s].type = "transcript"
                            /\ analysis[s].dialog = <<d>>
  BY <1>1, <1>2, <1>3, <1>4, SourcesFacts, HereFacts
<1>6. \A s \in sources : SourceOf(s, c.asked)
  <2>1. Range(<<d>>) = {d}
    BY DEF Range
  <2>2. QED
    BY <1>5, <2>1 DEF SourceOf
<1>7. CASE Raise("error")
  <2>1. "error" # "ok"
    OBVIOUS
  <2>2. QED
    BY <1>4, <1>7, <2>1, RaiseUnchanged
<1>8. CASE NextDialog({here}, Sources)
  <2>1. PICK texts \in SUBSET Nat : texts = {here}
    BY <1>2, <1>5
  <2>2. NextDialog(texts, sources)
    BY <1>3, <1>8, <2>1
  <2>3. QED
    BY <1>1, <1>2, <1>4, <1>5, <1>6, <2>2, OpenAIDone, SkipUnchanged
<1>9. QED
  BY <1>7, <1>8 DEF ChatCollects

LEMMA ChatAnswersKeeps ==
  ASSUME FiltersInv, ChatAnswers
  PROVE  FiltersInv'
<1>1. PICK c : c = inner
  OBVIOUS
<1>2. /\ calls # <<>> /\ inner.todo = <<>> /\ c.todo = <<>> /\ ListsInv
      /\ CallInv(c)
  BY <1>1, InnerFacts DEF ChatAnswers, FiltersInv, InnerInv
<1>3. /\ c.asked \in Seq(Nat) /\ c.sources \in SUBSET Nat
      /\ \A s \in c.sources : SourceOf(s, c.asked)
      /\ Range(c.asked) \subseteq 1 .. Length(dialog)
  <2>1. Range(c.todo) = {}
    BY <1>2 DEF Range
  <2>2. QED
    BY <1>2, <2>1 DEF CallInv, CallSet, LeftBehind
<1>4. CASE Add(<<Summary(inner.asked, inner.sources)>>) /\ Return
  <2>1. Add(<<Summary(c.asked, c.sources)>>)
    BY <1>1, <1>4
  <2>2. ListsInv' /\ Grew
    BY <1>2, <1>3, <2>1, SummaryKeeps
  <2>3. QED
    BY <1>2, <1>4, <2>2, ReturnKeeps
<1>5. CASE UNCHANGED contentVars /\ Return
  BY <1>2, <1>5, NothingGrew, ReturnKeeps
<1>6. CASE UNCHANGED contentVars /\ Raise("service")
  <2>1. "service" # "ok"
    OBVIOUS
  <2>2. QED
    BY <1>6, <2>1, RaiseUnchanged
<1>7. QED
  BY <1>4, <1>5, <1>6 DEF ChatAnswers

LEMMA FinishKeeps ==
  ASSUME FiltersInv, Finish
  PROVE  FiltersInv'
<1>1. /\ calls # <<>> /\ inner.todo = <<>> /\ Return /\ UNCHANGED contentVars
      /\ ListsInv
  BY DEF Finish, FiltersInv
<1>2. QED
  BY <1>1, NothingGrew, ReturnKeeps

LEMMA ErrorsKeep ==
  ASSUME FiltersInv,
         NoSuchDialog \/ WhisperRaises \/ DeepgramRaises \/ OpenAIRaises
  PROVE  FiltersInv'
<1>1. Raise("error") /\ UNCHANGED contentVars
  BY DEF NoSuchDialog, WhisperRaises, DeepgramRaises, OpenAIRaises
<1>2. "error" # "ok"
  OBVIOUS
<1>3. QED
  BY <1>1, <1>2, RaiseUnchanged

-----------------------------------------------------------------------------
\* The invariant, and what follows from it

LEMMA FiltersInvInit ==
  ASSUME FiltersInit
  PROVE  FiltersInv
<1>1. /\ parties = <<>> /\ imported = {} /\ calls = <<>> /\ reply = NoReply
      /\ dialog \in {<<>>, Absent} /\ analysis \in {<<>>, Absent}
  BY DEF FiltersInit, ContentInit
<1>2. Length(dialog) = 0 /\ Length(analysis) = 0
  BY <1>1 DEF Length
<1>3. /\ dialog \in Seq(Dialog) \cup {Absent}
      /\ analysis \in Seq(Analysis) \cup {Absent}
      /\ parties \in Seq(Party)
      /\ calls \in Seq(CallSet) /\ Len(calls) = 0
  <2>1. \A S : <<>> \in Seq(S)
    OBVIOUS
  <2>2. Len(<<>>) = 0
    OBVIOUS
  <2>3. dialog \in Seq(Dialog) \cup {Absent} /\ analysis \in Seq(Analysis) \cup {Absent}
    BY <1>1, <2>1
  <2>4. QED
    BY <1>1, <2>1, <2>2, <2>3
<1>4. ReferencesExist /\ TranscribedOnce /\ SummaryRestsOnItsDialogs
  BY <1>2, <1>3 DEF ReferencesExist, TranscribedOnce, SummaryRestsOnItsDialogs
<1>5. ListsInv
  BY <1>1, <1>2, <1>3, <1>4 DEF ListsInv, FromAddresses
<1>6. CallsInv /\ ReplyInv
  BY <1>1, <1>3 DEF CallsInv, ReplyInv, NoReply
<1>7. QED
  BY <1>5, <1>6 DEF FiltersInv

LEMMA TurnKeeps ==
  ASSUME FiltersInv, Turn
  PROVE  FiltersInv'
<1>1. CASE NoSuchDialog \/ WhisperRaises \/ DeepgramRaises \/ OpenAIRaises
  BY <1>1, ErrorsKeep
<1>2. CASE WhisperSkips
  BY <1>2, WhisperSkipsKeeps
<1>3. CASE WhisperTranscribes
  BY <1>3, WhisperTranscribesKeeps
<1>4. CASE DeepgramSkips
  BY <1>4, DeepgramSkipsKeeps
<1>5. CASE DeepgramTranscribes
  BY <1>5, DeepgramTranscribesKeeps
<1>6. CASE Transcribe
  BY <1>6, TranscribeKeeps
<1>7. CASE OpenAISkips
  BY <1>7, OpenAISkipsKeeps
<1>8. CASE CompletionAnswers
  BY <1>8, CompletionAnswersKeeps
<1>9. CASE ChatCollects
  BY <1>9, ChatCollectsKeeps
<1>10. CASE ChatAnswers
  BY <1>10, ChatAnswersKeeps
<1>11. CASE Finish
  BY <1>11, FinishKeeps
<1>12. CASE WhisperIgnores
  BY <1>12, WhisperIgnoresKeeps
<1>13. QED
  BY <1>1, <1>2, <1>3, <1>4, <1>5, <1>6, <1>7, <1>8, <1>9, <1>10, <1>11, <1>12
     DEF Turn

LEMMA FiltersInvNext ==
  ASSUME FiltersInv, [FiltersNext]_filterVars
  PROVE  FiltersInv'
<1>1. CASE Client(ClientStep)
  BY <1>1, ClientKeeps
<1>2. ASSUME NEW filter \in Filter, NEW spec \in Lists \cup {All},
             NEW outputs \in Outputs, Start(filter, spec, outputs)
      PROVE  FiltersInv'
  BY <1>2, StartKeeps
<1>3. ASSUME NEW filter \in Filter, StartWithoutDialogs(filter)
      PROVE  FiltersInv'
  BY <1>3, StartWithoutDialogsKeeps
<1>4. CASE Turn
  BY <1>4, TurnKeeps
<1>5. CASE UNCHANGED filterVars
  <2>1. UNCHANGED contentVars /\ calls' = calls /\ reply' = reply
    BY <1>5 DEF filterVars
  <2>2. ListsInv' /\ Grew
    BY <2>1, NothingGrew DEF FiltersInv
  <2>3. \A x : CallInv(x) => CallInv(x)'
    BY <2>2, StaysDone DEF Grew, FiltersInv
  <2>4. dialog' = dialog
    BY <2>2 DEF Grew
  <2>5. CallsInv'
    BY <2>1, <2>3, <2>4 DEF FiltersInv, CallsInv
  <2>6. \A filter, outputs, asked, todo :
          LeftBehind(filter, outputs, asked, todo) =>
              LeftBehind(filter, outputs, asked, todo)'
    BY <2>2, StaysDone DEF Grew, FiltersInv
  <2>7. ReplyInv'
    BY <2>1, <2>6 DEF FiltersInv, ReplyInv
  <2>8. QED
    BY <2>2, <2>5, <2>7 DEF FiltersInv
<1>6. QED
  BY <1>1, <1>2, <1>3, <1>4, <1>5 DEF FiltersNext

LEMMA FiltersInvariant == FiltersSpec => []FiltersInv
<1>1. FiltersInit => FiltersInv
  BY FiltersInvInit
<1>2. FiltersInv /\ [FiltersNext]_filterVars => FiltersInv'
  BY FiltersInvNext
<1>3. QED
  BY <1>1, <1>2, PTL DEF FiltersSpec

\* No dialog refers to a party and no analysis to a dialog that does not exist,
\* and every element is of its kind, whatever is imported, added, transcribed
\* and summarised, also by filters that fail halfway (vcon/__init__.py and the
\* filter plugins).
THEOREM ReferencesAreGood == FiltersSpec => []ReferencesExist
<1>1. FiltersInv => ReferencesExist
  BY DEF FiltersInv, ListsInv
<1>2. QED
  BY <1>1, FiltersInvariant, PTL

\* Whoever sent or received an imported message, with an address that is not a
\* part of another one, is among the parties of its dialog by this very address
\* or name, and if all of them have such addresses nobody else is, also when
\* parties are added and completed (add_dialog_inline_email_message).
THEOREM PeopleTakePart == FiltersSpec => []ParticipantsAreParties
<1>1. ASSUME FiltersInv PROVE ParticipantsAreParties
  <2> SUFFICES ASSUME NEW im \in imported
               PROVE  LET people == {im.message.from} \cup Range(im.message.to)
                          listed == Range(dialog[im.dialog].parties)
                      IN  /\ \A a \in people : Unmistakable(a) =>
                                \E p \in listed : IsPartyOf(parties[p], a)
                          /\ (\A a \in people : Unmistakable(a)) =>
                                \A p \in listed : \E a \in people :
                                    IsPartyOf(parties[p], a)
    BY DEF ParticipantsAreParties
  <2>1. /\ TakePart(im) /\ FromAddresses(parties)
        /\ im.message \in Message /\ im.dialog \in 1 .. Length(dialog)
    BY <1>1 DEF FiltersInv, ListsInv
  <2>2. Range(dialog[im.dialog].parties) \subseteq 1 .. Len(parties)
    <3>1. Range(dialog[im.dialog].parties) \subseteq DOMAIN parties
      BY <1>1, <2>1 DEF FiltersInv, ListsInv, ReferencesExist
    <3>2. QED
      BY <1>1, <3>1, ListsFacts DEF FiltersInv
  <2>3. {im.message.from} \cup Range(im.message.to) \subseteq Address
    BY <2>1, PeopleAreParties
  <2>4. ASSUME NEW a \in {im.message.from} \cup Range(im.message.to),
               Unmistakable(a), NEW p \in Range(dialog[im.dialog].parties),
               Represents(parties[p], a)
        PROVE  IsPartyOf(parties[p], a)
    BY <2>1, <2>2, <2>3, <2>4, Unmistaken
  <2>5. QED
    BY <2>1, <2>4 DEF TakePart
<1>2. FiltersInv => ParticipantsAreParties
  BY <1>1
<1>3. QED
  BY <1>2, FiltersInvariant, PTL

\* No filter makes a transcript of a dialog that it has made before, whatever
\* was asked for and failed in between (whisper.py, deepgram.py).
THEOREM NoTranscriptTwice == FiltersSpec => []TranscribedOnce
<1>1. FiltersInv => TranscribedOnce
  BY DEF FiltersInv, ListsInv
<1>2. QED
  BY <1>1, FiltersInvariant, PTL

\* A summary rests on transcripts that came before it and are of the dialogs it
\* refers to (openai.py, get_dialog_text).
THEOREM SummariesHaveSources == FiltersSpec => []SummaryRestsOnItsDialogs
<1>1. FiltersInv => SummaryRestsOnItsDialogs
  BY DEF FiltersInv, ListsInv
<1>2. QED
  BY <1>1, FiltersInvariant, PTL

\* A transcription that returns has made all it was asked for, of every
\* recording it was asked about that the service can transcribe; Whisper passes
\* over those with an empty body.
THEOREM TranscriptionIsComplete == FiltersSpec => []ReturnedMeansDone
<1>1. ASSUME FiltersInv PROVE ReturnedMeansDone
  <2> SUFFICES ASSUME reply.status = "ok", NEW d \in Range(reply.asked),
                      dialog[d].type = "recording"
               PROVE  /\ reply.filter = "whisper" /\ dialog[d].media = "audio"
                             => Missing(d, reply.outputs) = <<>>
                      /\ reply.filter = "deepgram"
                             => TranscriptsOf(d, Deepgram) # {}
    BY DEF ReturnedMeansDone
  <2>1. Range(<<>>) = {}
    BY DEF Range
  <2>2. /\ Done(reply.filter, reply.outputs, d)
        /\ reply.outputs \in SUBSET Range(Output)
    BY <1>1, <2>1 DEF FiltersInv, ReplyInv, LeftBehind
  <2>3. QED
    BY <2>2, MissingFacts DEF Done
<1>2. FiltersInv => ReturnedMeansDone
  BY <1>1
<1>3. QED
  BY <1>2, FiltersInvariant, PTL
=============================================================================
