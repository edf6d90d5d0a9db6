---------------------------- MODULE VconContent ----------------------------
(***************************************************************************)
(* The lists of an unsigned vCon and the methods that extend them          *)
(* (vcon/__init__.py): parties, dialog and analysis, which refer to each   *)
(* other by index.  Indices count from 1 here, from 0 in the code.         *)
(*                                                                         *)
(* Setters refuse a vCon that is not UNSIGNED: VconLifecycle models that.  *)
(* A setter that raises before it changes anything is not a step.  Callers *)
(* name parties and dialogs that exist, as the documentation asks; the     *)
(* setters do not check it.  A vCon that was loaded may lack the lists     *)
(* dialog and analysis.                                                    *)
(***************************************************************************)
EXTENDS Naturals, Sequences, SequencesExt

CONSTANTS Address,     \* names and mail addresses: [name, mailto]
          Within,      \* <<s, t>>: the string s occurs in the other string t
          Message,     \* e-mail messages that may be imported
          Absent,      \* a list that the vCon does not have
          MaxParties,  \* bound: elements of parties
          MaxDialogs   \* bound: elements of dialog

\* What a body is by its media type: plain text (alone or as a part), audio that
\* Whisper supports, and such audio of length zero, something else, or none.
Media == {"plain", "audio", "silent", "other", "none"}

\* Nothing but the empty string, of which Within does not speak, occurs in it.
ASSUME ContentAssumption ==
    /\ MaxParties \in Nat /\ MaxDialogs \in Nat
    /\ Address \subseteq [name : STRING, mailto : STRING]
    /\ \A w \in Within : w[2] # ""
    /\ \A m \in Message : /\ m.from \in Address /\ m.to \in Seq(Address)
                          /\ m.media \in Media

VARIABLES subject,   \* whether a subject is set
          parties,
          dialog,
          analysis,
          imported   \* history: where the dialog of an imported message is

contentVars == <<subject, parties, dialog, analysis, imported>>

Kind == {"text", "recording"}

\* single: the caller gave one index and not a list.
Dialog == [type : Kind, parties : Seq(Nat), single : BOOLEAN, media : Media]

\* A transcript or a summary of dialogs.  sources is history: the transcripts
\* that a summary was made from.  The vendor "whisper" is a label of older
\* versions, without a product.
Analysis == [type : {"transcript", "summary"}, dialog : Seq(Nat),
             vendor : {"whisper", "openai", "deepgram"},
             schema : {"timestamps", "srt", "ass", "prerecorded", "text"},
             sources : SUBSET Nat]

ASSUME AbsentAssumption == Absent \notin Seq(Dialog) \cup Seq(Analysis)

Length(list) == IF list = Absent THEN 0 ELSE Len(list)

\* Both add_dialog_... and add_analysis_... start the list if there is none.
Added(list, element) ==
    IF list = Absent THEN <<element>> ELSE Append(list, element)

ContentInit ==
    /\ subject = FALSE
    /\ parties = <<>>
    /\ dialog \in {<<>>, Absent}
    /\ analysis \in {<<>>, Absent}
    /\ imported = {}

-----------------------------------------------------------------------------
\* Parties.

\* part in value, for Python strings.
Occurs(part, value) == part \in {"", value} \/ <<part, value>> \in Within

\* Numbers in ascending order.
InOrder(numbers) ==
    CHOOSE s \in [1 .. Cardinality(numbers) -> numbers] :
        \A i, j \in DOMAIN s : i < j => s[i] < s[j]

\* The indices of the parties whose parameter contains the given string.
FindPartiesByParameter(ps, parameter, part) ==
    InOrder({i \in DOMAIN ps : Occurs(part, ps[i][parameter])})

AddParty(party) ==
    /\ Len(parties) < MaxParties
    /\ parties' = Append(parties, party)
    /\ UNCHANGED <<subject, dialog, analysis, imported>>

\* For a given index; without one it adds a party, which is AddParty.
SetPartyParameter(parameter, value, index) ==
    /\ index \in DOMAIN parties
    /\ parties' = [parties EXCEPT ![index][parameter] = value]
    /\ UNCHANGED <<subject, dialog, analysis, imported>>

-----------------------------------------------------------------------------
\* Dialogs and analysis.

TextDialog(ps, single, media) ==
    [type |-> "text", parties |-> ps, single |-> single, media |-> media]

AddDialogInlineText(ps, single, media) ==
    /\ Length(dialog) < MaxDialogs
    /\ dialog' = Added(dialog, TextDialog(ps, single, media))
    /\ UNCHANGED <<subject, parties, analysis, imported>>

\* Inline with a media type; at a URL, which is not read yet, it is optional.
AddDialogRecording(ps, media) ==
    /\ Length(dialog) < MaxDialogs
    /\ dialog' = Added(dialog, [type |-> "recording", parties |-> ps,
                                single |-> FALSE, media |-> media])
    /\ UNCHANGED <<subject, parties, analysis, imported>>

Transcript(i, vendor, schema) ==
    [type |-> "transcript", dialog |-> <<i>>, vendor |-> vendor,
     schema |-> schema, sources |-> {}]

\* A client's own transcript, under the label of older versions.
AddAnalysisTranscript(i) ==
    /\ \A k \in 1 .. Length(analysis) : analysis[k].dialog # <<i>>
    /\ analysis' = Added(analysis, Transcript(i, "whisper", "timestamps"))
    /\ UNCHANGED <<subject, parties, dialog, imported>>

-----------------------------------------------------------------------------
\* Import of e-mail messages.

\* Mistakes the properties should notice: a known recipient is not listed; the
\* index of a new party is the length of the list after it was added.
FaultyListNewOnly(known, address) ==
    LET found == FindPartiesByParameter(known.parties, "mailto",
                                        address.mailto)
    IN  IF found # <<>> THEN known
        ELSE [known EXCEPT !.parties = Append(@, address),
                           !.indices = Append(@, Len(known.parties) + 1)]

FaultyIndexAfter(known, address) ==
    LET found == FindPartiesByParameter(known.parties, "mailto",
                                        address.mailto)
    IN  IF found # <<>> THEN [known EXCEPT !.indices = @ \o found]
        ELSE [known EXCEPT !.parties = Append(@, address),
                           !.indices = Append(@, Len(known.parties) + 2)]

\* One turn of the loop over the sender and the recipients.  party_index is
\* bound in the branch that adds a party and read in the other one; it is
\* unbound when the sender is known already.
Identify(known, address) ==
    LET byMail == FindPartiesByParameter(known.parties, "mailto",
                                         address.mailto)
        found == IF byMail # <<>> THEN byMail
                 ELSE FindPartiesByParameter(known.parties, "name",
                                             address.name)
    IN  IF known.unbound \/ (found # <<>> /\ known.indices = <<>>)
        THEN [known EXCEPT !.unbound = TRUE]
        ELSE IF found # <<>>
        THEN [known EXCEPT !.indices = @ \o found]
        ELSE [known EXCEPT !.parties = Append(@, address),
                           !.indices = Append(@, Len(known.parties) + 1)]

\* The sender and the recipients, and what is known after that many of them.
People(m) == <<m.from>> \o m.to

Identified(m) ==
    LET known[n \in 0 .. Len(People(m))] ==
            IF n = 0
            THEN [parties |-> parties, indices |-> <<>>, unbound |-> FALSE]
            ELSE Identify(known[n - 1], People(m)[n])
    IN  known[Len(People(m))]

\* The subject and the parties stay when the import fails: on a known sender,
\* or on a message without a date.
AddDialogInlineEmailMessage(m) ==
    LET known == Identified(m) IN
    /\ Len(parties) + Len(m.to) < MaxParties
    /\ Length(dialog) < MaxDialogs
    /\ subject' = (subject \/ m.subject)
    /\ parties' = known.parties
    /\ IF known.unbound \/ ~m.date
       THEN UNCHANGED <<dialog, imported>>
       ELSE /\ dialog' = Added(dialog,
                               TextDialog(known.indices, FALSE, m.media))
            /\ imported' = imported \cup
                   {[message |-> m, dialog |-> Length(dialog) + 1]}
    /\ UNCHANGED analysis

-----------------------------------------------------------------------------

\* The lists have the elements they are to have, and none of these refers to one
\* that does not exist, whatever was imported, transcribed and summarised,
\* completely or not.
ReferencesExist ==
    /\ dialog \in Seq(Dialog) \cup {Absent}
    /\ analysis \in Seq(Analysis) \cup {Absent}
    /\ \A d \in 1 .. Length(dialog) :
           Range(dialog[d].parties) \subseteq DOMAIN parties
    /\ \A k \in 1 .. Length(analysis) :
           Range(analysis[k].dialog) \subseteq 1 .. Length(dialog)

\* The mail address and the display name are part of nobody else's.
Unmistakable(address) ==
    \A other \in Address \ {address} :
        ~Occurs(address.mailto, other.mailto) /\ ~Occurs(address.name, other.name)

IsPartyOf(party, address) ==
    party.mailto = address.mailto \/ party.name = address.name

\* Whoever sent or received an imported message takes part in its dialog, as a
\* party with this very mail address or display name, and when all of them are
\* unmistakable nobody else does, however parties are added and completed
\* between and after imports.  For the others the code's search for a part of a
\* string may list a party that they are not.
ParticipantsAreParties ==
    \A im \in imported :
        LET people == {im.message.from} \cup Range(im.message.to)
            listed == Range(dialog[im.dialog].parties)
        IN  /\ \A a \in people : Unmistakable(a) =>
                   \E p \in listed : IsPartyOf(parties[p], a)
            /\ (\A a \in people : Unmistakable(a)) =>
                   \A p \in listed : \E a \in people : IsPartyOf(parties[p], a)
=============================================================================
