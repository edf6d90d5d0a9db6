---------------------------- MODULE VconFilters ----------------------------
(***************************************************************************)
(* The filter plugins that transcribe and summarise the dialogs of a vCon  *)
(* (filter_plugins/impl/whisper.py, deepgram.py, openai.py), on top of the *)
(* lists of VconContent.                                                   *)
(*                                                                         *)
(* A filter goes through the dialogs it is asked about, one turn per step. *)
(* The services block: no other task runs before the filter returns, but   *)
(* they may fail, and what was added before stays in the vCon.  The OpenAI *)
(* filters ask for the text of a dialog, which transcribes the vCon with   *)
(* Whisper, the default, when there is no transcript: a filter call inside *)
(* a filter call.                                                          *)
(***************************************************************************)
EXTENDS VconContent

CONSTANTS Lists,       \* lists of dialog indices that a caller may ask for
          Outputs,     \* sets of output types that a caller may ask for
          All,         \* asks for every dialog
          Keyed,       \* the filters whose service key is configured
          Invited,     \* addresses of parties that a caller may add
          Texts,       \* media of text dialogs that a caller may add
          Recordings,  \* media of recordings that a caller may add
          MaxAnalyses  \* bound: no filter is called when there are as many

Output == <<"timestamps", "srt", "ass">>

ASSUME FiltersAssumption ==
    /\ Lists \subseteq Seq(Nat)
    /\ Outputs \subseteq SUBSET Range(Output)
    /\ Invited \subseteq Address
    /\ Texts \subseteq Media /\ Recordings \subseteq Media

VARIABLES calls,   \* the filter calls under way, the innermost one last
          reply    \* history: how the last call ended

filterVars == <<contentVars, calls, reply>>

Filter == {"whisper", "deepgram", "completion", "chat"}

\* todo: the dialogs still to visit; transcribed: get_dialog_text has called
\* transcribe for the first of them; texts: the dialogs whose text is
\* collected; sources: the transcripts it came from.
Call(filter, asked, outputs) ==
    [filter |-> filter, asked |-> asked, todo |-> asked, outputs |-> outputs,
     transcribed |-> FALSE, texts |-> {}, sources |-> {}]

\* What is remembered of a call that has ended.
Reply(status, call) ==
    [status |-> status, filter |-> call.filter, asked |-> call.asked,
     outputs |-> call.outputs]

NoReply == [status |-> "none"]

FiltersInit ==
    /\ ContentInit
    /\ calls = <<>>
    /\ reply = NoReply

-----------------------------------------------------------------------------
\* The clients of the vCon, between two filter calls.

Client(step) ==
    /\ calls = <<>>
    /\ step
    /\ reply' = NoReply
    /\ UNCHANGED calls

-----------------------------------------------------------------------------
\* Beginning and end of a call.

\* slice_indices.  A slice yields indices in range, which Lists has as lists.
SliceIndices(spec, n) ==
    IF n = 0 THEN <<>>
    ELSE IF spec = All THEN [i \in 1 .. n |-> i] ELSE spec

OpenAI == {"completion", "chat"}

\* No output type means every one of them.  Without a key, deepgram and
\* completion return the vCon as it is.
Start(filter, spec, outputs) ==
    /\ calls = <<>>
    /\ dialog # Absent
    /\ Length(analysis) < MaxAnalyses
    /\ LET asked == IF filter \in {"deepgram", "completion"} \ Keyed THEN <<>>
                    ELSE SliceIndices(spec, Len(dialog))
       IN  calls' = <<Call(filter, asked,
                           IF outputs = {} THEN Range(Output) ELSE outputs)>>
    /\ reply' = NoReply
    /\ UNCHANGED contentVars

\* The innermost call, and the dialog whose turn it is.
inner == Last(calls)
here == Head(inner.todo)

InTurn(filters) ==
    calls # <<>> /\ inner.filter \in filters /\ inner.todo # <<>>

InRange == here \in DOMAIN dialog

\* The innermost call proceeds with its next dialog.
NextDialog(texts, sources) ==
    /\ LET next == [inner EXCEPT !.todo = Tail(@), !.transcribed = FALSE,
                                 !.texts = @ \cup texts,
                                 !.sources = @ \cup sources]
       IN  calls' = [calls EXCEPT ![Len(calls)] = next]
    /\ UNCHANGED reply

Skip == NextDialog({}, {})

\* An exception leaves every call under way: of a service, or of the code.
Raise(status) ==
    /\ calls' = <<>>
    /\ reply' = Reply(status, calls[1])

Return ==
    /\ calls' = Front(calls)
    /\ reply' = IF Len(calls) = 1 THEN Reply("ok", inner) ELSE reply

\* Without the list of dialogs the transcribers return, the others raise.
StartWithoutDialogs(filter) ==
    /\ calls = <<>>
    /\ dialog = Absent
    /\ reply' = Reply(IF filter \in OpenAI THEN "error" ELSE "ok",
                      Call(filter, <<>>, {}))
    /\ UNCHANGED <<contentVars, calls>>

\* A list of indices is not checked: IndexError in the turn of the dialog.
NoSuchDialog ==
    /\ InTurn(Filter)
    /\ ~InRange
    /\ Raise("error")
    /\ UNCHANGED contentVars

-----------------------------------------------------------------------------
\* Transcripts.

\* A mistake the properties should notice: the dialog is not compared.
FaultyTranscriptsOfAny(d, labels) ==
    {k \in 1 .. Length(analysis) :
        /\ analysis[k].type = "transcript"
        /\ <<analysis[k].vendor, analysis[k].schema>> \in labels}

\* The positions of the transcripts of dialog d under one of the labels.
TranscriptsOf(d, labels) ==
    {k \in 1 .. Length(analysis) :
        /\ analysis[k].type = "transcript"
        /\ analysis[k].dialog = <<d>>
        /\ <<analysis[k].vendor, analysis[k].schema>> \in labels}

\* One by one, which starts the list if there is none.
Add(elements) ==
    /\ analysis' = IF elements = <<>> THEN analysis
                   ELSE IF analysis = Absent THEN elements
                   ELSE analysis \o elements
    /\ UNCHANGED <<subject, parties, dialog, imported>>

\* The labels that whisper takes for its own, of this version and before.
Labels(schema) == {<<"openai", schema>>, <<"whisper", schema>>}

\* Outputs in the order they are made.
InTurns(outputs) ==
    LET turns == InOrder({i \in DOMAIN Output : Output[i] \in outputs})
    IN  [n \in DOMAIN turns |-> Output[turns[n]]]

\* A mistake: all asked outputs are made again when one of them is missing.
FaultyMissingAllOrNone(d, outputs) ==
    IF \A schema \in outputs : TranscriptsOf(d, Labels(schema)) # {} THEN <<>>
    ELSE InTurns(outputs)

\* The outputs that dialog d still lacks.
Missing(d, outputs) ==
    InTurns({schema \in outputs : TranscriptsOf(d, Labels(schema)) = {}})

\* A recording without a media type ends the call, as does a vCon without the
\* list of analyses.
WhisperRaises ==
    /\ InTurn({"whisper"}) /\ InRange
    /\ dialog[here].type = "recording"
    /\ analysis = Absent \/ dialog[here].media = "none"
    /\ Raise("error")
    /\ UNCHANGED contentVars

WhisperSkips ==
    /\ InTurn({"whisper"}) /\ InRange
    /\ \/ dialog[here].type = "text"
       \/ /\ analysis # Absent
          /\ \/ dialog[here].media \in {"plain", "other"}
             \/ /\ dialog[here].media \in {"audio", "silent"}
                /\ Missing(here, inner.outputs) = <<>>
    /\ Skip
    /\ UNCHANGED contentVars

\* A mistake: a conversion that fails is passed over.
FaultyWhisperPassesOver ==
    /\ InTurn({"whisper"}) /\ InRange
    /\ dialog[here].type = "recording" /\ dialog[here].media = "audio"
    /\ analysis # Absent
    /\ LET missing == Missing(here, inner.outputs) IN
       /\ missing # <<>>
       /\ \E n \in 0 .. Len(missing) :
              /\ Add([k \in 1 .. n |-> Transcript(here, "openai", missing[k])])
              /\ Skip

\* Getting the body, the model and the conversions may fail: then the outputs
\* made before are in the vCon.
WhisperTranscribes ==
    /\ InTurn({"whisper"}) /\ InRange
    /\ dialog[here].type = "recording" /\ dialog[here].media = "audio"
    /\ analysis # Absent
    /\ LET missing == Missing(here, inner.outputs) IN
       /\ missing # <<>>
       /\ \E n \in 0 .. Len(missing) :
              /\ Add([k \in 1 .. n |-> Transcript(here, "openai", missing[k])])
              /\ IF n = Len(missing) THEN Skip ELSE Raise("service")

\* An empty body is passed over without a transcript, if it can be had at all:
\* it may be that of a URL.
WhisperIgnores ==
    /\ InTurn({"whisper"}) /\ InRange
    /\ dialog[here].type = "recording" /\ dialog[here].media = "silent"
    /\ analysis # Absent
    /\ Missing(here, inner.outputs) # <<>>
    /\ Skip \/ Raise("service")
    /\ UNCHANGED contentVars

Deepgram == {<<"deepgram", "prerecorded">>}

DeepgramRaises ==
    /\ InTurn({"deepgram"}) /\ InRange
    /\ dialog[here].type = "recording"
    /\ \/ analysis = Absent
       \/ TranscriptsOf(here, Deepgram) = {} /\ dialog[here].media = "none"
    /\ Raise("error")
    /\ UNCHANGED contentVars

DeepgramSkips ==
    /\ InTurn({"deepgram"}) /\ InRange
    /\ \/ dialog[here].type = "text"
       \/ analysis # Absent /\ TranscriptsOf(here, Deepgram) # {}
    /\ Skip
    /\ UNCHANGED contentVars

DeepgramTranscribes ==
    /\ InTurn({"deepgram"}) /\ InRange
    /\ dialog[here].type = "recording" /\ dialog[here].media # "none"
    /\ analysis # Absent
    /\ TranscriptsOf(here, Deepgram) = {}
    /\ \/ Add(<<Transcript(here, "deepgram", "prerecorded")>>) /\ Skip
       \/ UNCHANGED contentVars /\ Raise("service")

-----------------------------------------------------------------------------
\* The text of a dialog, as get_dialog_text finds it.

\* The labels for which there is an accessor.
Accessors == Labels("timestamps") \cup Deepgram

Usable == TranscriptsOf(here, Accessors)

IsText == InRange /\ dialog[here].type = "text"
IsRecording == InRange /\ dialog[here].type = "recording"

\* No media type, no list of parties; no list of analyses; a transcript of an
\* older version, whose product the accessor's key is looked up with.
TextRaises ==
    \/ /\ IsText
       /\ dialog[here].single \/ dialog[here].parties = <<>> \/ dialog[here].media = "none"
    \/ IsRecording /\ analysis = Absent
    \/ /\ IsRecording /\ Usable # {}
       /\ analysis[Min(Usable)].vendor = "whisper"

HasText ==
    /\ ~TextRaises
    /\ \/ IsText /\ dialog[here].media = "plain"
       \/ IsRecording /\ Usable # {}

\* transcribe is called without looking at find_transcript and
\* generate_transcript, and for every dialog of the vCon.
Transcribe ==
    /\ InTurn(OpenAI) /\ IsRecording
    /\ ~TextRaises /\ Usable = {} /\ ~inner.transcribed
    /\ calls' = Append([calls EXCEPT ![Len(calls)].transcribed = TRUE],
                       Call("whisper", SliceIndices(All, Len(dialog)),
                            Range(Output)))
    /\ UNCHANGED <<contentVars, reply>>

OpenAIRaises ==
    /\ InTurn(OpenAI)
    /\ TextRaises
    /\ Raise("error")
    /\ UNCHANGED contentVars

OpenAISkips ==
    /\ InTurn(OpenAI) /\ InRange
    /\ ~TextRaises /\ ~HasText
    /\ IsRecording => inner.transcribed
    /\ Skip
    /\ UNCHANGED contentVars

Sources == IF IsText THEN {} ELSE {Min(Usable)}

Summary(dialogs, sources) ==
    [type |-> "summary", dialog |-> dialogs, vendor |-> "openai",
     schema |-> "text", sources |-> sources]

\* The service may fail, and the query may find nothing in its answer.
CompletionAnswers ==
    /\ InTurn({"completion"})
    /\ HasText
    /\ \/ Add(<<Summary(<<here>>, Sources)>>) /\ Skip
       \/ UNCHANGED contentVars /\ Skip
       \/ UNCHANGED contentVars /\ Raise("service")

\* The text of a text dialog has the key "party", and not "parties", which is
\* read from it: KeyError.
ChatCollects ==
    /\ InTurn({"chat"})
    /\ HasText
    /\ IF IsText THEN Raise("error") ELSE NextDialog({here}, Sources)
    /\ UNCHANGED contentVars

ChatAnswers ==
    /\ calls # <<>> /\ inner.filter = "chat" /\ inner.todo = <<>>
    /\ inner.texts # {}
    /\ \/ Add(<<Summary(inner.asked, inner.sources)>>) /\ Return
       \/ UNCHANGED contentVars /\ Return
       \/ UNCHANGED contentVars /\ Raise("service")

Finish ==
    /\ calls # <<>> /\ inner.todo = <<>>
    /\ inner.filter = "chat" => inner.texts = {}
    /\ Return
    /\ UNCHANGED contentVars

-----------------------------------------------------------------------------

Turn ==
    \/ NoSuchDialog
    \/ WhisperRaises \/ WhisperSkips \/ WhisperTranscribes \/ WhisperIgnores
    \/ DeepgramRaises \/ DeepgramSkips \/ DeepgramTranscribes
    \/ Transcribe \/ OpenAIRaises \/ OpenAISkips
    \/ CompletionAnswers \/ ChatCollects \/ ChatAnswers \/ Finish

\* A caller's dialog is between all parties so far.
Everybody == [p \in DOMAIN parties |-> p]

\* Callers complete parties but do not overwrite them.
ClientStep ==
    \/ \E a \in Invited : AddParty(a)
    \/ \E parameter \in {"name", "mailto"}, a \in Invited, p \in DOMAIN parties :
           /\ parties[p][parameter] = ""
           /\ SetPartyParameter(parameter, a[parameter], p)
    \/ \E media \in Texts :
           \/ AddDialogInlineText(Everybody, FALSE, media)
           \/ Everybody # <<>> /\ AddDialogInlineText(<<1>>, TRUE, media)
    \/ \E media \in Recordings :
           AddDialogRecording(Everybody, media)
    \/ \E d \in 1 .. Length(dialog) : AddAnalysisTranscript(d)
    \/ \E m \in Message : AddDialogInlineEmailMessage(m)

FiltersNext ==
    \/ Client(ClientStep)
    \/ \E filter \in Filter :
           \/ \E spec \in Lists \cup {All}, outputs \in Outputs :
                  Start(filter, spec, outputs)
           \/ StartWithoutDialogs(filter)
    \/ Turn

FiltersSpec == FiltersInit /\ [][FiltersNext]_filterVars

-----------------------------------------------------------------------------

\* However often transcription is asked for, by whom and with which lists, also
\* after calls that failed halfway, and when the vCon has a transcript of an
\* older version: no filter makes the same transcript of a dialog twice.
TranscribedOnce ==
    \A k \in 1 .. Length(analysis) : \A j \in 1 .. k - 1 :
        /\ analysis[j].type = "transcript" /\ analysis[k].type = "transcript"
        /\ analysis[j].dialog = analysis[k].dialog
        /\ analysis[j].schema = analysis[k].schema
        => analysis[k].vendor = "whisper"

\* A transcription that returns has done what it was asked for: each asked
\* recording that the service supports has each of the asked outputs, those
\* counted that earlier calls have made.  Whisper says nothing of the recordings
\* that have an empty body: it returns without a transcript of them.
ReturnedMeansDone ==
    reply.status = "ok" =>
        \A d \in Range(reply.asked) :
            dialog[d].type = "recording" =>
                /\ reply.filter = "whisper" /\ dialog[d].media = "audio"
                       => Missing(d, reply.outputs) = <<>>
                /\ reply.filter = "deepgram"
                       => TranscriptsOf(d, Deepgram) # {}

\* What a summary says of its dialogs it has from them: the transcripts it was
\* made from are of the dialogs it refers to.
SummaryRestsOnItsDialogs ==
    \A k \in 1 .. Length(analysis) : \A s \in analysis[k].sources :
        /\ s < k
        /\ analysis[s].type = "transcript"
        /\ Range(analysis[s].dialog) \subseteq Range(analysis[k].dialog)
=============================================================================
